-------------------------- MODULE HostAdminProofs ---------------------------
(***************************************************************************)
(* Proofs about the forms and commands that add, edit and delete hosts.    *)
(***************************************************************************)
EXTENDS ServiceProofs, FiniteSetTheorems

Keyed(rows) ==
    /\ \A i \in DOMAIN rows : {"mac", "port"} \subseteq DOMAIN rows[i]
    /\ \A i, j \in DOMAIN rows :
          rows[i].mac = rows[j].mac /\ rows[i].port = rows[j].port => i = j

(* Each request takes one id at most, when it becomes one of these.        *)
Settled == {r \in Requests : request[r].pc \in {"state", "done"}}

TablesOK ==
    /\ lastId \in Nat /\ DOMAIN table \subseteq 1..lastId /\ Keyed(table)
    /\ states \subseteq 1..lastId /\ watch \subseteq 1..lastId /\ raced \subseteq Requests

IdsSuffice == lastId <= Cardinality(DOMAIN AtFirst) + Cardinality(Settled)

(* What a request carries from one of its statements to the next.          *)
Carries(x) ==
    /\ DOMAIN x = {"pc", "op", "id", "row", "answer"}
    /\ x.pc \in {"new", "lookup", "write", "state", "done"}
    /\ x.answer \in Answers /\ x.id \in 0..lastId
    /\ x.pc \in {"lookup", "write"} => {"mac", "port"} \subseteq DOMAIN x.row
    /\ x.pc \in {"lookup", "write"} /\ x.op = "add" => x.id = 0
    /\ x.pc = "state" => x.id # 0

RequestsOK == DOMAIN request = Requests /\ \A r \in Requests : Carries(request[r])

(* What a request that no commit fell into has found is still so, when it  *)
(* comes to its INSERT or UPDATE ...                                       *)
LookupHolds ==
    \A r \in Requests \ raced :
        request[r].pc = "write" => Holder(request[r].row) \subseteq {request[r].id}

(* ... and nobody else inserts the state of the host it has inserted.      *)
StateIsFree ==
    /\ \A r \in Requests \ raced : request[r].pc = "state" => request[r].id \notin states
    /\ \A q, r \in Requests :
          request[q].pc = "state" /\ request[r].pc = "state"
              /\ request[q].id = request[r].id => q = r

AdminInv ==
    /\ TablesOK /\ RequestsOK /\ LookupHolds /\ StateIsFree /\ ErrorNeedsRace

-----------------------------------------------------------------------------
LEMMA AdminInvInit == AdminInit => AdminInv /\ IdsSuffice
<1> SUFFICES ASSUME AdminInit PROVE AdminInv /\ IdsSuffice
    OBVIOUS
<1>1. PICK n \in Nat : DOMAIN AtFirst = 1..n /\ Cardinality(DOMAIN AtFirst) = n
    BY HostAdminAssumption, FS_CardinalityType
<1>3. lastId = n /\ table = AtFirst /\ states = 1..n /\ watch = {} /\ raced = {}
    BY <1>1 DEF AdminInit
<1>4. Keyed(table)
    BY <1>3, HostAdminAssumption DEF Keyed
<1>5. request = [r \in Requests |-> [pc |-> "new", op |-> "none", id |-> 0,
                                     row |-> Null, answer |-> "none"]]
    BY DEF AdminInit
<1>6. RequestsOK
    <2>1. DOMAIN request = Requests
        BY <1>5
    <2>2. ASSUME NEW r \in Requests PROVE Carries(request[r])
        <3>1. request[r] = [pc |-> "new", op |-> "none", id |-> 0, row |-> Null, answer |-> "none"]
            BY <1>5
        <3>2. DOMAIN request[r] = {"pc", "op", "id", "row", "answer"}
            BY <3>1
        <3> QED
            BY <1>1, <1>3, <3>1, <3>2 DEF Carries, Answers
    <2> QED
        BY <2>1, <2>2 DEF RequestsOK
<1>7. Cardinality(Settled) \in Nat
    <2>1. Settled \subseteq Requests
        BY DEF Settled
    <2> QED
        BY <2>1, HostAdminAssumption, FS_Subset, FS_CardinalityType
<1> QED
    BY <1>1, <1>3, <1>4, <1>5, <1>6, <1>7
    DEF AdminInv, TablesOK, IdsSuffice, LookupHolds, StateIsFree, ErrorNeedsRace

(* A row that no other row has the pair of can be saved.                   *)
LEMMA SavedRow ==
    ASSUME Keyed(table), NEW id, NEW row, {"mac", "port"} \subseteq DOMAIN row,
           Holder(row) \subseteq {id}
    PROVE  Keyed(WithRow(id, row)) /\ DOMAIN WithRow(id, row) = DOMAIN table \cup {id}
BY DEF Keyed, WithRow, Holder

LEMMA ResolvedRow ==
    ASSUME NEW form \in Forms, NEW link, NEW on, NEW reached
    PROVE  \/ Resolved(form, link, on, reached) = Null
           \/ {"mac", "port"} \subseteq DOMAIN Resolved(form, link, on, reached)
<1>1. form.resolution \in {"", "match", "link", "cancel"}
    BY HostAdminAssumption
<1>2. \A f, l, o : {"mac", "port"} \subseteq DOMAIN Row(f, l, o)
    BY DEF Row
<1> QED
    BY <1>1, <1>2 DEF Resolved

(* A request that is answered is done, and the others are where they were. *)
LEMMA Answered ==
    ASSUME RequestsOK, NEW r \in Requests, NEW answer \in Answers, Answer(r, answer)
    PROVE  /\ DOMAIN request' = Requests
           /\ \A q \in Requests \ {r} : request'[q] = request[q]
           /\ DOMAIN request'[r] = DOMAIN request[r]
           /\ request'[r].pc = "done" /\ request'[r].answer = answer
           /\ request'[r].id = request[r].id
BY DEF RequestsOK, Carries, Answer

(* The effect of a step on the tables.                                     *)
LEMMA TableStep ==
    ASSUME TablesOK, RequestsOK, [AdminNext]_adminVars
    PROVE  /\ TablesOK' /\ raced \subseteq raced'
           /\ \/ lastId' = lastId /\ DOMAIN table' \subseteq DOMAIN table
              \/ lastId' = lastId + 1 /\ DOMAIN table' = DOMAIN table \cup {lastId + 1}
<1>1. ASSUME NEW r \in Requests, AddHost(r) \/ EditHost(r) \/ LookUp(r)
      PROVE  UNCHANGED <<table, lastId, states, watch, raced>>
    BY <1>1 DEF AddHost, EditHost, LookUp
<1>2. ASSUME raced' = raced \/ \E q : Commits(q) PROVE raced \subseteq raced' /\ raced' \subseteq Requests
    BY <1>2 DEF TablesOK, Commits, Disturbed
<1>3. ASSUME NEW row, {"mac", "port"} \subseteq DOMAIN row, Holder(row) = {},
             table' = WithRow(NextId, row), lastId' = NextId
      PROVE  /\ lastId' = lastId + 1 /\ DOMAIN table' = DOMAIN table \cup {lastId + 1}
             /\ Keyed(table') /\ lastId' \in Nat /\ 1..lastId \subseteq 1..lastId'
             /\ DOMAIN table' \subseteq 1..lastId' /\ lastId + 1 \in 1..lastId'
    <2>1. Keyed(table') /\ DOMAIN table' = DOMAIN table \cup {lastId + 1}
        BY <1>3, SavedRow DEF TablesOK, NextId
    <2>2. lastId \in Nat /\ DOMAIN table \subseteq 1..lastId /\ lastId' = lastId + 1
        BY <1>3 DEF TablesOK, NextId
    <2> QED
        BY <2>1, <2>2
<1>4. ASSUME NEW r \in Requests, Insert(r), Holder(request[r].row) = {}
      PROVE  /\ TablesOK' /\ raced \subseteq raced'
             /\ lastId' = lastId + 1 /\ DOMAIN table' = DOMAIN table \cup {lastId + 1}
    <2>1. {"mac", "port"} \subseteq DOMAIN request[r].row
        BY <1>4 DEF Insert, RequestsOK, Carries
    <2>2. /\ table' = WithRow(NextId, request[r].row) /\ lastId' = NextId /\ Commits(r)
          /\ states' = states /\ watch' = watch
        BY <1>4 DEF Insert
    <2> QED
        BY <1>2, <1>3, <1>4, <2>1, <2>2 DEF TablesOK
<1>5. ASSUME NEW r \in Requests, CliAddHost(r)
      PROVE  /\ TablesOK' /\ raced \subseteq raced'
             /\ lastId' = lastId + 1 /\ DOMAIN table' = DOMAIN table \cup {lastId + 1}
    <2>1. PICK form \in Forms :
            /\ Holder(Row(form, form.link, TRUE)) = {}
            /\ table' = WithRow(NextId, Row(form, form.link, TRUE))
            /\ lastId' = NextId /\ states' = states \cup {NextId}
            /\ Commits(r) /\ watch' = watch
        BY <1>5 DEF CliAddHost
    <2>2. {"mac", "port"} \subseteq DOMAIN Row(form, form.link, TRUE)
        BY DEF Row
    <2> QED
        BY <1>2, <1>3, <2>1, <2>2 DEF TablesOK, NextId
<1>6. ASSUME UNCHANGED <<lastId, states, watch>>, raced' = raced \/ \E q : Commits(q),
             Keyed(table'), DOMAIN table' \subseteq DOMAIN table
      PROVE  TablesOK' /\ raced \subseteq raced'
    BY <1>2, <1>6 DEF TablesOK
<1>7. ASSUME NEW r \in Requests, Update(r)
      PROVE  TablesOK' /\ raced \subseteq raced' /\ lastId' = lastId /\ DOMAIN table' \subseteq DOMAIN table
    <2>1. CASE table' = table /\ (raced' = raced \/ Commits(r))
        BY <1>6, <1>7, <2>1 DEF Update, TablesOK
    <2>2. CASE /\ request[r].id \in DOMAIN table
               /\ Holder(request[r].row) \subseteq {request[r].id} /\ Commits(r)
               /\ table' = WithRow(request[r].id, request[r].row)
        <3>1. {"mac", "port"} \subseteq DOMAIN request[r].row
            BY <1>7 DEF Update, RequestsOK, Carries
        <3>2. Keyed(table') /\ DOMAIN table' = DOMAIN table \cup {request[r].id}
            BY <2>2, <3>1, SavedRow DEF TablesOK
        <3> QED
            BY <1>6, <1>7, <2>2, <3>2 DEF Update
    <2> QED
        BY <1>7, <2>1, <2>2 DEF Update
<1>8. ASSUME NEW r \in Requests, DeleteHost(r)
      PROVE  TablesOK' /\ raced \subseteq raced' /\ lastId' = lastId /\ DOMAIN table' \subseteq DOMAIN table
    <2>1. PICK id \in 1..lastId : table' = [i \in DOMAIN table \ {id} |-> table[i]]
        BY <1>8 DEF DeleteHost
    <2>2. Keyed(table') /\ DOMAIN table' \subseteq DOMAIN table
        BY <2>1 DEF TablesOK, Keyed
    <2> QED
        BY <1>6, <1>8, <2>2 DEF DeleteHost
<1>9. ASSUME NEW r \in Requests, CliEditHost(r)
      PROVE  TablesOK' /\ raced \subseteq raced' /\ lastId' = lastId /\ DOMAIN table' \subseteq DOMAIN table
    <2>1. PICK id \in DOMAIN table, form \in Forms, on \in BOOLEAN,
               given \in SUBSET {"mac", "ip", "port", "link"} :
            LET row == [column \in DOMAIN table[id] |->
                          IF column = "on" THEN on
                          ELSE IF column \in given THEN form[column] ELSE table[id][column]]
            IN  /\ request[r].pc = "new" /\ Holder(row) \subseteq {id}
                /\ table' = WithRow(id, row)
                /\ Answer(r, "saved") /\ Commits(r) /\ UNCHANGED <<lastId, states, watch>>
        BY <1>9 DEF CliEditHost
    <2> DEFINE row == [column \in DOMAIN table[id] |->
                          IF column = "on" THEN on
                          ELSE IF column \in given THEN form[column] ELSE table[id][column]]
    <2>2. {"mac", "port"} \subseteq DOMAIN row
        BY DEF TablesOK, Keyed
    <2>3. Holder(row) \subseteq {id} /\ table' = WithRow(id, row)
        BY <2>1
    <2> HIDE DEF row
    <2>4. Keyed(table') /\ DOMAIN table' = DOMAIN table \cup {id}
        BY <2>2, <2>3, SavedRow DEF TablesOK
    <2> QED
        BY <1>6, <1>9, <2>4 DEF CliEditHost
<1>10. ASSUME NEW r \in Requests, CliDisableHost(r)
       PROVE  TablesOK' /\ raced \subseteq raced' /\ lastId' = lastId /\ DOMAIN table' \subseteq DOMAIN table
    <2>1. PICK id \in DOMAIN table : table' = [table EXCEPT ![id].on = FALSE]
        BY <1>10 DEF CliDisableHost
    <2>2. ASSUME NEW i \in DOMAIN table
          PROVE  /\ DOMAIN table'[i] = DOMAIN table[i]
                 /\ table'[i].mac = table[i].mac /\ table'[i].port = table[i].port
        BY <2>1 DEF TablesOK, Keyed
    <2>3. DOMAIN table' = DOMAIN table
        BY <2>1
    <2>4. Keyed(table')
        BY <2>2, <2>3 DEF TablesOK, Keyed
    <2> QED
        BY <1>6, <1>10, <2>3, <2>4 DEF CliDisableHost
<1>11. ASSUME NEW r \in Requests, InsertState(r)
       PROVE  TablesOK' /\ UNCHANGED <<table, lastId, raced>>
    <2>1. request[r].id \in 1..lastId
        BY <1>11 DEF InsertState, TablesOK, RequestsOK, Carries
    <2> QED
        BY <1>11, <2>1 DEF InsertState, TablesOK
<1>12. CASE ReadHosts
    BY <1>12 DEF ReadHosts, TablesOK
<1>13. CASE CheckHost
    BY <1>13 DEF CheckHost, TablesOK, Disturbed
<1>14. CASE AdminCrash
    BY <1>14 DEF AdminCrash, TablesOK
<1>15. CASE UNCHANGED adminVars
    BY <1>15 DEF adminVars, TablesOK
<1>16. ASSUME NEW r \in Requests, Insert(r), Holder(request[r].row) # {}
       PROVE  UNCHANGED <<table, lastId, states, watch, raced>>
    BY <1>16 DEF Insert
<1>17. ASSUME UNCHANGED <<table, lastId, states, watch, raced>> PROVE TablesOK'
    BY <1>17 DEF TablesOK
<1>18. ASSUME NEW r \in Requests,
              AddHost(r) \/ EditHost(r) \/ LookUp(r) \/ Insert(r) \/ InsertState(r)
                  \/ Update(r) \/ DeleteHost(r)
                  \/ CliAddHost(r) \/ CliEditHost(r) \/ CliDisableHost(r)
       PROVE  /\ TablesOK' /\ raced \subseteq raced'
              /\ \/ lastId' = lastId /\ DOMAIN table' \subseteq DOMAIN table
                 \/ lastId' = lastId + 1 /\ DOMAIN table' = DOMAIN table \cup {lastId + 1}
    BY <1>1, <1>4, <1>5, <1>7, <1>8, <1>9, <1>10, <1>11, <1>16, <1>17, <1>18
<1> QED
    BY <1>12, <1>13, <1>14, <1>15, <1>18
    DEF AdminNext, ReadHosts, CheckHost, AdminCrash, adminVars

(* What a step makes of a request: its answer, a row it looks up, which    *)
(* nobody else has when it comes to its write, or a host it has inserted.  *)
Taken(q) == ~(Holder(request[q].row) \subseteq {request[q].id})

Ends(q) ==
    /\ DOMAIN request'[q] = DOMAIN request[q] /\ request'[q].pc = "done"
    /\ request'[q].id = request[q].id /\ request'[q].answer \in Answers
    /\ request'[q].answer = "error" =>
          \/ request[q].answer = "error"
          \/ request[q].pc = "write" /\ Taken(q)
          \/ request[q].pc = "state" /\ request[q].id \in states

Looks(q) ==
    /\ Carries(request'[q]) /\ request'[q].pc \in {"lookup", "write"}
    /\ request[q].pc \in {"new", "lookup"}
    /\ request'[q].answer = "error" => request[q].answer = "error"
    /\ request'[q].pc = "write" => Holder(request'[q].row) \subseteq {request'[q].id}
    /\ table' = table

Gains(q) ==
    /\ DOMAIN request'[q] = DOMAIN request[q]
    /\ request[q].pc = "write" /\ request'[q].pc = "state"
    /\ request'[q].id = lastId + 1 /\ lastId' = lastId + 1
    /\ request'[q].answer = request[q].answer
    /\ states' = states

LEMMA AnswerEnds ==
    ASSUME RequestsOK, NEW r \in Requests, NEW answer \in Answers, Answer(r, answer),
           answer = "error" => \/ request[r].pc = "write" /\ Taken(r)
                               \/ request[r].pc = "state" /\ request[r].id \in states
    PROVE  Ends(r) /\ \A q \in Requests \ {r} : request'[q] = request[q]
BY Answered DEF Ends

LEMMA RequestStep ==
    ASSUME TablesOK, RequestsOK, [AdminNext]_adminVars
    PROVE  /\ DOMAIN request' = Requests
           /\ \A q \in Requests :
                 request'[q] = request[q] \/ Ends(q) \/ Looks(q) \/ Gains(q)
           /\ \A q, r \in Requests : Gains(q) /\ Gains(r) => q = r
<1>1. DOMAIN request' = Requests
    <2>1. ASSUME NEW r \in Requests, AddHost(r) PROVE DOMAIN request' = DOMAIN request
        BY <2>1 DEF AddHost, Answer
    <2>2. ASSUME NEW r \in Requests, EditHost(r) PROVE DOMAIN request' = DOMAIN request
        BY <2>2 DEF EditHost, Answer
    <2>3. ASSUME NEW r \in Requests, LookUp(r) \/ Insert(r) \/ InsertState(r) \/ Update(r)
          PROVE  DOMAIN request' = DOMAIN request
        BY <2>3 DEF LookUp, Insert, InsertState, Update, Answer
    <2>4. ASSUME NEW r \in Requests,
                 DeleteHost(r) \/ CliAddHost(r) \/ CliEditHost(r) \/ CliDisableHost(r)
          PROVE  DOMAIN request' = DOMAIN request
        BY <2>4 DEF DeleteHost, CliAddHost, CliEditHost, CliDisableHost, Answer
    <2>5. CASE AdminCrash
        BY <2>5 DEF AdminCrash
    <2>6. CASE ReadHosts \/ CheckHost \/ UNCHANGED adminVars
        BY <2>6 DEF ReadHosts, CheckHost, adminVars, RequestsOK
    <2> QED
        BY <2>1, <2>2, <2>3, <2>4, <2>5, <2>6 DEF AdminNext, RequestsOK
<1>2. ASSUME NEW r \in Requests, NEW answer \in Answers \ {"error"}, Answer(r, answer)
      PROVE  \A q \in Requests : request'[q] = request[q] \/ Ends(q)
    BY <1>2, AnswerEnds
<1>3. ASSUME NEW r \in Requests, NEW x, request' = [request EXCEPT ![r] = x]
      PROVE  request'[r] = x /\ \A q \in Requests \ {r} : request'[q] = request[q]
    BY <1>3 DEF RequestsOK
<1>4. ASSUME NEW r \in Requests, AddHost(r)
      PROVE  \A q \in Requests : request'[q] = request[q] \/ Ends(q) \/ Looks(q)
    <2>1. PICK form \in Forms, reached \in BOOLEAN :
            LET row == Resolved(form, Null, TRUE, reached) IN
            IF row = Null THEN Answer(r, "mismatch")
            ELSE request' = [request EXCEPT ![r] =
                  [pc |-> "lookup", op |-> "add", id |-> 0, row |-> row, answer |-> "none"]]
        BY <1>4 DEF AddHost
    <2>4. ASSUME NEW row, row = Resolved(form, Null, TRUE, reached), row # Null,
                 request' = [request EXCEPT ![r] =
                  [pc |-> "lookup", op |-> "add", id |-> 0, row |-> row, answer |-> "none"]]
          PROVE  {"mac", "port"} \subseteq DOMAIN row /\ \A q \in Requests \ {r} : request'[q] = request[q]
        BY <1>3, <2>4, ResolvedRow
    <2>2. CASE Answer(r, "mismatch")
        BY <1>2, <2>2 DEF Answers
    <2>3. ASSUME NEW row, {"mac", "port"} \subseteq DOMAIN row,
                 request' = [request EXCEPT ![r] =
                  [pc |-> "lookup", op |-> "add", id |-> 0, row |-> row, answer |-> "none"]]
          PROVE  Looks(r)
        <3>1. request'[r] = [pc |-> "lookup", op |-> "add", id |-> 0, row |-> row, answer |-> "none"]
            BY <1>3, <2>3
        <3>2. DOMAIN request'[r] = {"pc", "op", "id", "row", "answer"}
            BY <3>1
        <3>3. request[r].pc = "new" /\ table' = table
            BY <1>4 DEF AddHost
        <3> QED
            <4>1. /\ request'[r].pc = "lookup" /\ request'[r].op = "add" /\ request'[r].id = 0
                  /\ request'[r].row = row /\ request'[r].answer = "none"
                BY <3>1
            <4>2. 0 \in 0..lastId /\ "none" \in Answers
                BY DEF TablesOK, Answers
            <4>3. Carries(request'[r])
                BY <2>3, <3>2, <4>1, <4>2 DEF Carries
            <4> QED
                BY <3>3, <4>1, <4>3 DEF Looks
    <2> QED
        BY <2>1, <2>2, <2>3, <2>4
<1>5. ASSUME NEW r \in Requests, EditHost(r)
      PROVE  \A q \in Requests : request'[q] = request[q] \/ Ends(q) \/ Looks(q)
    <2>1. PICK id \in 1..lastId, form \in Forms, on \in BOOLEAN, reached \in BOOLEAN :
            /\ request[r].pc = "new"
            /\ IF id \notin DOMAIN table THEN Answer(r, "not found")
               ELSE LET row == Resolved(form, table[id].link, on, reached) IN
                    IF row = Null THEN Answer(r, "mismatch")
                    ELSE request' = [request EXCEPT ![r] =
                           [pc |-> IF id \in Holder(row) THEN "write" ELSE "lookup",
                            op |-> "edit", id |-> id, row |-> row, answer |-> "none"]]
            /\ UNCHANGED <<table, lastId, states, watch, raced>>
        BY <1>5 DEF EditHost
    <2>2. CASE Answer(r, "mismatch") \/ Answer(r, "not found")
        BY <1>2, <2>2 DEF Answers
    <2>3. ASSUME NEW row, {"mac", "port"} \subseteq DOMAIN row, NEW pc \in {"write", "lookup"},
                 pc = "write" => id \in Holder(row),
                 request' = [request EXCEPT ![r] =
                  [pc |-> pc, op |-> "edit", id |-> id, row |-> row, answer |-> "none"]]
          PROVE  Looks(r)
        <3>1. request'[r] = [pc |-> pc, op |-> "edit", id |-> id, row |-> row, answer |-> "none"]
            BY <1>3, <2>3
        <3>2. DOMAIN request'[r] = {"pc", "op", "id", "row", "answer"}
            BY <3>1
        <3>3. request[r].pc = "new" /\ table' = table
            BY <1>5 DEF EditHost
        <3>4. id \in Holder(row) => Holder(row) \subseteq {id}
            BY DEF TablesOK, Keyed, Holder
        <3>5. Carries(request'[r])
            <4>1. /\ request'[r].pc = pc /\ request'[r].op = "edit" /\ request'[r].id = id
                  /\ request'[r].row = row /\ request'[r].answer = "none"
                BY <3>1
            <4>2. id \in 0..lastId /\ id # 0 /\ "none" \in Answers
                BY DEF TablesOK, Answers
            <4> QED
                BY <2>3, <3>2, <4>1, <4>2 DEF Carries
        <3> QED
            BY <2>3, <3>1, <3>3, <3>4, <3>5 DEF Looks
    <2>4. ASSUME NEW row, row = Resolved(form, table[id].link, on, reached), row # Null,
                 request' = [request EXCEPT ![r] =
                   [pc |-> IF id \in Holder(row) THEN "write" ELSE "lookup",
                    op |-> "edit", id |-> id, row |-> row, answer |-> "none"]]
          PROVE  Looks(r) /\ \A q \in Requests \ {r} : request'[q] = request[q]
        <3>1. {"mac", "port"} \subseteq DOMAIN row
            BY <2>4, ResolvedRow
        <3>2. Looks(r)
            BY <2>3, <2>4, <3>1
        <3> QED
            BY <1>3, <2>4, <3>2
    <2> QED
        BY <2>1, <2>2, <2>4
<1>6. ASSUME NEW r \in Requests, LookUp(r)
      PROVE  \A q \in Requests : request'[q] = request[q] \/ Ends(q) \/ Looks(q)
    <2>1. CASE Answer(r, "conflict")
        BY <1>2, <2>1 DEF Answers
    <2>2. CASE /\ Holder(request[r].row) \ {request[r].id} = {}
               /\ request' = [request EXCEPT ![r].pc = "write"]
        <3>1. /\ request'[r] = [request[r] EXCEPT !.pc = "write"]
              /\ \A q \in Requests \ {r} : request'[q] = request[q]
            BY <1>3, <2>2
        <3>2. DOMAIN request[r] = {"pc", "op", "id", "row", "answer"}
            BY DEF RequestsOK, Carries
        <3>3. /\ request'[r].pc = "write" /\ request'[r].op = request[r].op
              /\ request'[r].id = request[r].id /\ request'[r].row = request[r].row
              /\ request'[r].answer = request[r].answer /\ DOMAIN request'[r] = DOMAIN request[r]
            BY <3>1, <3>2
        <3>4. request[r].pc = "lookup" /\ table' = table
            BY <1>6 DEF LookUp
        <3>5. Carries(request'[r])
            BY <3>3, <3>4 DEF RequestsOK, Carries
        <3> QED
            BY <2>2, <3>1, <3>3, <3>4, <3>5 DEF Looks
    <2> QED
        BY <1>6, <2>1, <2>2 DEF LookUp
<1>7. ASSUME NEW r \in Requests, Insert(r)
      PROVE  /\ request'[r] = request[r] \/ Ends(r) \/ Gains(r)
             /\ \A q \in Requests \ {r} : request'[q] = request[q]
    <2>1. CASE Holder(request[r].row) # {}
        <3>1. request[r].pc = "write" /\ request[r].id = 0
            BY <1>7 DEF Insert, RequestsOK, Carries
        <3>2. Taken(r)
            BY <2>1, <3>1 DEF Taken, Holder, TablesOK
        <3> QED
            BY <1>7, <2>1, <3>1, <3>2, AnswerEnds DEF Insert, Answers
    <2>2. CASE Holder(request[r].row) = {}
        <3>1. /\ request[r].pc = "write" /\ lastId' = lastId + 1 /\ states' = states
              /\ request' = [request EXCEPT ![r].pc = "state", ![r].id = NextId]
            BY <1>7, <2>2 DEF Insert, NextId
        <3>2. DOMAIN request = Requests /\ DOMAIN request[r] = {"pc", "op", "id", "row", "answer"}
            BY DEF RequestsOK, Carries
        <3>3. /\ request'[r].pc = "state" /\ request'[r].id = lastId + 1
              /\ request'[r].answer = request[r].answer /\ DOMAIN request'[r] = DOMAIN request[r]
              /\ \A q \in Requests \ {r} : request'[q] = request[q]
            BY <3>1, <3>2 DEF NextId
        <3> QED
            BY <3>1, <3>3 DEF Gains
    <2> QED
        BY <2>1, <2>2
<1>8. ASSUME NEW r \in Requests, InsertState(r)
      PROVE  \A q \in Requests : request'[q] = request[q] \/ Ends(q)
    BY <1>8, AnswerEnds DEF InsertState, Answers
<1>9. ASSUME NEW r \in Requests, Update(r)
      PROVE  \A q \in Requests : request'[q] = request[q] \/ Ends(q)
    BY <1>9, AnswerEnds DEF Update, Answers, Taken
<1>10. ASSUME NEW r \in Requests,
              DeleteHost(r) \/ CliAddHost(r) \/ CliEditHost(r) \/ CliDisableHost(r)
       PROVE  \A q \in Requests : request'[q] = request[q] \/ Ends(q)
    BY <1>2, <1>10 DEF DeleteHost, CliAddHost, CliEditHost, CliDisableHost, Answers
<1>11. ASSUME ReadHosts \/ CheckHost \/ UNCHANGED adminVars PROVE request' = request
    BY <1>11 DEF ReadHosts, CheckHost, adminVars
<1>12. ASSUME AdminCrash PROVE \A q \in Requests : request'[q] = request[q] \/ Ends(q)
    <2>1. ASSUME NEW q \in Requests PROVE request'[q] = request[q] \/ Ends(q)
        <3>1. CASE request[q].pc = "new"
            BY <1>12, <3>1 DEF AdminCrash
        <3>2. CASE request[q].pc # "new"
            <4>1. request'[q] = [request[q] EXCEPT !.pc = "done"]
                BY <1>12, <3>2 DEF AdminCrash
            <4>2. Carries(request[q])
                BY DEF RequestsOK
            <4>3. /\ DOMAIN request'[q] = DOMAIN request[q] /\ request'[q].pc = "done"
                  /\ request'[q].id = request[q].id /\ request'[q].answer = request[q].answer
                BY <4>1, <4>2 DEF Carries
            <4>4. request[q].answer \in Answers
                BY <4>2 DEF Carries
            <4>5. request'[q].answer \in Answers
                BY <4>3, <4>4
            <4> QED
                BY <4>3, <4>5 DEF Ends
        <3> QED
            BY <3>1, <3>2
    <2> QED
        BY <2>1
<1>13. ASSUME NEW q \in Requests, Gains(q), request'[q] = request[q] \/ Ends(q) \/ Looks(q)
       PROVE  FALSE
    BY <1>13 DEF Gains, Ends, Looks
<1>14. (\A q \in Requests : request'[q] = request[q] \/ Ends(q) \/ Looks(q))
          \/ \E r \in Requests : Insert(r)
    BY <1>4, <1>5, <1>6, <1>8, <1>9, <1>10, <1>11, <1>12 DEF AdminNext
<1> QED
    BY <1>1, <1>7, <1>13, <1>14

(* The effect on the tables of a step that has a request move on, or of    *)
(* the monitor: what changes a table that the others have read from marks  *)
(* them as raced.                                                          *)
LEMMA RacedByCommits ==
    ASSUME TablesOK, RequestsOK, [AdminNext]_adminVars
    PROVE  /\ \/ table' = table
              \/ \E r \in Requests : Commits(r) /\ request'[r].pc \in {"state", "done"}
           /\ \/ states' = states \/ Requests \cap Disturbed(Null) \subseteq raced'
              \/ \E r \in Requests : InsertState(r)
              \/ \E r \in Requests : Commits(r) /\ request'[r].pc = "done"
<1>1. ASSUME NEW r \in Requests, NEW answer, Answer(r, answer) PROVE request'[r].pc = "done"
    BY <1>1 DEF Answer, RequestsOK, Carries
<1>2. ASSUME NEW r \in Requests, AddHost(r) \/ EditHost(r) \/ LookUp(r)
      PROVE  table' = table /\ states' = states
    BY <1>2 DEF AddHost, EditHost, LookUp
<1>3. ASSUME NEW r \in Requests, Insert(r)
      PROVE  states' = states /\ (table' = table \/ (Commits(r) /\ request'[r].pc = "state"))
    <2>1. CASE request' = [request EXCEPT ![r].pc = "state", ![r].id = NextId] /\ Commits(r)
        <3>1. DOMAIN request = Requests /\ DOMAIN request[r] = {"pc", "op", "id", "row", "answer"}
            BY DEF RequestsOK, Carries
        <3>2. request'[r].pc = "state"
            BY <2>1, <3>1
        <3> QED
            BY <1>3, <2>1, <3>2 DEF Insert
    <2>2. CASE table' = table /\ states' = states
        BY <2>2
    <2> QED
        BY <1>3, <2>1, <2>2 DEF Insert
<1>4. ASSUME NEW r \in Requests, InsertState(r) PROVE table' = table
    BY <1>4 DEF InsertState
<1>5. ASSUME NEW r \in Requests, Update(r)
      PROVE  states' = states /\ (table' = table \/ (Commits(r) /\ request'[r].pc = "done"))
    BY <1>1, <1>5 DEF Update
<1>6. ASSUME NEW r \in Requests, DeleteHost(r) \/ CliEditHost(r) \/ CliDisableHost(r)
      PROVE  states' = states /\ Commits(r) /\ request'[r].pc = "done"
    BY <1>1, <1>6 DEF DeleteHost, CliEditHost, CliDisableHost
<1>7. ASSUME NEW r \in Requests, CliAddHost(r)
      PROVE  Commits(r) /\ request'[r].pc = "done"
    BY <1>1, <1>7 DEF CliAddHost
<1>8. CASE CheckHost
    BY <1>8 DEF CheckHost
<1>9. CASE ReadHosts \/ AdminCrash \/ UNCHANGED adminVars
    BY <1>9 DEF ReadHosts, AdminCrash, adminVars
<1> QED
    BY <1>2, <1>3, <1>4, <1>5, <1>6, <1>7, <1>8, <1>9 DEF AdminNext, CheckHost

LEMMA AdminInvStep == AdminInv /\ [AdminNext]_adminVars => AdminInv'
<1> SUFFICES ASSUME AdminInv, [AdminNext]_adminVars PROVE AdminInv'
    OBVIOUS
<1>0. TablesOK /\ RequestsOK /\ LookupHolds /\ StateIsFree /\ ErrorNeedsRace
    BY DEF AdminInv
<1>1. /\ TablesOK' /\ raced \subseteq raced' /\ lastId \in Nat /\ lastId' \in Nat
      /\ lastId <= lastId' /\ states \subseteq 1..lastId
    BY <1>0, TableStep DEF TablesOK
<1>2. /\ DOMAIN request' = Requests
      /\ \A q \in Requests : request'[q] = request[q] \/ Ends(q) \/ Looks(q) \/ Gains(q)
    BY <1>0, RequestStep
<1>3. ASSUME NEW q \in Requests, NEW r \in Requests, Commits(r), q # r,
             request[q].pc \in {"lookup", "write", "state"}
      PROVE  q \in raced'
    BY <1>3 DEF Commits, Disturbed
<1>4. RequestsOK'
    <2>1. ASSUME NEW q \in Requests PROVE Carries(request[q])'
        <3>1. Carries(request[q])
            BY <1>0 DEF RequestsOK
        <3>2. CASE request'[q] = request[q]
            BY <1>1, <3>1, <3>2 DEF Carries
        <3>3. CASE Ends(q)
            BY <1>1, <3>1, <3>3 DEF Ends, Carries
        <3>4. CASE Looks(q)
            BY <1>1, <3>4 DEF Looks, Carries
        <3>5. CASE Gains(q)
            BY <1>1, <3>1, <3>5 DEF Gains, Carries
        <3> QED
            BY <1>2, <3>2, <3>3, <3>4, <3>5
    <2> QED
        BY <1>2, <2>1 DEF RequestsOK
<1>5. LookupHolds'
    <2>1. ASSUME NEW q \in Requests \ raced', request'[q].pc = "write"
          PROVE  (Holder(request[q].row) \subseteq {request[q].id})'
        <3>1. CASE Looks(q)
            BY <2>1, <3>1 DEF Looks, Holder
        <3>2. CASE request'[q] = request[q]
            <4>1. Holder(request[q].row) \subseteq {request[q].id}
                BY <1>0, <1>1, <2>1, <3>2 DEF LookupHolds
            <4>2. table' = table
                BY <1>0, <1>3, <2>1, <3>2, RacedByCommits
            <4> QED
                BY <3>2, <4>1, <4>2 DEF Holder
        <3> QED
            BY <1>2, <2>1, <3>1, <3>2 DEF Ends, Gains
    <2> QED
        BY <2>1 DEF LookupHolds
<1>6. StateIsFree'
    <2>1. ASSUME NEW q \in Requests \ raced', request'[q].pc = "state"
          PROVE  request'[q].id \notin states'
        <3>1. CASE Gains(q)
            BY <1>1, <3>1 DEF Gains
        <3>2. CASE request'[q] = request[q]
            <4>1. request[q].id \notin states /\ request[q].pc = "state"
                BY <1>0, <1>1, <2>1, <3>2 DEF StateIsFree
            <4>2. CASE states' = states
                BY <3>2, <4>1, <4>2
            <4>3. CASE Requests \cap Disturbed(Null) \subseteq raced'
                <5>1. q # Null
                    BY HostAdminAssumption
                <5>2. q \in Disturbed(Null)
                    BY <4>1, <5>1 DEF Disturbed
                <5> QED
                    BY <2>1, <4>3, <5>2
            <4>4. ASSUME NEW r \in Requests, InsertState(r) PROVE request[q].id \notin states'
                <5>1. request[r].pc = "state" /\ states' = states \cup {request[r].id}
                    BY <4>4 DEF InsertState
                <5>2. request'[r].pc = "done"
                    BY <1>0, <4>4 DEF InsertState, Answer, RequestsOK, Carries
                <5>3. request[r].id # request[q].id
                    BY <1>0, <2>1, <4>1, <5>1, <5>2 DEF StateIsFree
                <5> QED
                    BY <4>1, <5>1, <5>3
            <4>5. ASSUME NEW r \in Requests, Commits(r), request'[r].pc = "done" PROVE FALSE
                BY <1>3, <2>1, <4>1, <4>5
            <4> QED
                BY <1>0, <3>2, <4>2, <4>3, <4>4, <4>5, RacedByCommits
        <3> QED
            BY <1>2, <2>1, <3>1, <3>2 DEF Ends, Looks
    <2>2. ASSUME NEW q \in Requests, NEW r \in Requests,
                 request'[q].pc = "state", request'[r].pc = "state",
                 request'[q].id = request'[r].id
          PROVE  q = r
        <3>1. \A u \in Requests : request'[u].pc = "state" =>
                \/ request[u].pc = "state" /\ request'[u] = request[u] /\ request[u].id <= lastId
                \/ Gains(u)
            BY <1>0, <1>1, <1>2 DEF Ends, Looks, RequestsOK, Carries
        <3>2. \A u, w \in Requests : Gains(u) /\ Gains(w) => u = w
            BY <1>0, RequestStep
        <3> QED
            BY <1>0, <1>1, <2>2, <3>1, <3>2 DEF StateIsFree, Gains
    <2> QED
        BY <2>1, <2>2 DEF StateIsFree
<1>7. ErrorNeedsRace'
    <2>1. ASSUME NEW q \in Requests \ raced', request'[q].answer = "error" PROVE FALSE
        <3>1. q \notin raced
            BY <1>1, <2>1
        <3>2. request[q].answer # "error"
            BY <1>0, <3>1 DEF ErrorNeedsRace
        <3>3. request[q].pc = "write" => ~Taken(q)
            BY <1>0, <3>1 DEF LookupHolds, Taken
        <3>4. request[q].pc = "state" => request[q].id \notin states
            BY <1>0, <3>1 DEF StateIsFree
        <3> QED
            BY <1>2, <2>1, <3>2, <3>3, <3>4 DEF Ends, Looks, Gains
    <2> QED
        BY <2>1 DEF ErrorNeedsRace
<1> QED
    BY <1>1, <1>4, <1>5, <1>6, <1>7 DEF AdminInv

(* An id is only taken by a request that comes to state or done by it.     *)
LEMMA IdsSufficeStep ==
    ASSUME AdminInv, IdsSuffice, [AdminNext]_adminVars
    PROVE  IdsSuffice'
<1>1. TablesOK /\ RequestsOK /\ TablesOK'
    BY AdminInvStep DEF AdminInv
<1>2. /\ Settled \subseteq Settled' /\ Settled' \subseteq Requests
      /\ lastId' = lastId \/ (lastId' = lastId + 1 /\ Settled # Settled')
    <2>1. \A q \in Requests : request'[q] = request[q] \/ Ends(q) \/ Looks(q) \/ Gains(q)
        BY <1>1, RequestStep
    <2>2. Settled \subseteq Settled' /\ Settled' \subseteq Requests
        BY <2>1 DEF Settled, Ends, Looks, Gains
    <2>3. ASSUME NEW r \in Requests, Insert(r), lastId' # lastId PROVE Settled # Settled'
        <3>1. /\ request[r].pc = "write"
              /\ request' = [request EXCEPT ![r].pc = "state", ![r].id = NextId]
            BY <2>3 DEF Insert
        <3>2. DOMAIN request = Requests /\ DOMAIN request[r] = {"pc", "op", "id", "row", "answer"}
            BY <1>1 DEF RequestsOK, Carries
        <3>3. request'[r].pc = "state"
            BY <3>1, <3>2
        <3> QED
            BY <3>1, <3>3 DEF Settled
    <2>4. ASSUME NEW r \in Requests, CliAddHost(r) PROVE Settled # Settled'
        <3>1. request[r].pc = "new" /\ request'[r].pc = "done"
            BY <1>1, <2>4 DEF CliAddHost, Answer, RequestsOK, Carries
        <3> QED
            BY <3>1 DEF Settled
    <2>5. lastId' = lastId \/ (lastId' = lastId + 1)
        BY <1>1, TableStep
    <2>6. lastId' # lastId => \E r \in Requests : Insert(r) \/ CliAddHost(r)
        <3>1. ASSUME NEW r \in Requests, AddHost(r) \/ EditHost(r) PROVE lastId' = lastId
            BY <3>1 DEF AddHost, EditHost
        <3>2. ASSUME NEW r \in Requests, LookUp(r) \/ InsertState(r) \/ Update(r)
              PROVE  lastId' = lastId
            BY <3>2 DEF LookUp, InsertState, Update
        <3>3. ASSUME NEW r \in Requests, DeleteHost(r) \/ CliEditHost(r) \/ CliDisableHost(r)
              PROVE  lastId' = lastId
            BY <3>3 DEF DeleteHost, CliEditHost, CliDisableHost
        <3>4. ASSUME ReadHosts \/ CheckHost \/ AdminCrash \/ UNCHANGED adminVars
              PROVE  lastId' = lastId
            BY <3>4 DEF ReadHosts, CheckHost, AdminCrash, adminVars
        <3> QED
            BY <3>1, <3>2, <3>3, <3>4 DEF AdminNext
    <2> QED
        BY <2>2, <2>3, <2>4, <2>5, <2>6
<1>3. /\ IsFiniteSet(Settled) /\ IsFiniteSet(Settled')
      /\ Cardinality(Settled) \in Nat /\ Cardinality(Settled') \in Nat
      /\ Cardinality(Settled) <= Cardinality(Settled')
      /\ Settled # Settled' => Cardinality(Settled) < Cardinality(Settled')
    <2>1. IsFiniteSet(Settled')
        BY <1>2, HostAdminAssumption, FS_Subset
    <2> QED
        BY <1>2, <2>1, FS_Subset, FS_CardinalityType
<1>4. Cardinality(DOMAIN AtFirst) \in Nat /\ lastId \in Nat /\ lastId' \in Nat
    BY <1>1, HostAdminAssumption, FS_CardinalityType DEF TablesOK
<1> QED
    BY <1>2, <1>3, <1>4 DEF IdsSuffice

LEMMA HostAdminTypeHolds == ServiceSpec => []HostAdminTypeOK
<1> DEFINE Inv == AdminInv /\ IdsSuffice
<1>1. ServiceInit => Inv
    BY AdminInvInit DEF ServiceInit
<1>2. Inv /\ [ServiceNext]_serviceVars => Inv'
    BY AdminInvStep, IdsSufficeStep, StepOfParts
<1>3. Inv => HostAdminTypeOK
    <2> SUFFICES ASSUME Inv PROVE HostAdminTypeOK
        OBVIOUS
    <2>1. lastId \in 0..MaxId /\ MaxId \in Nat
        <3>1. Settled \subseteq Requests
            BY DEF Settled
        <3>2. /\ Cardinality(Settled) \in Nat /\ Cardinality(Requests) \in Nat
              /\ Cardinality(Settled) <= Cardinality(Requests)
            BY <3>1, HostAdminAssumption, FS_Subset, FS_CardinalityType
        <3>3. Cardinality(DOMAIN AtFirst) \in Nat
            BY HostAdminAssumption, FS_CardinalityType
        <3>4. lastId \in Nat /\ lastId <= Cardinality(DOMAIN AtFirst) + Cardinality(Settled)
            BY DEF AdminInv, TablesOK, IdsSuffice
        <3> QED
            BY <3>2, <3>3, <3>4 DEF MaxId
    <2>2. \A r \in Requests :
             /\ request[r].pc \in {"new", "lookup", "write", "state", "done"}
             /\ request[r].answer \in Answers /\ request[r].id \in 0..MaxId
        BY <2>1 DEF AdminInv, RequestsOK, Carries
    <2>3. \A i, j \in DOMAIN table :
             <<table[i].mac, table[i].port>> = <<table[j].mac, table[j].port>> => i = j
        BY DEF AdminInv, TablesOK, Keyed
    <2> QED
        BY <2>1, <2>2, <2>3 DEF HostAdminTypeOK, AdminInv, TablesOK
<1> HIDE DEF Inv
<1> QED
    BY <1>1, <1>2, <1>3, PTL DEF ServiceSpec

(* Theorem: a form of app/main.py that adds or edits a host ends with the  *)
(* 500 of a broken constraint only when a commit of another request, of a  *)
(* command or of the monitor fell between its lookup and its write; alone, *)
(* the lookup is enough.                                                   *)
THEOREM ErrorNeedsRaceHolds == ServiceSpec => []ErrorNeedsRace
<1>1. ServiceInit => AdminInv
    BY AdminInvInit DEF ServiceInit
<1>2. AdminInv /\ [ServiceNext]_serviceVars => AdminInv'
    BY AdminInvStep, StepOfParts
<1>3. AdminInv => ErrorNeedsRace
    BY DEF AdminInv
<1> QED
    BY <1>1, <1>2, <1>3, PTL DEF ServiceSpec

(* Theorem: whenever a host is added there is no row of host_state under   *)
(* its id, though delete_host of app/main.py leaves such rows behind and   *)
(* the monitor adds rows for hosts that were deleted meanwhile.            *)
THEOREM FreshHostsStartUnknownHolds == ServiceSpec => FreshHostsStartUnknown
<1>1. ServiceInit => AdminInv
    BY AdminInvInit DEF ServiceInit
<1>2. AdminInv /\ [ServiceNext]_serviceVars => AdminInv'
    BY AdminInvStep, StepOfParts
<1>3. AdminInv /\ [ServiceNext]_serviceVars =>
        [\A id \in DOMAIN table' \ DOMAIN table : id \notin states]_adminVars
    <2> SUFFICES ASSUME AdminInv, [AdminNext]_adminVars,
                        NEW id \in DOMAIN table' \ DOMAIN table
                 PROVE  id \notin states
        BY StepOfParts
    <2>1. TablesOK /\ RequestsOK
        BY DEF AdminInv
    <2>2. id = lastId + 1
        BY <2>1, TableStep
    <2> QED
        BY <2>1, <2>2 DEF TablesOK
<1> QED
    BY <1>1, <1>2, <1>3, PTL DEF ServiceSpec, FreshHostsStartUnknown
=============================================================================
