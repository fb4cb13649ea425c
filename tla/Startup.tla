------------------------------ MODULE Startup -------------------------------
(***************************************************************************)
(* init_db of app/database.py: what a start of the application, or of a    *)
(* command of app/cli.py, does to the schema of the database it finds.     *)
(* CREATE and ALTER commit by themselves; the first INSERT opens a         *)
(* transaction, the copy of hosts into hosts_new, which the final commit   *)
(* ends.  A process may die between any two statements, and one that is up *)
(* adds and removes hosts.                                                 *)
(***************************************************************************)
EXTENDS Naturals, FiniteSets

CONSTANTS
    Nobody,     \* no process
    Procs,      \* processes that call init_db
    Columns,    \* columns that older versions of hosts lack
    Carried,    \* those of them that hosts_new has too
    HostRows    \* hosts an operator may have

ASSUME StartupAssumption ==
    /\ Carried \subseteq Columns /\ "subnet_id" \in Columns
    /\ Nobody \notin Procs

VARIABLES
    disk,      \* what is committed: table hosts, and hosts_new if it is there
    writer,    \* the process whose transaction is open
    draft,     \* the rows that this transaction has put into hosts_new
    init,      \* where each process is in init_db, and the columns it read
    kept,      \* history: the hosts that operators have, added and not removed
    alone      \* history: no other process was in init_db in the meantime

startupVars == <<disk, writer, draft, init, kept, alone>>

Phases == {"off", "columns", "subnet_id", "identity", "spare", "copy", "seed",
           "up", "failed"}

StartupTypeOK ==
    /\ disk \in [columns: SUBSET Columns, macOnly: BOOLEAN, rows: SUBSET HostRows,
                 spare: BOOLEAN, seeded: BOOLEAN]
    /\ writer \in Procs \cup {Nobody}
    /\ draft \subseteq HostRows /\ kept \subseteq HostRows
    /\ init \in [Procs -> [pc: Phases, todo: SUBSET Columns]]
    /\ alone \in [Procs -> BOOLEAN]

(* A database of an older version, with some of the columns, or a new one. *)
StartupInit ==
    /\ kept \in SUBSET HostRows
    /\ \E columns \in SUBSET Columns, macOnly \in BOOLEAN :
          disk = [columns |-> columns, macOnly |-> macOnly, rows |-> kept,
                  spare |-> FALSE, seeded |-> FALSE]
    /\ writer = Nobody /\ draft = {}
    /\ init = [p \in Procs |-> [pc |-> "off", todo |-> {}]]
    /\ alone = [p \in Procs |-> TRUE]

Goto(p, phase) == init' = [init EXCEPT ![p].pc = phase]
Within(p)      == init[p].pc \in Phases \ {"off", "up", "failed"}

(* SCHEMA creates what is missing as a whole; then PRAGMA table_info.      *)
Connect(p) ==
    /\ init[p].pc \in {"off", "up", "failed"}
    /\ init' = [init EXCEPT ![p] =
                  [pc |-> "columns", todo |-> (Columns \ disk.columns) \ {"subnet_id"}]]
    /\ LET others == {q \in Procs \ {p} : Within(q)}
       IN  alone' = [q \in Procs |-> IF q = p THEN others = {}
                                              ELSE alone[q] /\ q \notin others]
    /\ UNCHANGED <<disk, writer, draft, kept>>

(* ALTER TABLE fails when another process has added the column meanwhile.  *)
Alter(p, column, next) ==
    /\ writer = Nobody
    /\ IF column \in disk.columns
         THEN Goto(p, "failed") /\ UNCHANGED disk
         ELSE next /\ disk' = [disk EXCEPT !.columns = @ \cup {column}]
    /\ UNCHANGED <<writer, draft, kept, alone>>

(* Mutant: the columns that are there are added too.                       *)
AddColumnAnyway(p) ==
    /\ init[p].pc = "columns"
    /\ \E column \in Columns \ {"subnet_id"} :
          Alter(p, column, init' = [init EXCEPT ![p].todo = @ \ {column}])

AddColumn(p) ==
    /\ init[p].pc = "columns"
    /\ \E column \in init[p].todo :
          Alter(p, column, init' = [init EXCEPT ![p].todo = @ \ {column}])

(* table_info is read again for this column, and then altered.             *)
ReadSubnetId(p) ==
    /\ init[p].pc = "columns" /\ init[p].todo = {}
    /\ Goto(p, IF "subnet_id" \in disk.columns THEN "identity" ELSE "subnet_id")
    /\ UNCHANGED <<disk, writer, draft, kept, alone>>

AddSubnetId(p) == init[p].pc = "subnet_id" /\ Alter(p, "subnet_id", Goto(p, "identity"))

(* _migrate_host_identity: PRAGMA index_list tells the old constraint, ... *)
ReadIndexes(p) ==
    /\ init[p].pc = "identity"
    /\ Goto(p, IF disk.macOnly THEN "spare" ELSE "seed")
    /\ UNCHANGED <<disk, writer, draft, kept, alone>>

(* ... then CREATE TABLE hosts_new, which fails when an earlier start has  *)
(* left the table behind.                                                  *)
CreateSpare(p) ==
    /\ init[p].pc = "spare" /\ writer = Nobody
    /\ disk' = [disk EXCEPT !.spare = TRUE]
    /\ Goto(p, IF disk.spare THEN "failed" ELSE "copy")
    /\ UNCHANGED <<writer, draft, kept, alone>>

(* Mutant: the old table is dropped by itself, before the copy commits.    *)
CopyOutsideTransaction(p) ==
    /\ init[p].pc = "copy" /\ writer = Nobody
    /\ writer' = p /\ draft' = disk.rows
    /\ disk' = [disk EXCEPT !.rows = {}]
    /\ Goto(p, "seed") /\ UNCHANGED <<kept, alone>>

(* INSERT ... SELECT, which takes the lock before it reads, DROP, RENAME:  *)
(* nothing of it is committed yet.                                         *)
Copy(p) ==
    /\ init[p].pc = "copy" /\ writer = Nobody
    /\ writer' = p /\ draft' = disk.rows
    /\ Goto(p, "seed") /\ UNCHANGED <<disk, kept, alone>>

(* Default settings, and the commit.  hosts_new is hosts from here on.     *)
Commit(p) ==
    /\ init[p].pc = "seed" /\ writer \in {p, Nobody}
    /\ disk' = IF writer = p
                 THEN [columns |-> Carried, macOnly |-> FALSE, rows |-> draft,
                       spare |-> FALSE, seeded |-> TRUE]
                 ELSE [disk EXCEPT !.seeded = TRUE]
    /\ writer' = Nobody /\ draft' = {}
    /\ Goto(p, "up") /\ UNCHANGED <<kept, alone>>

Die(p) ==
    /\ Within(p)
    /\ IF writer = p THEN writer' = Nobody /\ draft' = {} ELSE UNCHANGED <<writer, draft>>
    /\ Goto(p, "off") /\ UNCHANGED <<disk, kept, alone>>

(* An operator adds a host, which names every column, or removes one.      *)
OperatorAdds(p) ==
    /\ init[p].pc = "up" /\ writer = Nobody /\ disk.columns = Columns
    /\ \E row \in HostRows \ disk.rows :
          disk' = [disk EXCEPT !.rows = @ \cup {row}] /\ kept' = kept \cup {row}
    /\ UNCHANGED <<writer, draft, init, alone>>

OperatorRemoves(p) ==
    /\ init[p].pc = "up" /\ writer = Nobody
    /\ \E row \in disk.rows :
          disk' = [disk EXCEPT !.rows = @ \ {row}] /\ kept' = kept \ {row}
    /\ UNCHANGED <<writer, draft, init, alone>>

StartupNext == \E p \in Procs :
    \/ Connect(p) \/ AddColumn(p) \/ ReadSubnetId(p) \/ AddSubnetId(p)
    \/ ReadIndexes(p) \/ CreateSpare(p) \/ Copy(p) \/ Commit(p) \/ Die(p)
    \/ OperatorAdds(p) \/ OperatorRemoves(p)

-----------------------------------------------------------------------------
(* Wherever upgrades are cut off, and whatever hosts are added and removed *)
(* while another process upgrades: none is lost, and none comes back.      *)
RowsKept == disk.rows = kept

(* A start fails only beside another one, or because of a hosts_new that   *)
(* an upgrade cut off has left: a later start never trips over the columns *)
(* an earlier one has added.                                               *)
StartFailsForAReason ==
    \A p \in Procs : init[p].pc = "failed" => disk.spare \/ ~alone[p]

(* "New databases get the column via the SCHEMA above; this ALTER handles  *)
(* existing ones": after a start the columns are there.                    *)
UpIsUpgraded ==
    \A p \in Procs : init[p].pc = "up" /\ alone[p] => disk.columns = Columns
=============================================================================
