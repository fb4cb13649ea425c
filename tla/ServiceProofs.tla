--------------------------- MODULE ServiceProofs ----------------------------
(***************************************************************************)
(* Proofs about two parts of Service: the start of the application, with   *)
(* the hosts added and removed around it, and the quiet time of a host.    *)
(* First the lemma all proofs about Service rest on: whatever the service  *)
(* does is, for each part, a step of that part or none.                    *)
(***************************************************************************)
EXTENDS Service, TLAPS

LEMMA StepOfParts ==
    [ServiceNext]_serviceVars =>
        /\ [StartupNext]_startupVars
        /\ [AdminNext]_adminVars
        /\ [QuietNext]_quietVars
        /\ [SubnetsNext]_subnetVars
        /\ [ChannelsNext]_channelVars
BY DEF ServiceNext, serviceVars

-----------------------------------------------------------------------------
(* Startup.                                                                *)

LEMMA StartupInitType == StartupInit => StartupTypeOK
BY DEF StartupInit, StartupTypeOK, Phases

LEMMA StartupStepType == StartupTypeOK /\ [StartupNext]_startupVars => StartupTypeOK'
<1> SUFFICES ASSUME StartupTypeOK, [StartupNext]_startupVars PROVE StartupTypeOK'
    OBVIOUS
<1> USE StartupAssumption DEF StartupTypeOK, Phases, Goto, Within
<1>1. ASSUME NEW p \in Procs, Connect(p) PROVE StartupTypeOK'
    BY <1>1 DEF Connect
<1>2. ASSUME NEW p \in Procs, AddColumn(p) PROVE StartupTypeOK'
    BY <1>2 DEF AddColumn, Alter
<1>3. ASSUME NEW p \in Procs, ReadSubnetId(p) PROVE StartupTypeOK'
    BY <1>3 DEF ReadSubnetId
<1>4. ASSUME NEW p \in Procs, AddSubnetId(p) PROVE StartupTypeOK'
    BY <1>4 DEF AddSubnetId, Alter
<1>5. ASSUME NEW p \in Procs, ReadIndexes(p) \/ CreateSpare(p) PROVE StartupTypeOK'
    <2>1. CASE ReadIndexes(p)
        BY <2>1 DEF ReadIndexes
    <2>2. CASE CreateSpare(p)
        <3> DEFINE next == IF disk.spare THEN "failed" ELSE "copy"
        <3>1. next \in {"failed", "copy"}
            OBVIOUS
        <3>2. /\ disk' = [disk EXCEPT !.spare = TRUE]
              /\ init' = [init EXCEPT ![p].pc = next]
              /\ UNCHANGED <<writer, draft, kept, alone>>
            BY <2>2 DEF CreateSpare
        <3> HIDE DEF next
        <3>3. init' \in [Procs -> [pc: Phases, todo: SUBSET Columns]]
            BY <3>1, <3>2
        <3>4. disk' \in [columns: SUBSET Columns, macOnly: BOOLEAN,
                         rows: SUBSET HostRows, spare: BOOLEAN, seeded: BOOLEAN]
            BY <3>2
        <3> QED
            BY <3>2, <3>3, <3>4
    <2> QED
        BY <1>5, <2>1, <2>2
<1>6. ASSUME NEW p \in Procs, Copy(p) PROVE StartupTypeOK'
    BY <1>6 DEF Copy
<1>7. ASSUME NEW p \in Procs, Commit(p) PROVE StartupTypeOK'
    BY <1>7 DEF Commit
<1>8. ASSUME NEW p \in Procs, Die(p) PROVE StartupTypeOK'
    BY <1>8 DEF Die
<1>9. ASSUME NEW p \in Procs, OperatorAdds(p) \/ OperatorRemoves(p) PROVE StartupTypeOK'
    BY <1>9 DEF OperatorAdds, OperatorRemoves
<1>10. CASE UNCHANGED startupVars
    BY <1>10 DEF startupVars
<1> QED
    BY <1>1, <1>2, <1>3, <1>4, <1>5, <1>6, <1>7, <1>8, <1>9, <1>10 DEF StartupNext

(* Nobody adds or removes a host while the copy is under way: the rows it  *)
(* has read are those of the table it is about to replace.                 *)
DraftIsCurrent == writer # Nobody => draft = disk.rows

(* A process that is alone in init_db still finds missing what it has read *)
(* as missing.  The others are not in init_db then, so that nobody else    *)
(* adds a column.                                                          *)
AloneIsAlone ==
    \A p \in Procs : alone[p] /\ Within(p) =>
        /\ \A q \in Procs \ {p} : ~Within(q)
        /\ init[p].pc = "columns" => init[p].todo \cap disk.columns = {}
        /\ init[p].pc = "subnet_id" => "subnet_id" \notin disk.columns

(* Where a start has failed alone, hosts_new is there and stays: whoever   *)
(* comes later fails on it as well, before it begins the copy that would   *)
(* take the table away.                                                    *)
SpareStays ==
    \A p \in Procs : alone[p] /\ init[p].pc = "failed" =>
        /\ disk.spare
        /\ writer = Nobody
        /\ \A q \in Procs : init[q].pc # "copy"

StartupInv == StartupTypeOK /\ RowsKept /\ DraftIsCurrent /\ AloneIsAlone /\ SpareStays

LEMMA StartupInvInit == StartupInit => StartupInv
<1> SUFFICES ASSUME StartupInit PROVE StartupInv
    OBVIOUS
<1>1. StartupTypeOK
    BY StartupInitType
<1>2. RowsKept /\ DraftIsCurrent
    BY DEF StartupInit, RowsKept, DraftIsCurrent
<1>3. \A p \in Procs : init[p].pc = "off"
    BY DEF StartupInit
<1> QED
    BY <1>1, <1>2, <1>3 DEF StartupInv, AloneIsAlone, SpareStays, Within

LEMMA StartupInvStep == StartupInv /\ [StartupNext]_startupVars => StartupInv'
<1> SUFFICES ASSUME StartupInv, [StartupNext]_startupVars PROVE StartupInv'
    OBVIOUS
<1>0. StartupTypeOK /\ StartupTypeOK'
    BY StartupStepType DEF StartupInv
<1> USE <1>0 DEF StartupInv
<1>1. RowsKept' /\ DraftIsCurrent'
    <2> USE StartupAssumption DEF RowsKept, DraftIsCurrent, StartupTypeOK
    <2>1. ASSUME NEW p \in Procs, AddColumn(p) \/ AddSubnetId(p)
          PROVE  RowsKept' /\ DraftIsCurrent'
        BY <2>1 DEF AddColumn, AddSubnetId, Alter
    <2>2. ASSUME NEW p \in Procs, CreateSpare(p) PROVE RowsKept' /\ DraftIsCurrent'
        BY <2>2 DEF CreateSpare
    <2>3. ASSUME NEW p \in Procs, Copy(p) PROVE RowsKept' /\ DraftIsCurrent'
        BY <2>3 DEF Copy
    <2>4. ASSUME NEW p \in Procs, Commit(p) PROVE RowsKept' /\ DraftIsCurrent'
        BY <2>4 DEF Commit
    <2>5. ASSUME NEW p \in Procs, Die(p) PROVE RowsKept' /\ DraftIsCurrent'
        BY <2>5 DEF Die
    <2>6. ASSUME NEW p \in Procs, OperatorAdds(p) PROVE RowsKept' /\ DraftIsCurrent'
        BY <2>6 DEF OperatorAdds
    <2>7. ASSUME NEW p \in Procs, OperatorRemoves(p) PROVE RowsKept' /\ DraftIsCurrent'
        BY <2>7 DEF OperatorRemoves
    <2>8. ASSUME NEW p \in Procs, Connect(p) \/ ReadSubnetId(p) \/ ReadIndexes(p)
          PROVE  RowsKept' /\ DraftIsCurrent'
        BY <2>8 DEF Connect, ReadSubnetId, ReadIndexes
    <2> QED
        BY <2>1, <2>2, <2>3, <2>4, <2>5, <2>6, <2>7, <2>8 DEF StartupNext, startupVars
<1>2. AloneIsAlone'
    <2> USE DEF AloneIsAlone, StartupTypeOK, Within, Phases, Goto
    <2>1. ASSUME NEW p \in Procs, Connect(p) PROVE AloneIsAlone'
        BY <2>1 DEF Connect
    <2>2. ASSUME NEW p \in Procs, AddColumn(p) PROVE AloneIsAlone'
        BY <2>2 DEF AddColumn, Alter
    <2>3. ASSUME NEW p \in Procs, ReadSubnetId(p) PROVE AloneIsAlone'
        BY <2>3 DEF ReadSubnetId
    <2>4. ASSUME NEW p \in Procs, AddSubnetId(p) PROVE AloneIsAlone'
        BY <2>4 DEF AddSubnetId, Alter
    <2>5. ASSUME NEW p \in Procs, ReadIndexes(p) \/ CreateSpare(p) PROVE AloneIsAlone'
        BY <2>5 DEF ReadIndexes, CreateSpare
    <2>6. ASSUME NEW p \in Procs, Copy(p) PROVE AloneIsAlone'
        BY <2>6 DEF Copy
    <2>7. ASSUME NEW p \in Procs, Commit(p) PROVE AloneIsAlone'
        BY <2>7 DEF Commit
    <2>8. ASSUME NEW p \in Procs, Die(p) PROVE AloneIsAlone'
        BY <2>8 DEF Die
    <2>9. ASSUME NEW p \in Procs, OperatorAdds(p) \/ OperatorRemoves(p) PROVE AloneIsAlone'
        BY <2>9 DEF OperatorAdds, OperatorRemoves
    <2>10. CASE UNCHANGED startupVars
        BY <2>10 DEF startupVars
    <2> QED
        BY <2>1, <2>2, <2>3, <2>4, <2>5, <2>6, <2>7, <2>8, <2>9, <2>10
        DEF StartupNext
<1>3. SpareStays'
    <2> USE StartupAssumption DEF SpareStays, StartupTypeOK, Within, Phases, Goto
    <2>1. ASSUME NEW p \in Procs, Connect(p) PROVE SpareStays'
        BY <2>1 DEF Connect
    <2>2. ASSUME NEW p \in Procs, AddColumn(p) PROVE SpareStays'
        <3>1. PICK column \in init[p].todo :
                Alter(p, column, init' = [init EXCEPT ![p].todo = @ \ {column}])
            BY <2>2 DEF AddColumn
        <3>2. alone[p] => column \notin disk.columns
            BY <2>2, <3>1 DEF AddColumn, AloneIsAlone
        <3> QED
            BY <2>2, <3>1, <3>2 DEF AddColumn, Alter
    <2>3. ASSUME NEW p \in Procs, ReadSubnetId(p) PROVE SpareStays'
        BY <2>3 DEF ReadSubnetId
    <2>4. ASSUME NEW p \in Procs, AddSubnetId(p) PROVE SpareStays'
        BY <2>4 DEF AddSubnetId, Alter, AloneIsAlone
    <2>5. ASSUME NEW p \in Procs, ReadIndexes(p) \/ CreateSpare(p) PROVE SpareStays'
        <3>1. CASE ReadIndexes(p)
            BY <3>1 DEF ReadIndexes
        <3>2. CASE CreateSpare(p)
            <4>1. /\ disk' = [disk EXCEPT !.spare = TRUE] /\ writer = Nobody
                  /\ init' = [init EXCEPT ![p].pc = IF disk.spare THEN "failed" ELSE "copy"]
                  /\ writer' = writer /\ alone' = alone
                BY <3>2 DEF CreateSpare, Goto
            <4>2. /\ disk'.spare /\ init'[p].pc = IF disk.spare THEN "failed" ELSE "copy"
                  /\ \A q \in Procs \ {p} : init'[q] = init[q]
                BY <4>1
            <4>3. CASE disk.spare
                <5>1. alone[p] => \A q \in Procs \ {p} : init[q].pc # "copy"
                    BY <3>2 DEF CreateSpare, AloneIsAlone
                <5> QED
                    BY <4>1, <4>2, <4>3, <5>1
            <4>4. CASE ~disk.spare
                <5>1. \A q \in Procs : alone[q] => init[q].pc # "failed"
                    BY <4>4
                <5>2. \A q \in Procs : alone[q] => init'[q].pc # "failed"
                    BY <4>2, <4>4, <5>1
                <5> QED
                    BY <4>1, <5>2
            <4> QED
                BY <4>3, <4>4
        <3> QED
            BY <2>5, <3>1, <3>2
    <2>6. ASSUME NEW p \in Procs, Copy(p) PROVE SpareStays'
        BY <2>6 DEF Copy
    <2>7. ASSUME NEW p \in Procs, Commit(p) PROVE SpareStays'
        BY <2>7 DEF Commit
    <2>8. ASSUME NEW p \in Procs, Die(p) PROVE SpareStays'
        BY <2>8 DEF Die
    <2>9. ASSUME NEW p \in Procs, OperatorAdds(p) \/ OperatorRemoves(p) PROVE SpareStays'
        BY <2>9 DEF OperatorAdds, OperatorRemoves
    <2>10. CASE UNCHANGED startupVars
        BY <2>10 DEF startupVars
    <2> QED
        BY <2>1, <2>2, <2>3, <2>4, <2>5, <2>6, <2>7, <2>8, <2>9, <2>10
        DEF StartupNext
<1> QED
    BY <1>1, <1>2, <1>3

LEMMA StartupInvHolds == ServiceSpec => []StartupInv
<1>1. ServiceInit => StartupInv
    BY StartupInvInit DEF ServiceInit
<1>2. StartupInv /\ [ServiceNext]_serviceVars => StartupInv'
    BY StartupInvStep, StepOfParts
<1> QED
    BY <1>1, <1>2, PTL DEF ServiceSpec

(* Upgrades in any number of processes, cut off at any statement, with     *)
(* hosts added and removed by those that are up: none of the hosts is lost,*)
(* and no removed one comes back.                                          *)
THEOREM RowsKeptHolds == ServiceSpec => []RowsKept
<1>1. StartupInv => RowsKept
    BY DEF StartupInv
<1> QED
    BY <1>1, StartupInvHolds, PTL

(* A start that nobody came between fails for one reason: the hosts_new an *)
(* upgrade cut off has left.                                               *)
THEOREM StartFailsForAReasonHolds == ServiceSpec => []StartFailsForAReason
<1>1. StartupInv => StartFailsForAReason
    BY DEF StartupInv, StartFailsForAReason, SpareStays, StartupTypeOK
<1> QED
    BY <1>1, StartupInvHolds, PTL

-----------------------------------------------------------------------------
(* Quiet time.                                                             *)

LEMMA OffIsAMark == Off \in Marks /\ ~Off.active
<1>1. [active |-> FALSE, mode |-> "none"] \in Marks
    BY DEF Marks
<1> QED
    BY <1>1 DEF Off

LEMMA WindowFields ==
    ASSUME NEW w \in Windows
    PROVE  /\ w.start \in Hour /\ w.end \in Hour
           /\ w.mode \in {"suppress", "delete"}
<1>1. CASE w = Never
    BY <1>1, QuietAssumption DEF Never, Hour
<1>2. CASE w \in [enabled: {TRUE}, start: Hour, end: Hour, mode: {"suppress", "delete"}]
    BY <1>2
<1> QED
    BY <1>1, <1>2 DEF Windows

LEMMA VerdictIsAMark ==
    ASSUME NEW w \in Windows, NEW hour \in Hour
    PROVE  Verdict(w, hour) \in Marks /\ (Verdict(w, hour).active <=> QuietState(w, hour))
<1>1. CASE QuietState(w, hour)
    <2>1. w.mode \in {"suppress", "delete"}
        BY WindowFields
    <2>2. [active |-> TRUE, mode |-> w.mode] \in Marks
        BY <2>1 DEF Marks
    <2> QED
        BY <1>1, <2>2 DEF Verdict
<1>2. CASE ~QuietState(w, hour)
    BY <1>2, OffIsAMark DEF Verdict
<1> QED
    BY <1>1, <1>2

LEMMA AtRestType ==
    AtRest \in [pc: {"rest", "compare", "update"}, verdict: Marks, at: Hour,
               window: Windows]
BY QuietAssumption, OffIsAMark DEF AtRest, Hour, Windows

LEMMA QuietInitType == QuietInit => QuietTypeOK
<1> SUFFICES ASSUME QuietInit PROVE QuietTypeOK
    OBVIOUS
<1>1. clock \in Hour /\ deaths \in 0..Deaths
    BY QuietAssumption DEF QuietInit, Hour
<1>2. window \in Windows
    BY DEF QuietInit, Windows
<1>3. mark \in Marks /\ announced \in Marks /\ doubt \in BOOLEAN
    BY OffIsAMark DEF QuietInit
<1> QED
    BY <1>1, <1>2, <1>3, AtRestType DEF QuietInit, QuietTypeOK

LEMMA QuietStepType == QuietTypeOK /\ [QuietNext]_quietVars => QuietTypeOK'
<1> SUFFICES ASSUME QuietTypeOK, [QuietNext]_quietVars PROVE QuietTypeOK'
    OBVIOUS
<1> USE QuietAssumption DEF QuietTypeOK
<1>1. CASE Tick
    BY <1>1 DEF Tick, Hour
<1>2. CASE EditQuietTime
    BY <1>2 DEF EditQuietTime
<1>3. CASE ReadRow
    BY AtRestType, <1>3 DEF ReadRow
<1>4. CASE Compare
    BY <1>4, VerdictIsAMark DEF Compare
<1>5. CASE UpdateMark
    BY AtRestType, <1>5 DEF UpdateMark
<1>6. CASE DieInCycle
    BY AtRestType, <1>6 DEF DieInCycle
<1>7. CASE UNCHANGED quietVars
    BY <1>7 DEF quietVars
<1> QED
    BY <1>1, <1>2, <1>3, <1>4, <1>5, <1>6, <1>7 DEF QuietNext

(* The window of QuietState in arithmetic modulo the day.                  *)
LEMMA QuietStateRoundTheClock ==
    ASSUME NEW w \in Windows, NEW hour \in Hour
    PROVE  QuietState(w, hour) <=>
             w.enabled /\ (hour - w.start) % Hours < (w.end - w.start) % Hours
<1> USE QuietAssumption DEF Hour
<1>1. w.start \in Hour /\ w.end \in Hour
    BY WindowFields
<1>2. \A a \in Hour, b \in Hour :
        (a - b) % Hours = IF a < b THEN a - b + Hours ELSE a - b
    OBVIOUS
<1>3. CASE w.start < w.end
    <2>1. (w.end - w.start) % Hours = w.end - w.start
        BY <1>1, <1>2, <1>3
    <2>2. (hour - w.start) % Hours = IF hour < w.start THEN hour - w.start + Hours
                                                       ELSE hour - w.start
        BY <1>1, <1>2
    <2>3. hour < w.end <=> hour - w.start < w.end - w.start
        BY <1>1
    <2> QED
        BY <1>1, <1>3, <2>1, <2>2, <2>3 DEF QuietState
<1>4. CASE w.start >= w.end
    <2>1. (w.end - w.start) % Hours = IF w.end = w.start THEN 0
                                      ELSE w.end - w.start + Hours
        BY <1>1, <1>2, <1>4
    <2>2. (hour - w.start) % Hours = IF hour < w.start THEN hour - w.start + Hours
                                                       ELSE hour - w.start
        BY <1>1, <1>2
    <2> QED
        BY <1>1, <1>4, <2>1, <2>2 DEF QuietState
<1> QED
    BY <1>1, <1>3, <1>4

(* When an event is recorded that the columns do not show yet, it is of    *)
(* the verdict they are about to be set to.                                *)
AnnouncedInv ==
    ~doubt => announced.active =
                IF cycle.pc = "update" THEN cycle.verdict.active ELSE mark.active

QuietInv == QuietTypeOK /\ QuietAsDeclared /\ AnnouncedInv

LEMMA QuietInvStep == QuietInv /\ [QuietNext]_quietVars => QuietInv'
<1> SUFFICES ASSUME QuietInv, [QuietNext]_quietVars PROVE QuietInv'
    OBVIOUS
<1>0. QuietTypeOK /\ QuietTypeOK'
    BY QuietStepType DEF QuietInv
<1> USE <1>0 DEF QuietInv, QuietAsDeclared, AnnouncedInv, QuietTypeOK
<1>1. CASE Compare
    <2>1. cycle.window \in Windows /\ clock \in Hour
        OBVIOUS
    <2> DEFINE v == Verdict(cycle.window, clock)
    <2>2. v \in Marks /\ (v.active <=> QuietState(cycle.window, clock))
        BY <2>1, VerdictIsAMark
    <2>3. /\ cycle'.pc = "update" /\ cycle'.verdict = v
          /\ cycle'.at = clock /\ cycle'.window = cycle.window
        BY <1>1 DEF Compare
    <2>4. QuietAsDeclared'
        BY <2>1, <2>2, <2>3, QuietStateRoundTheClock
    <2>5. CASE Announces(v)
        BY <1>1, <2>3, <2>4, <2>5 DEF Compare
    <2>6. CASE ~Announces(v)
        <3>1. v.active = mark.active
            BY <2>2, <2>6 DEF Announces, Marks
        <3> QED
            BY <1>1, <2>3, <2>4, <2>6, <3>1 DEF Compare
    <2> QED
        BY <2>5, <2>6
<1>2. CASE DieInCycle
    <2>1. cycle'.pc = "rest"
        BY <1>2 DEF DieInCycle, AtRest
    <2>2. CASE cycle.pc = "update" /\ ~Announces(cycle.verdict)
        <3>1. cycle.verdict.active = mark.active
            BY <2>2 DEF Announces, Marks
        <3> QED
            BY <1>2, <2>1, <2>2, <3>1 DEF DieInCycle
    <2> QED
        BY <1>2, <2>1, <2>2 DEF DieInCycle
<1>3. CASE Tick
    BY <1>3 DEF Tick
<1>4. CASE EditQuietTime
    BY <1>4 DEF EditQuietTime
<1>5. CASE ReadRow
    BY <1>5 DEF ReadRow, AtRest
<1>6. CASE UpdateMark
    BY <1>6 DEF UpdateMark, AtRest
<1>7. CASE UNCHANGED quietVars
    BY <1>7 DEF quietVars
<1> QED
    BY <1>1, <1>2, <1>3, <1>4, <1>5, <1>6, <1>7 DEF QuietNext

LEMMA QuietInvHolds == ServiceSpec => []QuietInv
<1>1. ServiceInit => QuietInv
    <2> SUFFICES ASSUME QuietInit PROVE QuietInv
        BY DEF ServiceInit
    <2> QED
        BY QuietInitType
        DEF QuietInit, QuietInv, QuietAsDeclared, AnnouncedInv, AtRest
<1>2. QuietInv /\ [ServiceNext]_serviceVars => QuietInv'
    BY QuietInvStep, StepOfParts
<1> QED
    BY <1>1, <1>2, PTL DEF ServiceSpec

(* Every verdict is that of the declared window, round the clock, whatever *)
(* the number of hours and wherever midnight falls.                        *)
THEOREM QuietAsDeclaredHolds == ServiceSpec => []QuietAsDeclared
<1>1. QuietInv => QuietAsDeclared
    BY DEF QuietInv
<1> QED
    BY <1>1, QuietInvHolds, PTL

(* The last quiet_time event tells whether the host is quiet by the        *)
(* columns, unless the process died between the two.                       *)
THEOREM EventsTellQuietTimeHolds == ServiceSpec => []EventsTellQuietTime
<1>1. QuietInv => EventsTellQuietTime
    BY DEF QuietInv, AnnouncedInv, EventsTellQuietTime
<1> QED
    BY <1>1, QuietInvHolds, PTL
=============================================================================
