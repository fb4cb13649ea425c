----------------------------- MODULE QuietTime ------------------------------
(***************************************************************************)
(* The quiet time of a host in _process_host and _quiet_state of           *)
(* app/services/monitor.py: a daily window, compared with the clock in     *)
(* every cycle, and the columns quiet_active and quiet_mode of host_state, *)
(* which remember what was announced.  The day has Hours hours.  A process *)
(* may die between the announcement and the update of the columns.         *)
(***************************************************************************)
EXTENDS Integers

CONSTANTS Hours, Deaths

ASSUME QuietAssumption == Hours \in Nat \ {0} /\ Deaths \in Nat

Hour    == 0..(Hours - 1)
Marks   == [active: {FALSE}, mode: {"none"}]
           \cup [active: {TRUE}, mode: {"suppress", "delete"}]
Off     == CHOOSE m \in Marks : ~m.active
Never   == [enabled |-> FALSE, start |-> 0, end |-> 0, mode |-> "suppress"]
Windows == [enabled: {TRUE}, start: Hour, end: Hour, mode: {"suppress", "delete"}]
           \cup {Never}

VARIABLES
    clock,
    window,      \* the columns of hosts; one that is not enabled is Never
    mark,        \* quiet_active and quiet_mode of host_state
    announced,   \* history: the mark of the last event that was recorded
    doubt,       \* history: that event was recorded, and mark not updated
    cycle,       \* where the monitor is, the window it read and its verdict
    deaths

quietVars == <<clock, window, mark, announced, doubt, cycle, deaths>>

AtRest  == [pc |-> "rest", verdict |-> Off, at |-> 0, window |-> Never]

QuietTypeOK ==
    /\ clock \in Hour /\ window \in Windows
    /\ mark \in Marks /\ announced \in Marks /\ doubt \in BOOLEAN
    /\ cycle \in [pc: {"rest", "compare", "update"}, verdict: Marks, at: Hour, window: Windows]
    /\ deaths \in 0..Deaths

QuietInit ==
    /\ clock = 0 /\ window = Never
    /\ mark = Off /\ announced = Off /\ doubt = FALSE
    /\ cycle = AtRest /\ deaths = 0

(* Mutant: the window across midnight is taken for its complement.         *)
QuietStateNoMidnight(w, now) ==
    /\ w.enabled
    /\ IF w.start < w.end THEN w.start <= now /\ now < w.end
                          ELSE w.end <= now /\ now < w.start

(* _quiet_state: whether the host is quiet at this time of day.            *)
QuietState(w, now) ==
    /\ w.enabled /\ w.start # w.end
    /\ IF w.start < w.end THEN w.start <= now /\ now < w.end
                          ELSE now >= w.start \/ now < w.end

Verdict(w, now) == IF QuietState(w, now) THEN [active |-> TRUE, mode |-> w.mode] ELSE Off

-----------------------------------------------------------------------------
Tick ==
    /\ clock' = (clock + 1) % Hours
    /\ UNCHANGED <<window, mark, announced, doubt, cycle, deaths>>

EditQuietTime ==
    /\ window' \in Windows
    /\ UNCHANGED <<clock, mark, announced, doubt, cycle, deaths>>

(* _check_all_hosts reads the row, before it checks the hosts in turn.     *)
(* Only the monitor writes the mark, so the one in the row stays current.  *)
ReadRow ==
    /\ cycle.pc = "rest"
    /\ cycle' = [AtRest EXCEPT !.pc = "compare", !.window = window]
    /\ UNCHANGED <<clock, window, mark, announced, doubt, deaths>>

(* The row has two columns named quiet_mode, that of hosts and that of     *)
(* host_state, and the name gives the first: the configured mode.          *)
PreviousMode == cycle.window.mode

(* A change of quiet_active, or of the mode while active, is an event.     *)
Announces(verdict) ==
    \/ verdict.active # mark.active
    \/ verdict.active /\ verdict.mode # PreviousMode

(* send_event commits the event before the columns are updated.            *)
Compare ==
    /\ cycle.pc = "compare"
    /\ LET verdict == Verdict(cycle.window, clock)
       IN  /\ cycle' = [cycle EXCEPT !.pc = "update", !.verdict = verdict, !.at = clock]
           /\ announced' = IF Announces(verdict) THEN verdict ELSE announced
           /\ doubt' = (doubt /\ ~Announces(verdict))
    /\ UNCHANGED <<clock, window, mark, deaths>>

(* Mutant: monitoring is paused before the columns are updated.            *)
UpdateMarkUnlessPaused ==
    /\ cycle.pc = "update"
    /\ mark' = IF cycle.verdict.mode = "delete" THEN mark ELSE cycle.verdict
    /\ cycle' = AtRest
    /\ UNCHANGED <<clock, window, announced, doubt, deaths>>

UpdateMark ==
    /\ cycle.pc = "update"
    /\ mark' = cycle.verdict
    /\ cycle' = AtRest
    /\ UNCHANGED <<clock, window, announced, doubt, deaths>>

DieInCycle ==
    /\ cycle.pc # "rest" /\ deaths < Deaths
    /\ doubt' = (doubt \/ (cycle.pc = "update" /\ Announces(cycle.verdict)))
    /\ cycle' = AtRest /\ deaths' = deaths + 1
    /\ UNCHANGED <<clock, window, mark, announced>>

QuietNext == Tick \/ EditQuietTime \/ ReadRow \/ Compare \/ UpdateMark \/ DieInCycle

-----------------------------------------------------------------------------
(* The host is quiet at the hours from start up to end, round the clock:   *)
(* the window may lie across midnight, and the one with no hours is empty. *)
QuietAsDeclared ==
    cycle.pc = "update" =>
        LET w == cycle.window
        IN  cycle.verdict.active <=>
              w.enabled /\ (cycle.at - w.start) % Hours < (w.end - w.start) % Hours

(* Whatever hours and edits go by between two cycles: the last quiet_time  *)
(* event of the host, "started" or "ended", tells whether it is quiet by   *)
(* the columns, unless the process died between the event and the columns  *)
(* and the change did not come again.  It need not tell the mode.          *)
EventsTellQuietTime == cycle.pc # "update" /\ ~doubt => mark.active = announced.active
=============================================================================
