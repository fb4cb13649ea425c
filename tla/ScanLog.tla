------------------------------ MODULE ScanLog -------------------------------
(***************************************************************************)
(* The debug logs of app/services/diag_log.py: one file per scan or        *)
(* validation, capped in size, and a rotation that keeps the newest few    *)
(* when a log is closed.  A line is only its length.  These are the        *)
(* effects on the log of the steps of Diagnostics, which runs the scans.   *)
(***************************************************************************)
EXTENDS Naturals, Sequences, FiniteSets, SequencesExt

CONSTANTS
    Jobs,         \* scans and validations, each with a log of its own
    Keep,         \* UPSTREAM_HEALER_DEBUG_KEEP
    MaxBytes,     \* UPSTREAM_HEALER_DEBUG_MAX_BYTES
    LineSizes     \* lengths of one emitted line

ASSUME ScanLogAssumption ==
    /\ Keep \in Nat \ {0}
    /\ MaxBytes \in Nat
    /\ LineSizes \subseteq Nat \ {0}

VARIABLES
    bytes,     \* ScanLog._bytes of each log
    open,      \* jobs whose log is open
    files      \* the files of the directory, oldest write first

logVars == <<bytes, open, files>>

LogTypeOK ==
    /\ bytes \in [Jobs -> 0..MaxBytes]
    /\ open \subseteq Jobs
    /\ files \in Seq(Jobs)
    /\ \A i, j \in DOMAIN files : files[i] = files[j] => i = j

LogInit ==
    /\ bytes = [j \in Jobs |-> 0]
    /\ open = {}
    /\ files = <<>>

(* The file is the one written last, if it has not been rotated away: an   *)
(* unlinked file still takes writes.                                       *)
Touched(job) ==
    IF job \in ToSet(files)
      THEN Append(RemoveAt(files, CHOOSE i \in DOMAIN files : files[i] = job), job)
      ELSE files

(* Mutant: the cap is compared before the line is added.                   *)
WrittenPastCap(job, size) ==
    IF bytes[job] > MaxBytes THEN MaxBytes ELSE bytes[job] + size

(* _write: a line that does not fit is replaced by a note, and from then   *)
(* on nothing fits.                                                        *)
Written(job, size) ==
    IF bytes[job] + size > MaxBytes THEN MaxBytes ELSE bytes[job] + size

(* scan_context: a new file, with its header.                              *)
OpenLog(job) ==
    /\ open' = open \cup {job}
    /\ files' = Append(files, job)
    /\ \E size \in LineSizes : bytes' = [bytes EXCEPT ![job] = Written(job, size)]

Emit(job) ==
    /\ files' = Touched(job)
    /\ \E size \in LineSizes : bytes' = [bytes EXCEPT ![job] = Written(job, size)]
    /\ UNCHANGED open

(* Mutant: only a log that could not be opened rotates the others.         *)
UnrotatedLogs(kept) == kept

(* _rotate: oldest first, until no more than Keep are left.                *)
Rotated(kept) ==
    IF Len(kept) > Keep THEN SubSeq(kept, Len(kept) - Keep + 1, Len(kept))
                        ELSE kept

(* close, with its summary line.                                           *)
CloseLog(job) ==
    /\ open' = open \ {job}
    /\ files' = Rotated(Touched(job))
    /\ \E size \in LineSizes : bytes' = [bytes EXCEPT ![job] = Written(job, size)]

-----------------------------------------------------------------------------
(* The directory does not grow: whatever number of jobs has come and gone, *)
(* the files beyond Keep belong to jobs that still run, and the detail in  *)
(* a file stays within its cap.                                            *)
LogsBounded ==
    /\ Len(files) <= Keep + Cardinality(open)
    /\ \A j \in Jobs : bytes[j] <= MaxBytes
=============================================================================
