----------------------------- MODULE FuzzerSync -----------------------------
(***************************************************************************)
(* Two instances of afl-fuzz that share a sync directory: the one that     *)
(* module SessionResume describes, and one that imports its cases with     *)
(* sync_fuzzers() (DAFL/afl-fuzz.c).  The importer keeps the number of the *)
(* next case to look at in a file, .synced/<name>.  It takes no lock: it   *)
(* reads the directory of the other while that one adds, trims or renames  *)
(* files, dies or resumes.                                                 *)
(*                                                                         *)
(* readdir() returns every name that is there all the time exactly once; a *)
(* name that comes or goes during the scan may be returned or not.         *)
(***************************************************************************)
EXTENDS SessionResume

CONSTANT MaxStops   \* bound: how often the importer is stopped during a scan

ASSUME MaxStopsAssumption == MaxStops \in Nat

VARIABLES
  spc,              \* where the importer is
  dirp,             \* the directory its DIR * stands for now
  names,            \* numbers of the files that opendir() found
  steady,           \* those of them that are there ever since
  returned,         \* what readdir() returned in this scan
  min_accept, next_min_accept, syncing_case,
  synced,           \* content of .synced/<name>
  stops,            \* number of times the importer was stopped
  imported,         \* history: cases that the importer has executed
  quiet,            \* history: the scan has not overlapped a change so far
  excused           \* history: numbers that a scan which was not quiet passed

scanVars == <<dirp, names, steady, returned, min_accept, next_min_accept, syncing_case>>
impVars  == <<spc, scanVars, synced, stops, imported, quiet, excused>>
syncVars == <<vars, impVars>>

SyncInit ==
  /\ Init
  /\ spc = "idle"
  /\ dirp = "none"
  /\ names = {} /\ steady = {} /\ returned = {}
  /\ min_accept = 0 /\ next_min_accept = 0 /\ syncing_case = 0
  /\ synced = 0
  /\ stops = 0
  /\ imported = {}
  /\ quiet = TRUE
  /\ excused = {}

-----------------------------------------------------------------------------
(* The importer.                                                           *)

\* opendir(); an instance without a queue/ is skipped.
open_queue ==
  /\ spc = "idle"
  /\ queue_dir.exists
  /\ dirp' = "queue"
  /\ names' = Files(queue_dir) /\ steady' = Files(queue_dir) /\ returned' = {}
  /\ min_accept' = synced /\ next_min_accept' = synced
  /\ quiet' = (pc = "run")
  /\ spc' = "readdir"
  /\ UNCHANGED <<vars, syncing_case, synced, stops, imported, excused>>

Scanned == CASE dirp = "queue"  -> Files(queue_dir)
             [] dirp = "resume" -> Files(resume_dir)
             [] OTHER           -> {}

\* Mutant: the counter is set to the case itself, not to the one after it.
next_case_off_by_one ==
  /\ spc = "readdir"
  /\ \E i \in (names \cup Scanned) \ returned :
        /\ returned' = returned \cup {i}
        /\ steady' = steady \ {i}
        /\ IF i < min_accept
           THEN UNCHANGED <<next_min_accept, syncing_case, spc>>
           ELSE /\ next_min_accept' = IF i >= next_min_accept THEN i ELSE next_min_accept
                /\ syncing_case' = i
                /\ spc' = "open"
  /\ UNCHANGED <<vars, dirp, names, min_accept, synced, stops, imported, quiet, excused>>

\* The counter moves on before it is known whether the case can be read.
next_case ==
  /\ spc = "readdir"
  /\ \E i \in (names \cup Scanned) \ returned :
        /\ returned' = returned \cup {i}
        /\ steady' = steady \ {i}
        /\ IF i < min_accept
           THEN UNCHANGED <<next_min_accept, syncing_case, spc>>
           ELSE /\ next_min_accept' = IF i >= next_min_accept THEN i + 1 ELSE next_min_accept
                /\ syncing_case' = i
                /\ spc' = "open"
  /\ UNCHANGED <<vars, dirp, names, min_accept, synced, stops, imported, quiet, excused>>

\* The name is looked up again in what is queue/ by now; a file that is not
\* there or is empty is skipped, any other is executed.
import_case ==
  /\ spc = "open"
  /\ imported' = imported \cup ({queue_dir.file[syncing_case]} \ {NONE, EMPTY})
  /\ syncing_case' = 0
  /\ spc' = "readdir"
  /\ UNCHANGED <<vars, dirp, names, steady, returned, min_accept, next_min_accept,
                 synced, stops, quiet, excused>>

\* Numbers that this scan passes without a case of that number being executed.
Passed == {i \in min_accept .. next_min_accept - 1 : \A c \in imported : found[c] # i}

EndOfScan ==
  /\ spc' = "idle"
  /\ dirp' = "none"
  /\ names' = {} /\ steady' = {} /\ returned' = {}
  /\ min_accept' = 0 /\ next_min_accept' = 0 /\ syncing_case' = 0
  /\ quiet' = TRUE

\* The counter is written when readdir() has returned all there is.
end_scan ==
  /\ spc = "readdir"
  /\ steady = {}
  /\ synced' = next_min_accept
  /\ excused' = IF quiet THEN excused ELSE excused \cup Passed
  /\ EndOfScan
  /\ UNCHANGED <<vars, stops, imported>>

\* Mutant: the counter is written when the scan is stopped.
stop_scan_writes ==
  /\ spc # "idle"
  /\ stops < MaxStops
  /\ stops' = stops + 1
  /\ synced' = next_min_accept
  /\ EndOfScan
  /\ UNCHANGED <<vars, imported, excused>>

\* The importer is stopped or killed in the course of a scan, and resumed later:
\* .synced/ is kept.
stop_scan ==
  /\ spc # "idle"
  /\ stops < MaxStops
  /\ stops' = stops + 1
  /\ EndOfScan
  /\ UNCHANGED <<vars, synced, imported, excused>>

Importer == open_queue \/ next_case \/ import_case \/ end_scan

-----------------------------------------------------------------------------
(* The other instance goes on in the meantime.                             *)

Renamed == pc = "down" /\ queue_dir.exists /\ ~queue_dir'.exists

\* Its rename() takes the open directory along, its rmdir() ends it.
other_instance ==
  /\ Next
  /\ dirp' = IF dirp = "queue" /\ Renamed THEN "resume"
             ELSE IF \/ dirp = "queue" /\ ~queue_dir'.exists
                     \/ dirp = "resume" /\ (Renamed \/ ~resume_dir'.exists) THEN "gone"
             ELSE dirp
  /\ steady' = steady \cap Scanned'
  /\ quiet' = (quiet /\ (spc # "idle" => pc' = pc))
  /\ UNCHANGED <<spc, names, returned, min_accept, next_min_accept, syncing_case,
                 synced, stops, imported, excused>>

SyncNext == Importer \/ stop_scan \/ other_instance

SyncSpec == SyncInit /\ [][SyncNext]_syncVars

-----------------------------------------------------------------------------
(* Properties.                                                             *)

\* A case that the counter has passed was executed by the importer, unless the
\* other instance was changing its files, or resuming, during the very scan that
\* passed its number: stopped scans and earlier or later changes do no harm.
PassedMeansExecuted ==
  lost = {} =>
    \A c \in Saved : found[c] < synced => c \in imported \/ found[c] \in excused

\* The importer executes no case a second time, although the other instance may
\* be resumed under it, unless its own scan was cut short.
ExecutedOnce ==
  [][(spc = "open" /\ spc' = "readdir" /\ queue_dir.file[syncing_case] \in imported) =>
       stops > 0 \/ lost # {}]_syncVars

\* "Each instance will also periodically rescan the top-level sync directory for
\* any test cases found by other fuzzers": a case that the counter has passed is
\* never looked at again, so it must have been executed.
NothingMissed ==
  (pc = "run" /\ lost = {}) =>
    \A c \in Saved : found[c] < synced => c \in imported

=============================================================================
