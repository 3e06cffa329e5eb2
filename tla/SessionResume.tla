---------------------------- MODULE SessionResume ----------------------------
(***************************************************************************)
(* What afl-fuzz keeps on disk, and the in-place resume (-i -) of a        *)
(* session that was killed (DAFL/afl-fuzz.c): the files of queue/, which   *)
(* a find creates and trimming replaces; the marks of the entries whose    *)
(* deterministic stages are done; and the move of queue/ to _resume/, from *)
(* where the next process imports it.  The process may die between any two *)
(* system calls.                                                           *)
(*                                                                         *)
(* A file name is the number after "id:"; an entry of the queue is the     *)
(* test case it holds, and a trimmed case is the same case.  The model     *)
(* starts when the first process has imported its seeds.                   *)
(***************************************************************************)
EXTENDS Integers, Sequences

CONSTANTS
  Cases,       \* test cases the fuzzer can come across
  NumSeeds,    \* bound: how many of them it starts with
  MaxCases,    \* bound: entries of the queue
  MaxCrashes,  \* bound: how often the process is killed
  SeedSeq,     \* the seeds
  SkipDet,     \* skip_deterministic (-d or -S)
  EMPTY,       \* content of a file that was created but not written
  NONE         \* there is no such file

ASSUME ConstantsAssumption ==
  /\ NumSeeds \in Nat \ {0} /\ MaxCases \in Nat /\ MaxCrashes \in Nat
  /\ SeedSeq \in [1 .. NumSeeds -> Cases]
  /\ \A i, j \in 1 .. NumSeeds : SeedSeq[i] = SeedSeq[j] => i = j
  /\ EMPTY \notin Cases /\ NONE \notin Cases /\ EMPTY # NONE /\ NONE \notin Nat
  /\ NumSeeds <= MaxCases
  /\ SkipDet \in BOOLEAN

Ids == 0 .. MaxCases - 1

VARIABLES
  pc,          \* where the process is
  queue_dir,   \* <out_dir>/queue
  resume_dir,  \* <out_dir>/_resume
  queue,       \* the queue in memory: its element number id + 1 is the case
               \* of file number id
  passed_det,  \* cases whose passed_det flag is set
  trim_done,   \* cases whose trim_done flag is set
  id,          \* the file that is being read, linked or written
  crashes,     \* number of times the process was killed
  found,       \* history: the id under which a case was saved first
  det_done,    \* history: cases that went through the deterministic stages
  lost         \* history: cases that the death of the process cost us

memVars  == <<queue, passed_det, trim_done, id>>
histVars == <<found, det_done, lost>>
vars == <<pc, queue_dir, resume_dir, memVars, crashes, histVars>>

Elements(s) == {s[i] : i \in 1 .. Len(s)}

\* A directory: whether it and its .state subdirectory exist, the marks in
\* .state/deterministic_done, and the files.
NoDir    == [exists |-> FALSE, state |-> FALSE, det |-> {}, file |-> [i \in Ids |-> NONE]]
Files(d) == {i \in Ids : d.file[i] # NONE}
CasesIn(d) == {d.file[i] : i \in Files(d)} \ {EMPTY}

Saved == {c \in Cases : found[c] # NONE}

Init ==
  /\ pc = "run"
  /\ queue = SeedSeq
  /\ queue_dir = [exists |-> TRUE, state |-> TRUE, det |-> {},
                  file |-> [i \in Ids |-> IF i < NumSeeds THEN SeedSeq[i + 1] ELSE NONE]]
  /\ resume_dir = NoDir
  /\ passed_det = {} /\ trim_done = {}
  /\ id = 0
  /\ crashes = 0
  /\ found \in [Cases -> Ids \cup {NONE}]
  /\ \A c \in Cases : \/ \E i \in 1 .. NumSeeds : c = SeedSeq[i] /\ found[c] = i - 1
                      \/ c \notin Elements(SeedSeq) /\ found[c] = NONE
  /\ det_done = {}
  /\ lost = {}

-----------------------------------------------------------------------------
(* Fuzzing.                                                                *)

\* The new case is in the queue before its file exists.
save_if_interesting ==
  /\ pc = "run"
  /\ Len(queue) < MaxCases
  /\ \E c \in Cases \ (Saved \cup Elements(queue)) : queue' = Append(queue, c)
  /\ id' = Len(queue)
  /\ pc' = "create"
  /\ UNCHANGED <<queue_dir, resume_dir, passed_det, trim_done, crashes, histVars>>

\* The file of a trimmed case is unlinked and created again.  (A trim that
\* changes nothing does not touch the file.)
trim_case ==
  /\ pc = "run"
  /\ \E i \in 1 .. Len(queue) :
        /\ queue[i] \notin trim_done
        /\ trim_done' = trim_done \cup {queue[i]}
        /\ id' = i - 1
        /\ queue_dir' = [queue_dir EXCEPT !.file[i - 1] = NONE]
  /\ pc' = "create"
  /\ UNCHANGED <<resume_dir, queue, passed_det, crashes, histVars>>

\* open(), for a new case or a trimmed one; an existing file is an error.
create_file ==
  /\ pc = "create"
  /\ IF queue_dir.file[id] = NONE
     THEN queue_dir' = [queue_dir EXCEPT !.file[id] = EMPTY] /\ pc' = "write"
     ELSE pc' = "fatal" /\ UNCHANGED queue_dir
  /\ UNCHANGED <<resume_dir, memVars, crashes, histVars>>

write_file ==
  /\ pc = "write"
  /\ queue_dir' = [queue_dir EXCEPT !.file[id] = queue[id + 1]]
  /\ found' = [found EXCEPT ![queue[id + 1]] = IF @ = NONE THEN id ELSE @]
  /\ pc' = "run"
  /\ id' = 0
  /\ UNCHANGED <<resume_dir, queue, passed_det, trim_done, crashes, det_done, lost>>

mark_as_det_done ==
  /\ pc = "run"
  /\ ~SkipDet
  /\ \E i \in 1 .. Len(queue) :
        /\ queue[i] \notin passed_det
        /\ passed_det' = passed_det \cup {queue[i]}
        /\ det_done' = det_done \cup {queue[i]}
        /\ queue_dir' = [queue_dir EXCEPT !.det = @ \cup {i - 1}]
  /\ UNCHANGED <<pc, resume_dir, queue, trim_done, id, crashes, found, lost>>

\* Most executions find nothing.
find_nothing == pc = "run" /\ UNCHANGED vars

-----------------------------------------------------------------------------
(* The end of the process.                                                 *)

\* Cases whose only copy is the one in memory.
Unwritten == {queue[i] : i \in {j \in 1 .. Len(queue) : queue_dir.file[j - 1] # queue[j]}}

\* Cases that the rest of _resume/ does not hold any more.
HalfDeleted ==
  IF Files(resume_dir) # {} THEN CasesIn(queue_dir) \ CasesIn(resume_dir) ELSE {}

\* SIGKILL, the OOM killer or the end of the machine.
crash ==
  /\ pc \notin {"down", "fatal"}
  /\ crashes < MaxCrashes
  /\ crashes' = crashes + 1
  /\ pc' = "down"
  /\ queue' = <<>> /\ passed_det' = {} /\ trim_done' = {} /\ id' = 0
  /\ lost' = lost \cup (CASE pc \in {"create", "write"} -> Unwritten \cap Saved
                          [] pc = "nuke_cases" -> HalfDeleted
                          [] OTHER -> {})
  /\ UNCHANGED <<queue_dir, resume_dir, found, det_done>>

-----------------------------------------------------------------------------
(* The next process resumes the session.                                   *)

\* Mutant: the queue replaces a _resume/ that an earlier process left behind.
rename_queue_replaces ==
  /\ pc = "down"
  /\ IF queue_dir.exists
     THEN resume_dir' = queue_dir /\ queue_dir' = NoDir
     ELSE UNCHANGED <<queue_dir, resume_dir>>
  /\ pc' = "clean_state"
  /\ UNCHANGED <<memVars, crashes, histVars>>

\* rename(2) fails if the target exists and is not empty; maybe_delete_out_dir()
\* carries on regardless.
rename_queue ==
  /\ pc = "down"
  /\ IF queue_dir.exists /\ ~resume_dir.state /\ Files(resume_dir) = {}
     THEN resume_dir' = queue_dir /\ queue_dir' = NoDir
     ELSE UNCHANGED <<queue_dir, resume_dir>>
  /\ pc' = "clean_state"
  /\ UNCHANGED <<memVars, crashes, histVars>>

\* One step of removing the .state subdirectory of d, in any order.
RemoveState(d) ==
  IF d.det # {} THEN {[d EXCEPT !.det = @ \ {i}] : i \in d.det}
                ELSE {[d EXCEPT !.state = FALSE]}

\* One step of removing the files of d, in the order of readdir(), and d itself.
RemoveFiles(d) ==
  IF Files(d) # {} THEN {[d EXCEPT !.file[i] = NONE] : i \in Files(d)} ELSE {NoDir}

\* What rename() could not move is deleted.
clean_state ==
  /\ pc = "clean_state"
  /\ queue_dir' \in RemoveState(queue_dir)
  /\ pc' = IF queue_dir'.state THEN pc ELSE "clean_queue"
  /\ UNCHANGED <<resume_dir, memVars, crashes, histVars>>

\* Mutant: the directory itself is not removed.
clean_queue_keeps_dir ==
  /\ pc = "clean_queue"
  /\ IF Files(queue_dir) # {}
     THEN queue_dir' \in RemoveFiles(queue_dir) /\ pc' = pc
     ELSE pc' = "mkdir" /\ UNCHANGED queue_dir
  /\ UNCHANGED <<resume_dir, memVars, crashes, histVars>>

clean_queue ==
  /\ pc = "clean_queue"
  /\ queue_dir' \in RemoveFiles(queue_dir)
  /\ pc' = IF queue_dir'.exists THEN pc ELSE "mkdir"
  /\ UNCHANGED <<resume_dir, memVars, crashes, histVars>>

\* mkdir() of queue/ and then of queue/.state/ and its subdirectories.
setup_dirs ==
  /\ pc \in {"mkdir", "mkdir_state"}
  /\ IF pc = "mkdir" /\ queue_dir.exists
     THEN pc' = "fatal" /\ UNCHANGED queue_dir
     ELSE /\ queue_dir' = [queue_dir EXCEPT !.exists = TRUE, !.state = (pc = "mkdir_state")]
          /\ pc' = IF pc = "mkdir" THEN "mkdir_state" ELSE "read"
  /\ UNCHANGED <<resume_dir, memVars, crashes, histVars>>

\* Mutant: the mark is looked up under the number that the case will get.
read_testcase_new_id ==
  /\ pc = "read"
  /\ id \in Ids
  /\ id' = id + 1
  /\ IF resume_dir.file[id] \in Cases
     THEN /\ queue' = Append(queue, resume_dir.file[id])
          /\ passed_det' = IF Len(queue) \in resume_dir.det
                           THEN passed_det \cup {resume_dir.file[id]} ELSE passed_det
     ELSE UNCHANGED <<queue, passed_det>>
  /\ UNCHANGED <<pc, queue_dir, resume_dir, trim_done, crashes, histVars>>

\* Mutant: the files come in the order of the directory.
read_testcase_unsorted ==
  /\ pc = "read"
  /\ id \in Ids
  /\ id' = id + 1
  /\ \/ \E i \in Files(resume_dir) :
           /\ resume_dir.file[i] \in Cases \ Elements(queue)
           /\ queue' = Append(queue, resume_dir.file[i])
           /\ passed_det' = IF i \in resume_dir.det
                            THEN passed_det \cup {resume_dir.file[i]} ELSE passed_det
     \/ CasesIn(resume_dir) \subseteq Elements(queue) /\ UNCHANGED <<queue, passed_det>>
  /\ UNCHANGED <<pc, queue_dir, resume_dir, trim_done, crashes, histVars>>

\* read_testcases(), in alphabetical order; empty files are skipped.
read_testcase ==
  /\ pc = "read"
  /\ id \in Ids
  /\ id' = id + 1
  /\ IF resume_dir.file[id] \in Cases
     THEN /\ queue' = Append(queue, resume_dir.file[id])
          /\ passed_det' = IF id \in resume_dir.det
                           THEN passed_det \cup {resume_dir.file[id]} ELSE passed_det
     ELSE UNCHANGED <<queue, passed_det>>
  /\ UNCHANGED <<pc, queue_dir, resume_dir, trim_done, crashes, histVars>>

end_read ==
  /\ pc = "read"
  /\ id \notin Ids
  /\ id' = 0
  /\ pc' = IF queue = <<>> THEN "fatal" ELSE "pivot"
  /\ UNCHANGED <<queue_dir, resume_dir, queue, passed_det, trim_done, crashes, histVars>>

\* pivot_inputs() links the next case under the next number, whatever number it
\* had, and carries its mark over.
pivot_input ==
  /\ pc = "pivot"
  /\ id < Len(queue)
  /\ LET c == queue[id + 1]
     IN queue_dir' = [queue_dir EXCEPT !.file[id] = c,
                                       !.det = IF c \in passed_det THEN @ \cup {id} ELSE @]
  /\ id' = id + 1
  /\ UNCHANGED <<pc, resume_dir, queue, passed_det, trim_done, crashes, histVars>>

end_pivot ==
  /\ pc = "pivot"
  /\ id = Len(queue)
  /\ id' = 0
  /\ pc' = "nuke_state"
  /\ UNCHANGED <<queue_dir, resume_dir, queue, passed_det, trim_done, crashes, histVars>>

\* nuke_resume_dir().
nuke_state ==
  /\ pc = "nuke_state"
  /\ resume_dir' \in RemoveState(resume_dir)
  /\ pc' = IF resume_dir'.state THEN pc ELSE "nuke_cases"
  /\ UNCHANGED <<queue_dir, memVars, crashes, histVars>>

nuke_cases ==
  /\ pc = "nuke_cases"
  /\ resume_dir' \in RemoveFiles(resume_dir)
  /\ pc' = IF resume_dir'.exists THEN pc ELSE "run"
  /\ UNCHANGED <<queue_dir, memVars, crashes, histVars>>

\* The user tries again after an error.
retry ==
  /\ pc = "fatal"
  /\ pc' = "down"
  /\ queue' = <<>> /\ passed_det' = {} /\ trim_done' = {} /\ id' = 0
  /\ UNCHANGED <<queue_dir, resume_dir, crashes, histVars>>

Resume ==
  \/ rename_queue \/ clean_state \/ clean_queue \/ setup_dirs
  \/ read_testcase \/ end_read \/ pivot_input \/ end_pivot
  \/ nuke_state \/ nuke_cases \/ retry

Next ==
  \/ save_if_interesting \/ trim_case \/ create_file \/ write_file \/ mark_as_det_done
  \/ find_nothing \/ crash \/ Resume

Spec == Init /\ [][Next]_vars

\* The process keeps running until it is killed, and is then started again.
FairSpec == Spec /\ WF_vars(Resume)

-----------------------------------------------------------------------------
(* Properties.                                                             *)

Running == {"run", "create", "write"}

Dirs == [exists : BOOLEAN, state : BOOLEAN, det : SUBSET Ids,
         file : [Ids -> Cases \cup {EMPTY, NONE}]]

\* Every variable has its type.
TypeOK ==
  /\ pc \in Running \cup {"down", "clean_state", "clean_queue", "mkdir", "mkdir_state",
                          "read", "pivot", "nuke_state", "nuke_cases", "fatal"}
  /\ queue_dir \in Dirs /\ resume_dir \in Dirs
  /\ queue \in Seq(Cases) /\ Len(queue) <= MaxCases
  /\ passed_det \subseteq Cases /\ trim_done \subseteq Cases
  /\ id \in 0 .. MaxCases
  /\ crashes \in 0 .. MaxCrashes
  /\ found \in [Cases -> Ids \cup {NONE}]
  /\ det_done \subseteq Cases
  /\ lost \subseteq Cases

\* Wherever the process was killed, and however often, a resumed session has
\* every case that was saved, except those it was just trimming and those that
\* were no longer in a _resume/ it had begun to delete.
CasesSurvive == pc = "run" => Saved \ lost \subseteq Elements(queue)

\* Cases keep their number across resumes, which is what other instances go by
\* when they look for new cases, as long as none is lost.
NumbersKept ==
  (pc = "run" /\ lost = {}) =>
    \A i \in 1 .. Len(queue) : found[queue[i]] = i - 1

\* The deterministic stages of a case are only skipped if they were done, even
\* if the cases are renumbered.
DetDoneSound == passed_det \subseteq det_done

\* "If _resume/ already exists, the current queue/ may be incomplete [...], so
\* we want to use the old _resume/ dir instead": the files deleted from queue/
\* are in _resume/.
OnlyCopyKept ==
  pc \in {"clean_state", "clean_queue"} => CasesIn(queue_dir) \subseteq CasesIn(resume_dir)

\* A killed session is resumed once it is not killed again: unless cases were
\* lost, no directory left behind by an earlier process is in the way for ever,
\* and there is something to resume with.
ResumeCompletes == pc = "down" ~> (pc = "run" \/ lost # {})

=============================================================================
