-------------------------- MODULE FuzzerSyncProofs --------------------------
(***************************************************************************)
(* Proofs about the session directory of one instance, and about the scan  *)
(* of it by another.                                                       *)
(*                                                                         *)
(* SessionResume, for every number of cases and of crashes, wherever they  *)
(* happen: the resumed session has all cases that were not lost, under     *)
(* their numbers if none was, and it only skips deterministic stages that  *)
(* were done.                                                              *)
(*                                                                         *)
(* FuzzerSync, for every number of cases, of crashes of the other instance *)
(* and of stopped scans: what the counter of the importer has passed was   *)
(* executed, unless the scan that passed it overlapped a change, and       *)
(* nothing is executed twice unless a scan was cut short.                  *)
(***************************************************************************)
EXTENDS FuzzerSync, TLAPS

\* The process reads and deletes _resume/.
Importing ==
  {"clean_state", "clean_queue", "mkdir", "mkdir_state", "read", "pivot", "nuke_state"}

\* Everything is in queue/ again.
Linked == Running \cup {"nuke_state", "nuke_cases"}

\* rename() would replace this directory.
Vacant(d) == ~d.state /\ Files(d) = {}

\* What survives.
Kept == Saved \ lost

-----------------------------------------------------------------------------
(* Resuming: the inductive invariant, part by part.                        *)

\* What is in queue/ at a given stage, compared with the queue in memory.
FileOf(n, j) == IF j < n THEN queue[j + 1] ELSE NONE

QueueFiles ==
  /\ pc \in {"create", "write"} => id < Len(queue)
  /\ pc \in Linked => \A j \in Ids :
       queue_dir.file[j] = IF pc = "create" /\ j = id THEN NONE
                           ELSE IF pc = "write" /\ j = id THEN EMPTY
                           ELSE FileOf(Len(queue), j)
  /\ pc = "pivot" => id <= Len(queue) /\ \A j \in Ids : queue_dir.file[j] = FileOf(id, j)
  /\ pc \in {"mkdir", "mkdir_state", "read"} =>
       queue_dir.det = {} /\ \A j \in Ids : queue_dir.file[j] = NONE
  /\ pc = "mkdir" => ~queue_dir.exists
  /\ pc \in Linked \cup {"mkdir_state", "read", "pivot"} => queue_dir.exists
  /\ ~queue_dir.exists => Files(queue_dir) = {}

\* _resume/ is gone once the session runs, and the part of it that stops rename() goes
\* first.
ResumeDir ==
  /\ pc \in Running => Vacant(resume_dir)
  /\ pc = "nuke_cases" => ~resume_dir.state
  /\ ~resume_dir.exists => Files(resume_dir) = {}

\* What has been read of _resume/.
ReadSoFar ==
  /\ pc \in {"down", "clean_state", "clean_queue", "mkdir", "mkdir_state"} =>
       queue = <<>> /\ id = 0
  /\ pc = "read" =>
       /\ Len(queue) <= id
       /\ \A i \in Ids : i < id /\ resume_dir.file[i] \in Cases =>
            resume_dir.file[i] \in Elements(queue)
  /\ pc \in {"pivot", "nuke_state", "nuke_cases"} =>
       CasesIn(resume_dir) \subseteq Elements(queue)

\* Where the cases are that must not get lost.
KeptInv ==
  /\ pc \in Importing => Kept \subseteq CasesIn(resume_dir)
  /\ pc \in Linked \cup {"pivot"} => Kept \subseteq Elements(queue)
  /\ pc \in {"down", "fatal"} =>
       Kept \subseteq IF Vacant(resume_dir) THEN CasesIn(queue_dir) ELSE CasesIn(resume_dir)

\* Files hold cases that were saved; only the newest entry of the queue may not be yet.
SavedInv ==
  /\ \A i \in Ids : queue_dir.file[i] \in Cases => found[queue_dir.file[i]] # NONE
  /\ \A i \in Ids : resume_dir.file[i] \in Cases => found[resume_dir.file[i]] # NONE
  /\ \A i \in 1 .. Len(queue) :
       found[queue[i]] = NONE => pc \in {"create", "write"} /\ i = id + 1 /\ i = Len(queue)
  /\ \E c \in Cases : found[c] # NONE

\* The marks.
MarkedDone(d) == \A i \in d.det : d.file[i] \in Cases => d.file[i] \in det_done

DetInv ==
  /\ DetDoneSound
  /\ MarkedDone(queue_dir) /\ MarkedDone(resume_dir)
  /\ pc \in Linked \cup {"pivot"} =>
       \A j \in queue_dir.det : j < Len(queue) /\ queue[j + 1] \in det_done

\* The numbers, as long as nothing is lost.
Numbered(d) == \A i \in Ids : d.file[i] \in Cases => found[d.file[i]] = i
Dense(d)    == \A i, j \in Ids : i < j /\ d.file[j] \in Cases => d.file[i] \in Cases

NumberInv ==
  lost = {} =>
    /\ Numbered(queue_dir) /\ Numbered(resume_dir)
    /\ \A i \in 1 .. Len(queue) : found[queue[i]] \in {i - 1, NONE}
    /\ pc \in Importing => Dense(resume_dir)
    /\ pc \in {"down", "fatal"} =>
         IF Vacant(resume_dir) THEN Dense(queue_dir) ELSE Dense(resume_dir)
    /\ pc = "read" /\ Len(queue) < id => resume_dir.file[Len(queue)] \notin Cases

IInv ==
  /\ TypeOK /\ QueueFiles /\ ResumeDir /\ ReadSoFar /\ KeptInv /\ SavedInv /\ DetInv
  /\ NumberInv

-----------------------------------------------------------------------------
(* Directories, and the queue as a sequence.                               *)

\* The parts of a directory.
LEMMA DirParts ==
  ASSUME NEW d \in Dirs
  PROVE  /\ d.exists \in BOOLEAN /\ d.state \in BOOLEAN /\ d.det \subseteq Ids
         /\ d.file \in [Ids -> Cases \cup {EMPTY, NONE}]
         /\ \A i \in Ids : d.file[i] \in Cases \cup {EMPTY, NONE}
BY DEF Dirs

\* Creating, writing or deleting a file.
LEMMA SetFile ==
  ASSUME NEW d \in Dirs, NEW i \in Ids, NEW v \in Cases \cup {EMPTY, NONE},
         NEW e, e = [d EXCEPT !.file[i] = v]
  PROVE  /\ e \in Dirs
         /\ e.exists = d.exists /\ e.state = d.state /\ e.det = d.det
         /\ \A j \in Ids : e.file[j] = IF j = i THEN v ELSE d.file[j]
BY DEF Dirs

\* The files of a directory, and the cases in them.
LEMMA FilesAre ==
  ASSUME NEW d \in Dirs
  PROVE  /\ Files(d) = {} <=> \A j \in Ids : d.file[j] = NONE
         /\ \A c : c \in CasesIn(d) <=> c \in Cases /\ \E j \in Ids : d.file[j] = c
BY ConstantsAssumption DEF Dirs, Files, CasesIn

\* No file, no case.
LEMMA NoFiles ==
  ASSUME NEW d, Files(d) = {}
  PROVE  CasesIn(d) = {}
BY DEF CasesIn

\* A directory that is not there has nothing in it.
LEMMA NoDirFacts ==
  /\ NoDir \in Dirs
  /\ ~NoDir.exists /\ ~NoDir.state /\ NoDir.det = {}
  /\ \A j \in Ids : NoDir.file[j] = NONE
BY DEF NoDir, Dirs

\* Removing .state does not touch the files.
LEMMA RemoveStateFacts ==
  ASSUME NEW d \in Dirs, NEW e \in RemoveState(d)
  PROVE  /\ e \in Dirs
         /\ e.exists = d.exists /\ e.file = d.file
         /\ e.det \subseteq d.det
         /\ e.state => d.state
<1>1. CASE d.det # {}
  <2>1. PICK i \in d.det : e = [d EXCEPT !.det = @ \ {i}]
    BY <1>1 DEF RemoveState
  <2>2. QED
    BY <2>1 DEF Dirs
<1>2. CASE d.det = {}
  <2>1. e = [d EXCEPT !.state = FALSE]
    BY <1>2 DEF RemoveState
  <2>2. QED
    BY <2>1 DEF Dirs
<1>3. QED
  BY <1>1, <1>2

\* One file less, or no directory once there is none left.
LEMMA RemoveFilesFacts ==
  ASSUME NEW d \in Dirs, NEW e \in RemoveFiles(d)
  PROVE  /\ e \in Dirs
         /\ \A j \in Ids : e.file[j] \in {d.file[j], NONE}
         /\ e.det \subseteq d.det
         /\ e.state => d.state
         /\ \/ e = NoDir /\ Files(d) = {}
            \/ e.exists = d.exists /\ e.state = d.state /\ Files(d) # {}
<1>1. CASE Files(d) # {}
  <2>1. PICK i \in Files(d) : e = [d EXCEPT !.file[i] = NONE]
    BY <1>1 DEF RemoveFiles
  <2>2. i \in Ids
    BY DEF Files
  <2>3. QED
    BY <1>1, <2>1, <2>2, SetFile
<1>2. CASE Files(d) = {}
  <2>1. e = NoDir
    BY <1>2 DEF RemoveFiles
  <2>2. QED
    BY <1>2, <2>1, NoDirFacts, DirParts
<1>3. QED
  BY <1>1, <1>2

\* A longer queue.
LEMMA Grown ==
  ASSUME NEW s \in Seq(Cases), NEW c \in Cases
  PROVE  /\ Append(s, c) \in Seq(Cases) /\ Len(Append(s, c)) = Len(s) + 1
         /\ \A i \in 1 .. Len(s) : Append(s, c)[i] = s[i]
         /\ Append(s, c)[Len(s) + 1] = c
         /\ Elements(Append(s, c)) = Elements(s) \cup {c}
BY DEF Elements

\* The entries of the queue are cases.
LEMMA QueueParts ==
  ASSUME NEW s \in Seq(Cases)
  PROVE  /\ Len(s) \in Nat
         /\ \A i \in 1 .. Len(s) : s[i] \in Cases
         /\ \A c : c \in Elements(s) <=> \E i \in 1 .. Len(s) : c = s[i]
BY DEF Elements

-----------------------------------------------------------------------------
(* What the steps do to the directories.                                   *)

\* A new case comes to the end of the queue.
LEMMA SaveCase ==
  ASSUME TypeOK, save_if_interesting
  PROVE  /\ pc = "run" /\ pc' = "create"
         /\ id' = Len(queue) /\ id' \in Ids
         /\ queue' \in Seq(Cases) /\ Len(queue') = Len(queue) + 1
         /\ \A i \in 1 .. Len(queue) : queue'[i] = queue[i]
         /\ queue'[Len(queue) + 1] \in Cases /\ found[queue'[Len(queue) + 1]] = NONE
         /\ Elements(queue) \subseteq Elements(queue')
         /\ UNCHANGED <<queue_dir, resume_dir, passed_det, trim_done, crashes,
                        found, det_done, lost>>
<1>1. PICK c \in Cases \ (Saved \cup Elements(queue)) : queue' = Append(queue, c)
  BY DEF save_if_interesting
<1>2. queue \in Seq(Cases) /\ Len(queue) \in Ids /\ found[c] = NONE
  BY <1>1, ConstantsAssumption DEF TypeOK, save_if_interesting, Ids, Saved
<1>3. /\ queue' \in Seq(Cases) /\ Len(queue') = Len(queue) + 1
      /\ \A i \in 1 .. Len(queue) : queue'[i] = queue[i]
      /\ queue'[Len(queue) + 1] = c
      /\ Elements(queue) \subseteq Elements(queue')
  BY <1>1, <1>2, Grown
<1>4. QED
  BY <1>1, <1>2, <1>3 DEF save_if_interesting, histVars

\* Trimming deletes the file of an entry.
LEMMA TrimCase ==
  ASSUME TypeOK, trim_case
  PROVE  /\ pc = "run" /\ pc' = "create"
         /\ id' \in Ids /\ id' < Len(queue)
         /\ queue_dir' \in Dirs /\ queue_dir'.exists = queue_dir.exists
         /\ queue_dir'.det = queue_dir.det
         /\ \A j \in Ids : queue_dir'.file[j] = IF j = id' THEN NONE ELSE queue_dir.file[j]
         /\ trim_done' \subseteq Cases
         /\ UNCHANGED <<resume_dir, queue, passed_det, crashes, found, det_done, lost>>
<1>1. PICK i \in 1 .. Len(queue) :
        /\ id' = i - 1
        /\ trim_done' = trim_done \cup {queue[i]}
        /\ queue_dir' = [queue_dir EXCEPT !.file[i - 1] = NONE]
  BY DEF trim_case
<1>2. i - 1 \in Ids /\ i - 1 < Len(queue) /\ queue[i] \in Cases
  BY ConstantsAssumption DEF TypeOK, Ids
<1>3. queue_dir \in Dirs /\ NONE \in Cases \cup {EMPTY, NONE}
  BY DEF TypeOK
<1>4. /\ queue_dir' \in Dirs /\ queue_dir'.exists = queue_dir.exists
      /\ queue_dir'.det = queue_dir.det
      /\ \A j \in Ids : queue_dir'.file[j] = IF j = i - 1 THEN NONE ELSE queue_dir.file[j]
  BY <1>1, <1>2, <1>3 DEF Dirs
<1>5. QED
  BY <1>1, <1>2, <1>4 DEF TypeOK, trim_case, histVars

\* open() succeeds: there is no file of that name.
LEMMA CreateFile ==
  ASSUME TypeOK, QueueFiles, create_file
  PROVE  /\ pc = "create" /\ pc' = "write"
         /\ id \in Ids /\ id < Len(queue)
         /\ queue_dir' \in Dirs /\ queue_dir'.exists = queue_dir.exists
         /\ queue_dir'.det = queue_dir.det
         /\ \A j \in Ids : queue_dir'.file[j] = IF j = id THEN EMPTY ELSE queue_dir.file[j]
         /\ UNCHANGED <<resume_dir, queue, passed_det, trim_done, id, crashes,
                        found, det_done, lost>>
<1>1. pc = "create" /\ id \in Ids /\ id < Len(queue)
  BY ConstantsAssumption DEF TypeOK, QueueFiles, create_file, Ids
<1>2. queue_dir.file[id] = NONE
  BY <1>1 DEF QueueFiles, Linked, Running
<1>3. queue_dir \in Dirs /\ queue_dir' = [queue_dir EXCEPT !.file[id] = EMPTY]
  BY <1>2 DEF TypeOK, create_file
<1>4. /\ queue_dir' \in Dirs /\ queue_dir'.exists = queue_dir.exists
      /\ queue_dir'.det = queue_dir.det
      /\ \A j \in Ids : queue_dir'.file[j] = IF j = id THEN EMPTY ELSE queue_dir.file[j]
  BY <1>1, <1>3 DEF Dirs
<1>5. QED
  BY <1>1, <1>2, <1>4 DEF create_file, memVars, histVars

\* The case is in its file, under the name by which it is known from now on.
LEMMA WriteFile ==
  ASSUME TypeOK, QueueFiles, write_file
  PROVE  /\ pc = "write" /\ pc' = "run" /\ id' = 0
         /\ id \in Ids /\ id < Len(queue) /\ queue[id + 1] \in Cases
         /\ queue_dir' \in Dirs /\ queue_dir'.exists = queue_dir.exists
         /\ queue_dir'.det = queue_dir.det
         /\ \A j \in Ids :
              queue_dir'.file[j] = IF j = id THEN queue[id + 1] ELSE queue_dir.file[j]
         /\ found' \in [Cases -> Ids \cup {NONE}]
         /\ \A c \in Cases : found'[c] = IF c = queue[id + 1] /\ found[c] = NONE
                                         THEN id ELSE found[c]
         /\ UNCHANGED <<resume_dir, queue, passed_det, trim_done, crashes, det_done, lost>>
<1>1. pc = "write" /\ id \in Ids /\ id < Len(queue) /\ queue[id + 1] \in Cases
  BY ConstantsAssumption DEF TypeOK, QueueFiles, write_file, Ids
<1>2. /\ found' \in [Cases -> Ids \cup {NONE}]
      /\ \A c \in Cases : found'[c] = IF c = queue[id + 1] /\ found[c] = NONE
                                      THEN id ELSE found[c]
  BY <1>1 DEF TypeOK, write_file
<1>3. queue_dir \in Dirs /\ queue_dir' = [queue_dir EXCEPT !.file[id] = queue[id + 1]]
  BY DEF TypeOK, write_file
<1>4. /\ queue_dir' \in Dirs /\ queue_dir'.exists = queue_dir.exists
      /\ queue_dir'.det = queue_dir.det
      /\ \A j \in Ids :
           queue_dir'.file[j] = IF j = id THEN queue[id + 1] ELSE queue_dir.file[j]
  BY <1>1, <1>3 DEF Dirs
<1>5. QED
  BY <1>1, <1>2, <1>4 DEF write_file

\* An entry is marked in memory and in .state/deterministic_done.
LEMMA MarkDone ==
  ASSUME TypeOK, mark_as_det_done
  PROVE  /\ pc = "run" /\ pc' = "run"
         /\ queue_dir' \in Dirs /\ queue_dir'.exists = queue_dir.exists
         /\ queue_dir'.file = queue_dir.file
         /\ \E i \in 1 .. Len(queue) :
              /\ queue[i] \in Cases /\ i - 1 \in Ids
              /\ passed_det' = passed_det \cup {queue[i]}
              /\ det_done' = det_done \cup {queue[i]}
              /\ queue_dir'.det = queue_dir.det \cup {i - 1}
         /\ UNCHANGED <<resume_dir, queue, trim_done, id, crashes, found, lost>>
<1>1. PICK i \in 1 .. Len(queue) :
        /\ passed_det' = passed_det \cup {queue[i]}
        /\ det_done' = det_done \cup {queue[i]}
        /\ queue_dir' = [queue_dir EXCEPT !.det = @ \cup {i - 1}]
  BY DEF mark_as_det_done
<1>2. i - 1 \in Ids /\ queue[i] \in Cases
  BY ConstantsAssumption DEF TypeOK, Ids
<1>3. /\ queue_dir' \in Dirs /\ queue_dir'.exists = queue_dir.exists
      /\ queue_dir'.file = queue_dir.file
      /\ queue_dir'.det = queue_dir.det \cup {i - 1}
  BY <1>1, <1>2 DEF TypeOK, Dirs
<1>4. QED
  BY <1>1, <1>2, <1>3 DEF mark_as_det_done

\* A file of queue/ is deleted, or queue/ itself.
LEMMA CleanQueue ==
  ASSUME TypeOK, QueueFiles, clean_queue
  PROVE  /\ pc = "clean_queue" /\ queue_dir' \in Dirs
         /\ queue_dir'.det \subseteq queue_dir.det
         /\ \A j \in Ids : queue_dir'.file[j] \in {queue_dir.file[j], NONE}
         /\ \/ /\ pc' = "mkdir" /\ ~queue_dir'.exists /\ queue_dir'.det = {}
               /\ \A j \in Ids : queue_dir'.file[j] = NONE
            \/ pc' = "clean_queue" /\ queue_dir'.exists
         /\ UNCHANGED <<resume_dir, queue, passed_det, trim_done, id, crashes,
                        found, det_done, lost>>
<1>1. queue_dir' \in RemoveFiles(queue_dir) /\ queue_dir \in Dirs
  BY DEF clean_queue, TypeOK
<1>2. CASE queue_dir' = NoDir
  BY <1>1, <1>2, RemoveFilesFacts, NoDirFacts DEF clean_queue, memVars, histVars
<1>3. CASE queue_dir'.exists = queue_dir.exists /\ Files(queue_dir) # {}
  BY <1>1, <1>3, RemoveFilesFacts, DirParts DEF clean_queue, QueueFiles, memVars, histVars
<1>4. QED
  BY <1>1, <1>2, <1>3, RemoveFilesFacts

\* mkdir() succeeds: queue/ is gone.
LEMMA SetupDirs ==
  ASSUME TypeOK, QueueFiles, setup_dirs
  PROVE  /\ queue_dir' \in Dirs /\ queue_dir'.exists /\ queue_dir'.det = {}
         /\ \A j \in Ids : queue_dir.file[j] = NONE /\ queue_dir'.file[j] = NONE
         /\ \/ pc = "mkdir" /\ pc' = "mkdir_state"
            \/ pc = "mkdir_state" /\ pc' = "read"
         /\ UNCHANGED <<resume_dir, queue, passed_det, trim_done, id, crashes,
                        found, det_done, lost>>
<1>1. /\ pc \in {"mkdir", "mkdir_state"} /\ queue_dir.det = {}
      /\ \A j \in Ids : queue_dir.file[j] = NONE
      /\ ~(pc = "mkdir" /\ queue_dir.exists)
  BY DEF setup_dirs, QueueFiles
<1>2. queue_dir' = [queue_dir EXCEPT !.exists = TRUE, !.state = (pc = "mkdir_state")]
  BY <1>1 DEF setup_dirs
<1>3. queue_dir' \in Dirs /\ queue_dir'.exists /\ queue_dir'.file = queue_dir.file
      /\ queue_dir'.det = queue_dir.det
  BY <1>2 DEF TypeOK, Dirs
<1>4. QED
  BY <1>1, <1>3 DEF setup_dirs, memVars, histVars

\* The next case is linked, with its mark.
LEMMA PivotInput ==
  ASSUME TypeOK, pivot_input
  PROVE  /\ pc = "pivot" /\ pc' = "pivot" /\ id' = id + 1
         /\ id \in Ids /\ id < Len(queue) /\ queue[id + 1] \in Cases
         /\ queue_dir' \in Dirs /\ queue_dir'.exists = queue_dir.exists
         /\ \/ queue[id + 1] \in passed_det /\ queue_dir'.det = queue_dir.det \cup {id}
            \/ queue_dir'.det = queue_dir.det
         /\ \A j \in Ids :
              queue_dir'.file[j] = IF j = id THEN queue[id + 1] ELSE queue_dir.file[j]
         /\ UNCHANGED <<resume_dir, queue, passed_det, trim_done, crashes,
                        found, det_done, lost>>
<1>1. id \in Ids /\ id < Len(queue) /\ queue[id + 1] \in Cases
  BY ConstantsAssumption DEF TypeOK, pivot_input, Ids
<1>2. queue_dir' = [queue_dir EXCEPT !.file[id] = queue[id + 1],
                      !.det = IF queue[id + 1] \in passed_det THEN @ \cup {id} ELSE @]
  BY DEF pivot_input
<1>3. /\ queue_dir' \in Dirs /\ queue_dir'.exists = queue_dir.exists
      /\ queue_dir'.det = IF queue[id + 1] \in passed_det THEN queue_dir.det \cup {id}
                          ELSE queue_dir.det
      /\ \A j \in Ids :
           queue_dir'.file[j] = IF j = id THEN queue[id + 1] ELSE queue_dir.file[j]
  <2>1. queue_dir \in Dirs
    BY DEF TypeOK
  <2>2. QED
    BY <1>1, <1>2, <2>1 DEF Dirs
<1>4. QED
  BY <1>1, <1>3 DEF pivot_input, histVars

\* A file of _resume/ is deleted, or _resume/ itself.
LEMMA NukeCases ==
  ASSUME TypeOK, ResumeDir, nuke_cases
  PROVE  /\ pc = "nuke_cases" /\ resume_dir' \in Dirs
         /\ resume_dir'.det \subseteq resume_dir.det
         /\ \A j \in Ids : resume_dir'.file[j] \in {resume_dir.file[j], NONE}
         /\ ~resume_dir'.state
         /\ \/ /\ pc' = "run" /\ ~resume_dir'.exists
               /\ \A j \in Ids : resume_dir'.file[j] = NONE
            \/ pc' = "nuke_cases" /\ resume_dir'.exists
         /\ UNCHANGED <<queue_dir, queue, passed_det, trim_done, id, crashes,
                        found, det_done, lost>>
<1>1. resume_dir' \in RemoveFiles(resume_dir) /\ resume_dir \in Dirs
  BY DEF nuke_cases, TypeOK
<1>2. CASE resume_dir' = NoDir
  BY <1>1, <1>2, RemoveFilesFacts, NoDirFacts DEF nuke_cases, memVars, histVars
<1>3. CASE resume_dir'.exists = resume_dir.exists /\ Files(resume_dir) # {}
  BY <1>1, <1>3, RemoveFilesFacts, DirParts DEF nuke_cases, ResumeDir, memVars, histVars
<1>4. QED
  BY <1>1, <1>2, <1>3, RemoveFilesFacts

\* The next file is read, or skipped.
LEMMA ReadTestcase ==
  ASSUME TypeOK, ReadSoFar, read_testcase
  PROVE  /\ pc = "read" /\ pc' = "read" /\ id \in Ids /\ id' = id + 1
         /\ Len(queue) <= id /\ id + 1 <= MaxCases
         /\ \/ /\ resume_dir.file[id] \in Cases
               /\ queue' \in Seq(Cases) /\ Len(queue') = Len(queue) + 1
               /\ \A i \in 1 .. Len(queue) : queue'[i] = queue[i]
               /\ queue'[Len(queue) + 1] = resume_dir.file[id]
               /\ Elements(queue') = Elements(queue) \cup {resume_dir.file[id]}
               /\ \/ /\ id \in resume_dir.det
                     /\ passed_det' = passed_det \cup {resume_dir.file[id]}
                  \/ passed_det' = passed_det
            \/ resume_dir.file[id] \notin Cases /\ UNCHANGED <<queue, passed_det>>
         /\ UNCHANGED <<queue_dir, resume_dir, trim_done, crashes, found, det_done, lost>>
<1>1. id \in Ids /\ Len(queue) <= id /\ id + 1 <= MaxCases
  BY ConstantsAssumption DEF TypeOK, ReadSoFar, read_testcase, Ids
<1>2. CASE resume_dir.file[id] \in Cases
  <2>1. queue \in Seq(Cases) /\ queue' = Append(queue, resume_dir.file[id])
    BY <1>2 DEF TypeOK, read_testcase
  <2>2. /\ queue' \in Seq(Cases) /\ Len(queue') = Len(queue) + 1
        /\ \A i \in 1 .. Len(queue) : queue'[i] = queue[i]
        /\ queue'[Len(queue) + 1] = resume_dir.file[id]
        /\ Elements(queue') = Elements(queue) \cup {resume_dir.file[id]}
    BY <1>2, <2>1, Grown
  <2>3. QED
    BY <1>1, <1>2, <2>2 DEF read_testcase, histVars
<1>3. CASE resume_dir.file[id] \notin Cases
  BY <1>1, <1>3 DEF read_testcase, histVars
<1>4. QED
  BY <1>2, <1>3

\* Once the cases are linked, the files of queue/ are the cases in memory.
LEMMA LinkedCases ==
  ASSUME TypeOK, QueueFiles, pc \in {"run", "nuke_state", "nuke_cases"}
  PROVE  /\ \A i \in 1 .. Len(queue) : i - 1 \in Ids /\ queue_dir.file[i - 1] = queue[i]
         /\ CasesIn(queue_dir) = Elements(queue)
<1>1. \A i \in 1 .. Len(queue) : i - 1 \in Ids /\ queue_dir.file[i - 1] = queue[i]
  BY ConstantsAssumption DEF TypeOK, QueueFiles, FileOf, Linked, Running, Ids
<1>2. ASSUME NEW j \in Ids, queue_dir.file[j] \in Cases
      PROVE  \E i \in 1 .. Len(queue) : queue_dir.file[j] = queue[i]
  <2>1. j < Len(queue) /\ queue_dir.file[j] = queue[j + 1]
    BY <1>2, ConstantsAssumption DEF QueueFiles, FileOf, Linked, Running
  <2>2. QED
    BY <2>1 DEF Ids, TypeOK
<1>3. queue \in Seq(Cases) /\ queue_dir \in Dirs
  BY DEF TypeOK
<1>4. \A c : c \in CasesIn(queue_dir) => c \in Elements(queue)
  BY <1>2, <1>3, FilesAre, QueueParts
<1>5. \A c : c \in Elements(queue) => c \in CasesIn(queue_dir)
  BY <1>1, <1>3, FilesAre, QueueParts
<1>6. QED
  BY <1>1, <1>4, <1>5

\* The files of a queue have no holes.
LEMMA DenseFiles ==
  ASSUME TypeOK, \A j \in Ids : queue_dir.file[j] = FileOf(Len(queue), j)
  PROVE  Dense(queue_dir)
<1>1. SUFFICES ASSUME NEW i \in Ids, NEW j \in Ids, i < j, queue_dir.file[j] \in Cases
               PROVE  queue_dir.file[i] \in Cases
  BY DEF Dense
<1>2. j < Len(queue)
  BY <1>1, ConstantsAssumption DEF FileOf
<1>3. i + 1 \in 1 .. Len(queue) /\ queue_dir.file[i] = queue[i + 1]
  BY <1>1, <1>2, QueueParts DEF FileOf, Ids, TypeOK
<1>4. QED
  BY <1>3, QueueParts DEF TypeOK

-----------------------------------------------------------------------------
(* The initial state and the steps, one lemma per part of the invariant.   *)

\* The invariant holds when the first process starts to fuzz.
LEMMA InitIInv == Init => IInv
<1> SUFFICES ASSUME Init PROVE IInv
  OBVIOUS
<1> USE ConstantsAssumption DEF Init
<1>1. /\ queue_dir \in Dirs /\ queue_dir.exists /\ queue_dir.det = {}
      /\ \A j \in Ids : queue_dir.file[j] = IF j < NumSeeds THEN SeedSeq[j + 1] ELSE NONE
  <2>1. \A j \in Ids : j < NumSeeds => SeedSeq[j + 1] \in Cases
    BY DEF Ids
  <2>2. QED
    BY <2>1 DEF Dirs
<1>2. queue \in Seq(Cases) /\ Len(queue) = NumSeeds /\ Len(queue) > 0
  <2>1. SeedSeq \in Seq(Cases) /\ DOMAIN SeedSeq = 1 .. NumSeeds
    BY SMT
  <2>2. Len(SeedSeq) = NumSeeds
    BY <2>1
  <2>3. QED
    BY <2>1, <2>2
<1>3. TypeOK
  BY <1>1, <1>2, NoDirFacts DEF TypeOK, Running
<1>4. resume_dir \in Dirs /\ Vacant(resume_dir) /\ resume_dir.det = {}
      /\ \A j \in Ids : resume_dir.file[j] = NONE
  BY NoDirFacts, FilesAre DEF Vacant
<1>5. QueueFiles /\ ResumeDir /\ ReadSoFar
  <2>1. QueueFiles
    BY <1>1, <1>2 DEF QueueFiles, FileOf, Linked, Running
  <2>2. QED
    BY <1>4, <2>1 DEF ResumeDir, ReadSoFar, Vacant
<1>6. \A i \in 1 .. NumSeeds : SeedSeq[i] \in Cases /\ found[SeedSeq[i]] = i - 1
  <2>1. TAKE i \in 1 .. NumSeeds
  <2>2. SeedSeq[i] \in Cases /\ SeedSeq[i] \in Elements(SeedSeq)
    BY <1>2 DEF Elements
  <2>3. PICK k \in 1 .. NumSeeds : SeedSeq[i] = SeedSeq[k] /\ found[SeedSeq[i]] = k - 1
    BY <2>2
  <2>4. QED
    BY <2>2, <2>3
<1>7. KeptInv
  BY <1>2 DEF KeptInv, Kept, Saved, Importing, Elements
<1>8. \A j \in Ids :
        queue_dir.file[j] \in Cases => j < NumSeeds /\ found[queue_dir.file[j]] = j
  BY <1>1, <1>6 DEF Ids
<1>9. SavedInv
  BY <1>2, <1>4, <1>6, <1>8 DEF SavedInv, Ids
<1>10. DetInv
  BY <1>1, <1>4 DEF DetInv, DetDoneSound, MarkedDone
<1>11. NumberInv
  BY <1>2, <1>4, <1>6, <1>8 DEF NumberInv, Numbered, Importing
<1>12. QED
  BY <1>3, <1>5, <1>7, <1>9, <1>10, <1>11 DEF IInv

\* Only cases are lost.
LEMMA TypeAtCrash ==
  ASSUME TypeOK, QueueFiles, ResumeDir, ReadSoFar, crash
  PROVE  TypeOK'
<1>1. HalfDeleted \subseteq Cases /\ Saved \subseteq Cases
  BY FilesAre DEF HalfDeleted, Saved, TypeOK
<1>2. lost' \subseteq Cases
  BY <1>1 DEF crash, TypeOK
<1>3. crashes' \in 0 .. MaxCrashes
  BY ConstantsAssumption DEF crash, TypeOK
<1>4. QED
  BY <1>2, <1>3, ConstantsAssumption DEF crash, TypeOK

\* Every variable keeps its type.
LEMMA TypeStep ==
  ASSUME TypeOK, QueueFiles, ResumeDir, ReadSoFar, [Next]_vars
  PROVE  TypeOK'
<1> USE DEF TypeOK, memVars, histVars, vars
<1>1. CASE save_if_interesting
  BY <1>1, ConstantsAssumption, SaveCase DEF QueueFiles, Saved, Running, Linked, Ids
<1>2. CASE trim_case
  BY <1>2, ConstantsAssumption, TrimCase DEF QueueFiles, Saved, Running, Linked, Ids
<1>3. CASE create_file
  BY <1>3, ConstantsAssumption, CreateFile DEF QueueFiles, Saved, Running, Linked, Ids
<1>4. CASE write_file
  BY <1>4, ConstantsAssumption, QueueParts, WriteFile
  DEF QueueFiles, Saved, Running, Linked, Ids
<1>5. CASE mark_as_det_done
  BY <1>5, MarkDone
<1>6. CASE crash
  BY <1>6, TypeAtCrash
<1>7. CASE retry
  BY <1>7, ConstantsAssumption DEF retry
<1>8. CASE rename_queue
  BY <1>8, NoDirFacts DEF rename_queue
<1>9. CASE clean_state
  BY <1>9, RemoveStateFacts DEF clean_state
<1>10. CASE clean_queue
  BY <1>10, CleanQueue
<1>11. CASE setup_dirs
  BY <1>11, SetupDirs
<1>12. CASE read_testcase
  BY <1>12, ConstantsAssumption, ReadTestcase DEF ReadSoFar
<1>13. CASE end_read
  BY <1>13, ConstantsAssumption DEF end_read
<1>14. CASE pivot_input
  BY <1>14, ConstantsAssumption, PivotInput
<1>15. CASE end_pivot
  BY <1>15, ConstantsAssumption DEF end_pivot
<1>16. CASE nuke_state
  BY <1>16, RemoveStateFacts DEF nuke_state
<1>17. CASE nuke_cases
  BY <1>17, ConstantsAssumption, NukeCases DEF QueueFiles, Saved, Running, Linked, Ids
<1>18. CASE find_nothing \/ UNCHANGED vars
  BY <1>18 DEF find_nothing
<1>19. QED
  BY <1>1, <1>2, <1>3, <1>4, <1>5, <1>6, <1>7, <1>8, <1>9, <1>10, <1>11, <1>12, <1>13,
    <1>14, <1>15, <1>16, <1>17, <1>18 DEF Next, Resume

\* The new case has no file yet.
LEMMA QueueFilesAtSaveIfInteresting ==
  ASSUME TypeOK, QueueFiles, ResumeDir, ReadSoFar, save_if_interesting
  PROVE  QueueFiles'
<1>1. Len(queue) \in Nat /\ Len(queue) \in Ids /\ \A j \in Ids : j \in Nat
  BY SaveCase DEF TypeOK, Ids
<1>2. \A j \in Ids : queue_dir.file[j] = FileOf(Len(queue), j)
  BY SaveCase DEF QueueFiles, Linked, Running
<1>3. \A j \in Ids : j # Len(queue) => queue_dir.file[j] = FileOf(Len(queue), j)'
  BY <1>1, <1>2, SaveCase DEF FileOf
<1>4. queue_dir.file[Len(queue)] = NONE
  BY <1>1, <1>2 DEF FileOf
<1>5. QED
  BY <1>1, <1>3, <1>4, SaveCase DEF QueueFiles, Linked, Running

\* The files of queue/.
LEMMA QueueFilesStep ==
  ASSUME TypeOK, QueueFiles, ResumeDir, ReadSoFar, [Next]_vars
  PROVE  QueueFiles'
<1> USE DEF QueueFiles, Running, Linked, memVars, histVars, vars
<1>1. CASE save_if_interesting
  BY <1>1, QueueFilesAtSaveIfInteresting
<1>2. CASE trim_case
  BY <1>2, TrimCase DEF FileOf
<1>3. CASE create_file
  BY <1>3, CreateFile DEF FileOf
<1>4. CASE write_file
  BY <1>4, WriteFile DEF FileOf
<1>5. CASE mark_as_det_done
  BY <1>5, MarkDone DEF FileOf
<1>6. CASE crash
  BY <1>6 DEF crash
<1>7. CASE retry
  BY <1>7 DEF retry
<1>8. CASE rename_queue
  BY <1>8, FilesAre, NoDirFacts DEF TypeOK, rename_queue
<1>9. CASE clean_state
  BY <1>9, FilesAre, RemoveStateFacts DEF TypeOK, clean_state
<1>10. CASE clean_queue
  BY <1>10, FilesAre, CleanQueue DEF TypeOK
<1>11. CASE setup_dirs
  BY <1>11, SetupDirs
<1>12. CASE read_testcase
  BY <1>12, ReadTestcase
<1>13. CASE end_read
  BY <1>13, ConstantsAssumption DEF FileOf, TypeOK, Ids, end_read
<1>14. CASE pivot_input
  BY <1>14, ConstantsAssumption, PivotInput DEF FileOf, TypeOK, Ids
<1>15. CASE end_pivot
  BY <1>15 DEF FileOf, end_pivot
<1>16. CASE nuke_state
  BY <1>16, RemoveStateFacts DEF FileOf, nuke_state
<1>17. CASE nuke_cases
  BY <1>17, NukeCases DEF FileOf
<1>18. CASE find_nothing \/ UNCHANGED vars
  BY <1>18 DEF FileOf, find_nothing
<1>19. QED
  BY <1>1, <1>2, <1>3, <1>4, <1>5, <1>6, <1>7, <1>8, <1>9, <1>10, <1>11, <1>12, <1>13,
    <1>14, <1>15, <1>16, <1>17, <1>18 DEF Next, Resume

\* _resume/ is only replaced when it is empty, and gone when the session runs.
LEMMA ResumeDirStep ==
  ASSUME TypeOK, QueueFiles, ResumeDir, ReadSoFar, [Next]_vars
  PROVE  ResumeDir'
<1> USE DEF ResumeDir, Running, memVars, histVars, vars
<1>1. CASE save_if_interesting
  BY <1>1, SaveCase
<1>2. CASE trim_case
  BY <1>2, TrimCase
<1>3. CASE create_file
  BY <1>3, CreateFile
<1>4. CASE write_file
  BY <1>4, WriteFile
<1>5. CASE mark_as_det_done
  BY <1>5, MarkDone
<1>6. CASE crash
  BY <1>6 DEF crash
<1>7. CASE retry
  BY <1>7 DEF retry
<1>8. CASE rename_queue
  BY <1>8, NoDirFacts DEF rename_queue
<1>9. CASE clean_state
  BY <1>9, RemoveStateFacts DEF clean_state
<1>10. CASE clean_queue
  BY <1>10, CleanQueue
<1>11. CASE setup_dirs
  BY <1>11, SetupDirs
<1>12. CASE read_testcase
  BY <1>12, ReadTestcase
<1>13. CASE end_read
  BY <1>13 DEF end_read
<1>14. CASE pivot_input
  BY <1>14, PivotInput
<1>15. CASE end_pivot
  BY <1>15 DEF end_pivot
<1>16. CASE nuke_state
  BY <1>16, FilesAre, RemoveStateFacts DEF Vacant, TypeOK, QueueFiles, nuke_state
<1>17. CASE nuke_cases
  BY <1>17, FilesAre, NukeCases DEF Vacant, TypeOK, QueueFiles
<1>18. CASE find_nothing \/ UNCHANGED vars
  BY <1>18 DEF find_nothing
<1>19. QED
  BY <1>1, <1>2, <1>3, <1>4, <1>5, <1>6, <1>7, <1>8, <1>9, <1>10, <1>11, <1>12, <1>13,
    <1>14, <1>15, <1>16, <1>17, <1>18 DEF Next, Resume

\* The file that was read is in the queue.
LEMMA ReadSoFarAtReadTestcase ==
  ASSUME TypeOK, QueueFiles, ResumeDir, ReadSoFar, read_testcase
  PROVE  ReadSoFar'
<1>1. Len(queue') <= id'
  BY ReadTestcase DEF TypeOK, Ids
<1>2. ASSUME NEW i \in Ids, i < id + 1, resume_dir.file[i] \in Cases
      PROVE  resume_dir.file[i] \in Elements(queue')
  <2>1. CASE i = id
    BY <1>2, <2>1, ReadTestcase
  <2>2. CASE i < id
    BY <1>2, <2>2, ReadTestcase DEF ReadSoFar
  <2>3. QED
    BY <1>2, <2>1, <2>2 DEF Ids, TypeOK
<1>3. QED
  BY <1>1, <1>2, ReadTestcase DEF ReadSoFar

\* All files were read.
LEMMA ReadSoFarAtEndRead ==
  ASSUME TypeOK, QueueFiles, ResumeDir, ReadSoFar, end_read
  PROVE  ReadSoFar'
<1>1. pc = "read" /\ \A i \in Ids : i < id
  BY ConstantsAssumption DEF end_read, TypeOK, Ids
<1>2. CasesIn(resume_dir) \subseteq Elements(queue)
  BY <1>1, FilesAre DEF ReadSoFar, TypeOK
<1>3. QED
  BY <1>2 DEF end_read, ReadSoFar

\* Deleting files of _resume/ leaves no other cases in it.
LEMMA ReadSoFarAtNukeCases ==
  ASSUME TypeOK, QueueFiles, ResumeDir, ReadSoFar, nuke_cases
  PROVE  ReadSoFar'
<1>1. CasesIn(resume_dir') \subseteq CasesIn(resume_dir)
  BY NukeCases, FilesAre, ConstantsAssumption DEF TypeOK
<1>2. QED
  BY <1>1, NukeCases DEF ReadSoFar

\* The queue has what was read of _resume/.
LEMMA ReadSoFarStep ==
  ASSUME TypeOK, QueueFiles, ResumeDir, ReadSoFar, [Next]_vars
  PROVE  ReadSoFar'
<1> USE DEF ReadSoFar, memVars, histVars, vars
<1>1. CASE save_if_interesting
  BY <1>1, SaveCase
<1>2. CASE trim_case
  BY <1>2, TrimCase
<1>3. CASE create_file
  BY <1>3, CreateFile
<1>4. CASE write_file
  BY <1>4, WriteFile
<1>5. CASE mark_as_det_done
  BY <1>5, MarkDone
<1>6. CASE crash
  BY <1>6 DEF crash
<1>7. CASE retry
  BY <1>7 DEF retry
<1>8. CASE rename_queue
  BY <1>8, NoDirFacts DEF rename_queue
<1>9. CASE clean_state
  BY <1>9, RemoveStateFacts DEF clean_state
<1>10. CASE clean_queue
  BY <1>10, CleanQueue
<1>11. CASE setup_dirs
  BY <1>11, SetupDirs DEF TypeOK, Ids
<1>12. CASE read_testcase
  BY <1>12, ReadSoFarAtReadTestcase
<1>13. CASE end_read
  BY <1>13, ReadSoFarAtEndRead
<1>14. CASE pivot_input
  BY <1>14, PivotInput
<1>15. CASE end_pivot
  BY <1>15 DEF end_pivot
<1>16. CASE nuke_state
  BY <1>16, RemoveStateFacts DEF TypeOK, CasesIn, Files, nuke_state
<1>17. CASE nuke_cases
  BY <1>17, ReadSoFarAtNukeCases
<1>18. CASE find_nothing \/ UNCHANGED vars
  BY <1>18 DEF find_nothing
<1>19. QED
  BY <1>1, <1>2, <1>3, <1>4, <1>5, <1>6, <1>7, <1>8, <1>9, <1>10, <1>11, <1>12, <1>13,
    <1>14, <1>15, <1>16, <1>17, <1>18 DEF Next, Resume

\* What the death of the process costs.
LEMMA KeptAtCrash ==
  ASSUME TypeOK, QueueFiles, ResumeDir, ReadSoFar, KeptInv, crash
  PROVE  KeptInv'
<1> USE DEF Kept
<1>1. pc' = "down" /\ UNCHANGED <<queue_dir, resume_dir, Saved>> /\ lost \subseteq lost'
  BY DEF crash, Saved
<1>2. queue_dir \in Dirs /\ resume_dir \in Dirs
  BY DEF TypeOK
<1>3. CASE pc \in Importing
  <2>1. Kept' \subseteq CasesIn(resume_dir)
    BY <1>1, <1>3 DEF KeptInv
  <2>2. Vacant(resume_dir) => CasesIn(resume_dir) = {}
    BY NoFiles DEF Vacant
  <2>3. QED
    BY <1>1, <2>1, <2>2 DEF KeptInv, Vacant, Importing, Linked, Running
<1>4. CASE pc \in {"run", "create", "write"}
  <2>1. \A c \in Saved \ lost' :
          \E i \in 1 .. Len(queue) : c = queue[i] /\ queue_dir.file[i - 1] = c
    <3>1. TAKE c \in Saved \ lost'
    <3>2. PICK i \in 1 .. Len(queue) : c = queue[i]
      BY <1>1, <1>4, QueueParts DEF KeptInv, Linked, Running, TypeOK
    <3>3. CASE pc = "run"
      BY <3>2, <3>3, LinkedCases
    <3>4. CASE pc \in {"create", "write"}
      BY <3>2, <3>4 DEF crash, Unwritten
    <3>5. QED
      BY <1>4, <3>2, <3>3, <3>4
  <2>2. \A i \in 1 .. Len(queue) : i - 1 \in Ids
    BY ConstantsAssumption DEF TypeOK, Ids
  <2>3. Kept' \subseteq CasesIn(queue_dir) /\ Vacant(resume_dir)
    BY <1>1, <1>2, <1>4, <2>1, <2>2, FilesAre DEF ResumeDir, Running, Saved
  <2>4. QED
    BY <1>1, <2>3 DEF KeptInv, Importing, Linked, Running, Vacant
<1>5. CASE pc = "nuke_cases"
  <2>1. Kept \subseteq CasesIn(queue_dir)
    BY <1>5, LinkedCases DEF KeptInv, Linked
  <2>2. CASE Files(resume_dir) = {}
    BY <1>1, <1>5, <2>1, <2>2 DEF KeptInv, Importing, Linked, Running, Vacant, ResumeDir
  <2>3. CASE Files(resume_dir) # {}
    BY <1>1, <1>5, <2>1, <2>3
    DEF KeptInv, Importing, Linked, Running, Vacant, crash, HalfDeleted
  <2>4. QED
    BY <2>2, <2>3
<1>6. pc \notin {"down", "fatal"}
  BY DEF crash
<1>7. QED
  BY <1>3, <1>4, <1>5, <1>6 DEF TypeOK, Importing, Linked, Running

\* queue/ is only moved when _resume/ has nothing.
LEMMA KeptAtRenameQueue ==
  ASSUME TypeOK, QueueFiles, ResumeDir, ReadSoFar, KeptInv, rename_queue
  PROVE  KeptInv'
<1>1. UNCHANGED Kept /\ pc = "down" /\ pc' = "clean_state"
  BY DEF rename_queue, Kept, Saved, histVars
<1>2. Kept \subseteq CasesIn(resume_dir')
  <2>1. CASE queue_dir.exists /\ Vacant(resume_dir)
    BY <1>1, <2>1 DEF rename_queue, Vacant, KeptInv
  <2>2. CASE ~Vacant(resume_dir)
    BY <1>1, <2>2 DEF rename_queue, Vacant, KeptInv
  <2>3. CASE ~queue_dir.exists /\ Vacant(resume_dir)
    BY <1>1, <2>3, NoFiles DEF KeptInv, QueueFiles
  <2>4. QED
    BY <2>1, <2>2, <2>3
<1>3. QED
  BY <1>1, <1>2 DEF KeptInv, Importing, Linked, Running

\* Nothing is read only if nothing was kept.
LEMMA KeptAtEndRead ==
  ASSUME TypeOK, QueueFiles, ResumeDir, ReadSoFar, KeptInv, end_read
  PROVE  KeptInv'
<1>1. /\ pc = "read" /\ pc' \in {"fatal", "pivot"}
      /\ UNCHANGED <<Kept, queue, queue_dir, resume_dir>>
  BY DEF end_read, Kept, Saved, histVars
<1>2. \A i \in Ids : i < id
  BY ConstantsAssumption DEF end_read, TypeOK, Ids
<1>3. Kept \subseteq CasesIn(resume_dir) /\ CasesIn(resume_dir) \subseteq Elements(queue)
  BY <1>1, <1>2, FilesAre DEF KeptInv, Importing, ReadSoFar, TypeOK
<1>4. CASE pc' = "pivot"
  BY <1>1, <1>3, <1>4 DEF KeptInv, Importing, Linked, Running
<1>5. CASE pc' = "fatal"
  <2>1. Kept = {}
    BY <1>1, <1>3, <1>5, QueueParts DEF end_read, TypeOK
  <2>2. QED
    BY <1>1, <1>5, <2>1 DEF KeptInv, Importing, Linked, Running
<1>6. QED
  BY <1>1, <1>4, <1>5

\* Removing .state takes no case with it.
LEMMA KeptAtNukeState ==
  ASSUME TypeOK, QueueFiles, ResumeDir, ReadSoFar, KeptInv, nuke_state
  PROVE  KeptInv'
<1>1. UNCHANGED <<Kept, queue>> /\ pc = "nuke_state" /\ pc' \in {"nuke_state", "nuke_cases"}
  BY DEF nuke_state, Kept, Saved, histVars, memVars
<1>2. resume_dir' \in Dirs /\ resume_dir'.file = resume_dir.file
  BY RemoveStateFacts DEF nuke_state, TypeOK
<1>3. CasesIn(resume_dir') = CasesIn(resume_dir)
  BY <1>2 DEF CasesIn, Files
<1>4. QED
  BY <1>1, <1>3 DEF KeptInv, Importing, Linked, Running

\* No case is lost that the model does not count as lost.
LEMMA KeptStep ==
  ASSUME TypeOK, QueueFiles, ResumeDir, ReadSoFar, KeptInv, [Next]_vars
  PROVE  KeptInv'
<1> USE DEF KeptInv, Kept, Saved, Importing, Running, Linked, memVars, histVars, vars
<1>1. CASE save_if_interesting
  BY <1>1, SaveCase
<1>2. CASE trim_case
  BY <1>2, TrimCase
<1>3. CASE create_file
  BY <1>3, CreateFile
<1>4. CASE write_file
  BY <1>4, QueueParts, WriteFile DEF TypeOK
<1>5. CASE mark_as_det_done
  BY <1>5, MarkDone
<1>6. CASE crash
  BY <1>6, KeptAtCrash
<1>7. CASE retry
  BY <1>7 DEF retry
<1>8. CASE rename_queue
  BY <1>8, KeptAtRenameQueue
<1>9. CASE clean_state
  BY <1>9, RemoveStateFacts DEF clean_state
<1>10. CASE clean_queue
  BY <1>10, CleanQueue
<1>11. CASE setup_dirs
  BY <1>11, SetupDirs
<1>12. CASE read_testcase
  BY <1>12, ReadTestcase
<1>13. CASE end_read
  BY <1>13, KeptAtEndRead
<1>14. CASE pivot_input
  BY <1>14, PivotInput
<1>15. CASE end_pivot
  BY <1>15 DEF end_pivot
<1>16. CASE nuke_state
  BY <1>16, KeptAtNukeState
<1>17. CASE nuke_cases
  BY <1>17, NukeCases
<1>18. CASE find_nothing \/ UNCHANGED vars
  BY <1>18 DEF find_nothing
<1>19. QED
  BY <1>1, <1>2, <1>3, <1>4, <1>5, <1>6, <1>7, <1>8, <1>9, <1>10, <1>11, <1>12, <1>13,
    <1>14, <1>15, <1>16, <1>17, <1>18 DEF Next, Resume

\* Trimming deletes a file of a case that is in memory.
LEMMA SavedAtTrimCase ==
  ASSUME TypeOK, QueueFiles, ResumeDir, ReadSoFar, SavedInv, trim_case
  PROVE  SavedInv'
<1> USE TrimCase DEF SavedInv
<1>1. \A i \in Ids : queue_dir'.file[i] \in Cases => found[queue_dir'.file[i]] # NONE
  BY ConstantsAssumption
<1>2. \A i \in 1 .. Len(queue) : found[queue[i]] # NONE
  OBVIOUS
<1>3. QED
  BY <1>1, <1>2

\* Deleting files.
LEMMA SavedAtCleanQueue ==
  ASSUME TypeOK, QueueFiles, ResumeDir, ReadSoFar, SavedInv, clean_queue
  PROVE  SavedInv'
<1>1. \A i \in Ids : queue_dir'.file[i] \in Cases => found[queue_dir'.file[i]] # NONE
  BY CleanQueue, ConstantsAssumption DEF SavedInv
<1>2. \A i \in 1 .. Len(queue) : found[queue[i]] # NONE
  BY CleanQueue DEF SavedInv
<1>3. QED
  BY <1>1, <1>2, CleanQueue DEF SavedInv

\* Deleting files.
LEMMA SavedAtNukeCases ==
  ASSUME TypeOK, QueueFiles, ResumeDir, ReadSoFar, SavedInv, nuke_cases
  PROVE  SavedInv'
<1>1. \A i \in Ids : resume_dir'.file[i] \in Cases => found[resume_dir'.file[i]] # NONE
  BY NukeCases, ConstantsAssumption DEF SavedInv
<1>2. \A i \in 1 .. Len(queue) : found[queue[i]] # NONE
  BY NukeCases DEF SavedInv
<1>3. QED
  BY <1>1, <1>2, NukeCases DEF SavedInv

\* A case that is read was saved.
LEMMA SavedAtReadTestcase ==
  ASSUME TypeOK, QueueFiles, ResumeDir, ReadSoFar, SavedInv, read_testcase
  PROVE  SavedInv'
<1>1. \A i \in 1 .. Len(queue) : found[queue[i]] # NONE
  BY ReadTestcase DEF SavedInv
<1>2. Len(queue) \in Nat /\ id \in Ids
  BY ReadTestcase, QueueParts DEF TypeOK
<1>3. \A i \in 1 .. Len(queue') : found[queue'[i]] # NONE
  <2>1. CASE resume_dir.file[id] \in Cases
    <3>1. TAKE i \in 1 .. Len(queue')
    <3>2. i \in 1 .. Len(queue) \/ i = Len(queue) + 1
      BY <1>2, <2>1, ReadTestcase
    <3>3. QED
      BY <1>1, <1>2, <2>1, <3>2, ReadTestcase DEF SavedInv
  <2>2. CASE resume_dir.file[id] \notin Cases
    BY <1>1, <2>2, ReadTestcase
  <2>3. QED
    BY <2>1, <2>2
<1>4. QED
  BY <1>3, ReadTestcase DEF SavedInv

\* A case that is linked was saved.
LEMMA SavedAtPivotInput ==
  ASSUME TypeOK, QueueFiles, ResumeDir, ReadSoFar, SavedInv, pivot_input
  PROVE  SavedInv'
<1>1. \A i \in 1 .. Len(queue) : found[queue[i]] # NONE
  BY PivotInput DEF SavedInv
<1>2. id + 1 \in 1 .. Len(queue)
  BY PivotInput DEF Ids, TypeOK
<1>3. \A i \in Ids : queue_dir'.file[i] \in Cases => found[queue_dir'.file[i]] # NONE
  BY <1>1, <1>2, PivotInput DEF SavedInv
<1>4. QED
  BY <1>1, <1>3, PivotInput DEF SavedInv

\* The case that is written is saved with it.
LEMMA SavedAtWriteFile ==
  ASSUME TypeOK, QueueFiles, ResumeDir, ReadSoFar, SavedInv, write_file
  PROVE  SavedInv'
<1>1. id \in Nat /\ NONE \notin Nat
  BY WriteFile, ConstantsAssumption DEF Ids
<1>2. \A c \in Cases : found[c] # NONE \/ c = queue[id + 1] => found'[c] # NONE
  BY <1>1, WriteFile
<1>3. \A i \in 1 .. Len(queue) :
        queue[i] \in Cases /\ (found[queue[i]] = NONE => i = id + 1)
  BY WriteFile, QueueParts DEF SavedInv, TypeOK
<1>4. \A i \in Ids : queue_dir'.file[i] \in Cases => found'[queue_dir'.file[i]] # NONE
  BY <1>2, WriteFile DEF SavedInv
<1>5. \A i \in Ids : resume_dir'.file[i] \in Cases => found'[resume_dir'.file[i]] # NONE
  BY <1>2, WriteFile DEF SavedInv
<1>6. \A i \in 1 .. Len(queue') : found'[queue'[i]] # NONE
  BY <1>2, <1>3, WriteFile
<1>7. \E c \in Cases : found'[c] # NONE
  BY <1>2, WriteFile
<1>8. QED
  BY <1>4, <1>5, <1>6, <1>7, WriteFile DEF SavedInv

\* Marks are not files.
LEMMA SavedAtMarkAsDetDone ==
  ASSUME TypeOK, QueueFiles, ResumeDir, ReadSoFar, SavedInv, mark_as_det_done
  PROVE  SavedInv'
BY MarkDone DEF SavedInv

\* Marks are not files.
LEMMA SavedAtNukeState ==
  ASSUME TypeOK, QueueFiles, ResumeDir, ReadSoFar, SavedInv, nuke_state
  PROVE  SavedInv'
<1>1. resume_dir'.file = resume_dir.file
  BY RemoveStateFacts DEF nuke_state, TypeOK
<1>2. QED
  BY <1>1 DEF SavedInv, nuke_state, memVars, histVars

\* Only the new case has not been saved.
LEMMA SavedAtSaveIfInteresting ==
  ASSUME TypeOK, QueueFiles, ResumeDir, ReadSoFar, SavedInv, save_if_interesting
  PROVE  SavedInv'
<1>1. \A i \in 1 .. Len(queue) : found[queue'[i]] # NONE
  BY SaveCase DEF SavedInv
<1>2. Len(queue) \in Nat
  BY DEF TypeOK
<1>3. \A i \in 1 .. Len(queue') : i \in 1 .. Len(queue) \/ i = Len(queue')
  BY <1>2, SaveCase
<1>4. QED
  BY <1>1, <1>3, SaveCase DEF SavedInv

\* Files hold cases that were saved.
LEMMA SavedStep ==
  ASSUME TypeOK, QueueFiles, ResumeDir, ReadSoFar, SavedInv, [Next]_vars
  PROVE  SavedInv'
<1> USE DEF SavedInv, memVars, histVars, vars
<1>1. CASE save_if_interesting
  BY <1>1, SavedAtSaveIfInteresting
<1>2. CASE trim_case
  BY <1>2, SavedAtTrimCase
<1>3. CASE create_file
  BY <1>3, ConstantsAssumption, DirParts, QueueParts, CreateFile
  DEF TypeOK, QueueFiles, FileOf, Saved, Running, Linked, Ids
<1>4. CASE write_file
  BY <1>4, SavedAtWriteFile
<1>5. CASE mark_as_det_done
  BY <1>5, SavedAtMarkAsDetDone
<1>6. CASE crash
  BY <1>6 DEF crash
<1>7. CASE retry
  BY <1>7 DEF retry
<1>8. CASE rename_queue
  BY <1>8, ConstantsAssumption, DirParts, QueueParts, NoDirFacts
  DEF TypeOK, QueueFiles, FileOf, Saved, Running, Linked, Ids, rename_queue
<1>9. CASE clean_state
  BY <1>9, ConstantsAssumption, DirParts, QueueParts, RemoveStateFacts
  DEF TypeOK, QueueFiles, FileOf, Saved, Running, Linked, Ids, clean_state
<1>10. CASE clean_queue
  BY <1>10, SavedAtCleanQueue
<1>11. CASE setup_dirs
  BY <1>11, SetupDirs
<1>12. CASE read_testcase
  BY <1>12, SavedAtReadTestcase
<1>13. CASE end_read
  BY <1>13 DEF end_read
<1>14. CASE pivot_input
  BY <1>14, SavedAtPivotInput
<1>15. CASE end_pivot
  BY <1>15 DEF end_pivot
<1>16. CASE nuke_state
  BY <1>16, SavedAtNukeState
<1>17. CASE nuke_cases
  BY <1>17, SavedAtNukeCases
<1>18. CASE find_nothing \/ UNCHANGED vars
  BY <1>18 DEF find_nothing
<1>19. QED
  BY <1>1, <1>2, <1>3, <1>4, <1>5, <1>6, <1>7, <1>8, <1>9, <1>10, <1>11, <1>12, <1>13,
    <1>14, <1>15, <1>16, <1>17, <1>18 DEF Next, Resume

\* The mark of the file that is written is the one of its case.
LEMMA DetAtWriteFile ==
  ASSUME TypeOK, QueueFiles, ResumeDir, ReadSoFar, DetInv, write_file
  PROVE  DetInv'
<1>1. pc \in Linked /\ pc' \in Linked
  BY WriteFile DEF Linked, Running
<1>2. MarkedDone(queue_dir')
  BY <1>1, WriteFile, DirParts DEF DetInv, MarkedDone, TypeOK
<1>3. QED
  BY <1>1, <1>2, WriteFile DEF DetInv, DetDoneSound, MarkedDone

\* The entry that is marked is done.
LEMMA DetAtMarkAsDetDone ==
  ASSUME TypeOK, QueueFiles, ResumeDir, ReadSoFar, DetInv, mark_as_det_done
  PROVE  DetInv'
<1>1. pc \in Linked /\ pc' \in Linked
  BY MarkDone DEF Linked, Running
<1>2. PICK i \in 1 .. Len(queue) :
        /\ queue[i] \in Cases /\ i - 1 \in Ids
        /\ passed_det' = passed_det \cup {queue[i]}
        /\ det_done' = det_done \cup {queue[i]}
        /\ queue_dir'.det = queue_dir.det \cup {i - 1}
  BY MarkDone
<1>3. \A j \in queue_dir'.det : j < Len(queue) /\ queue[j + 1] \in det_done'
  BY <1>1, <1>2, QueueParts DEF DetInv, TypeOK
<1>4. \A j \in queue_dir'.det : j \in Ids
  BY <1>2, DirParts DEF TypeOK
<1>5. \A j \in queue_dir'.det : queue_dir'.file[j] = queue[j + 1]
  BY <1>3, <1>4, MarkDone DEF QueueFiles, FileOf, Linked, Running
<1>6. QED
  BY <1>1, <1>2, <1>3, <1>5, MarkDone DEF DetInv, DetDoneSound, MarkedDone

\* Deleting files.
LEMMA DetAtCleanQueue ==
  ASSUME TypeOK, QueueFiles, ResumeDir, ReadSoFar, DetInv, clean_queue
  PROVE  DetInv'
<1>1. MarkedDone(queue_dir')
  BY CleanQueue, DirParts, ConstantsAssumption DEF DetInv, MarkedDone
<1>2. pc' \notin Linked \cup {"pivot"}
  BY CleanQueue DEF Linked, Running
<1>3. QED
  BY <1>1, <1>2, CleanQueue DEF DetInv, DetDoneSound, MarkedDone

\* A case takes its mark along.
LEMMA DetAtPivotInput ==
  ASSUME TypeOK, QueueFiles, ResumeDir, ReadSoFar, DetInv, pivot_input
  PROVE  DetInv'
<1>1. \A j \in queue_dir'.det : j < Len(queue) /\ queue[j + 1] \in det_done
  BY PivotInput DEF DetInv, DetDoneSound
<1>2. MarkedDone(queue_dir')
  BY <1>1, PivotInput, DirParts DEF DetInv, MarkedDone
<1>3. QED
  BY <1>1, <1>2, PivotInput DEF DetInv, DetDoneSound, MarkedDone

\* A file without its content.
LEMMA DetAtTrimCase ==
  ASSUME TypeOK, QueueFiles, ResumeDir, ReadSoFar, DetInv, trim_case
  PROVE  DetInv'
<1>1. MarkedDone(queue_dir')
  BY TrimCase, DirParts, ConstantsAssumption DEF DetInv, MarkedDone, TypeOK
<1>2. pc \in Linked
  BY TrimCase DEF Linked, Running
<1>3. QED
  BY <1>1, <1>2, TrimCase DEF DetInv, DetDoneSound, MarkedDone

\* A file without content.
LEMMA DetAtCreateFile ==
  ASSUME TypeOK, QueueFiles, ResumeDir, ReadSoFar, DetInv, create_file
  PROVE  DetInv'
<1>1. MarkedDone(queue_dir')
  BY CreateFile, DirParts, ConstantsAssumption DEF DetInv, MarkedDone, TypeOK
<1>2. pc \in Linked
  BY CreateFile DEF Linked, Running
<1>3. QED
  BY <1>1, <1>2, CreateFile DEF DetInv, DetDoneSound, MarkedDone

\* Deleting files.
LEMMA DetAtNukeCases ==
  ASSUME TypeOK, QueueFiles, ResumeDir, ReadSoFar, DetInv, nuke_cases
  PROVE  DetInv'
<1>1. MarkedDone(resume_dir')
  BY NukeCases, DirParts, ConstantsAssumption DEF DetInv, MarkedDone, TypeOK
<1>2. pc \in Linked
  BY NukeCases DEF Linked
<1>3. QED
  BY <1>1, <1>2, NukeCases DEF DetInv, DetDoneSound, MarkedDone

\* A longer queue, and no mark for the new case.
LEMMA DetAtSaveIfInteresting ==
  ASSUME TypeOK, QueueFiles, ResumeDir, ReadSoFar, DetInv, save_if_interesting
  PROVE  DetInv'
<1>1. pc \in Linked /\ \A j \in queue_dir.det : j \in Nat
  BY SaveCase, DirParts DEF Linked, Running, TypeOK, Ids
<1>2. \A j \in queue_dir.det : j < Len(queue') /\ queue'[j + 1] \in det_done
  <2>1. Len(queue) \in Nat
    BY DEF TypeOK
  <2>2. \A j \in queue_dir.det : j + 1 \in 1 .. Len(queue) /\ queue[j + 1] \in det_done
    BY <1>1, <2>1 DEF DetInv
  <2>3. QED
    BY <1>1, <2>1, <2>2, SaveCase
<1>3. QED
  BY <1>2, SaveCase DEF DetInv, DetDoneSound, MarkedDone

\* The marks are those of cases whose deterministic stages are done.
LEMMA DetStep ==
  ASSUME TypeOK, QueueFiles, ResumeDir, ReadSoFar, DetInv, [Next]_vars
  PROVE  DetInv'
<1> USE DEF DetInv, DetDoneSound, MarkedDone, Running, Linked, memVars, histVars, vars
<1>1. CASE save_if_interesting
  BY <1>1, DetAtSaveIfInteresting
<1>2. CASE trim_case
  BY <1>2, DetAtTrimCase
<1>3. CASE create_file
  BY <1>3, DetAtCreateFile
<1>4. CASE write_file
  BY <1>4, DetAtWriteFile
<1>5. CASE mark_as_det_done
  BY <1>5, DetAtMarkAsDetDone
<1>6. CASE crash
  BY <1>6 DEF crash
<1>7. CASE retry
  BY <1>7 DEF retry
<1>8. CASE rename_queue
  BY <1>8, NoDirFacts DEF rename_queue
<1>9. CASE clean_state
  BY <1>9, DirParts, RemoveStateFacts DEF TypeOK, clean_state
<1>10. CASE clean_queue
  BY <1>10, DetAtCleanQueue
<1>11. CASE setup_dirs
  BY <1>11, SetupDirs
<1>12. CASE read_testcase
  BY <1>12, ReadTestcase
<1>13. CASE end_read
  BY <1>13, ConstantsAssumption, DirParts, QueueParts
  DEF TypeOK, QueueFiles, FileOf, Ids, end_read
<1>14. CASE pivot_input
  BY <1>14, DetAtPivotInput
<1>15. CASE end_pivot
  BY <1>15 DEF end_pivot
<1>16. CASE nuke_state
  BY <1>16, DirParts, RemoveStateFacts DEF TypeOK, nuke_state
<1>17. CASE nuke_cases
  BY <1>17, DetAtNukeCases
<1>18. CASE find_nothing \/ UNCHANGED vars
  BY <1>18 DEF find_nothing
<1>19. QED
  BY <1>1, <1>2, <1>3, <1>4, <1>5, <1>6, <1>7, <1>8, <1>9, <1>10, <1>11, <1>12, <1>13,
    <1>14, <1>15, <1>16, <1>17, <1>18 DEF Next, Resume

\* A file is deleted.
LEMMA NumberAtTrimCase ==
  ASSUME TypeOK, QueueFiles, ResumeDir, ReadSoFar, KeptInv, SavedInv, NumberInv,
         trim_case
  PROVE  NumberInv'
<1>1. lost' = {} => Numbered(queue_dir')
  BY TrimCase, ConstantsAssumption DEF NumberInv, Numbered
<1>2. QED
  BY <1>1, TrimCase DEF NumberInv, Numbered, Importing

\* A file is created.
LEMMA NumberAtCreateFile ==
  ASSUME TypeOK, QueueFiles, ResumeDir, ReadSoFar, KeptInv, SavedInv, NumberInv,
         create_file
  PROVE  NumberInv'
<1>1. lost' = {} => Numbered(queue_dir')
  BY CreateFile, ConstantsAssumption DEF NumberInv, Numbered
<1>2. QED
  BY <1>1, CreateFile DEF NumberInv, Numbered, Importing

\* Marks are not files.
LEMMA NumberAtMarkAsDetDone ==
  ASSUME TypeOK, QueueFiles, ResumeDir, ReadSoFar, KeptInv, SavedInv, NumberInv,
         mark_as_det_done
  PROVE  NumberInv'
BY MarkDone DEF NumberInv, Numbered, Importing

\* A case gets its number when it is written first, and keeps it when it is trimmed.
LEMMA NumberAtWriteFile ==
  ASSUME TypeOK, QueueFiles, ResumeDir, ReadSoFar, KeptInv, SavedInv, NumberInv,
         write_file
  PROVE  NumberInv'
<1> SUFFICES ASSUME lost = {}
             PROVE  NumberInv'
  BY WriteFile DEF NumberInv
<1>1. id \in Nat /\ NONE \notin Nat /\ id + 1 \in 1 .. Len(queue)
  BY WriteFile, ConstantsAssumption DEF Ids, TypeOK
<1>2. \A c \in Cases : found[c] # NONE => found'[c] = found[c]
  BY WriteFile
<1>3. found'[queue[id + 1]] = id
  BY <1>1, WriteFile DEF NumberInv
<1>4. Numbered(resume_dir)'
  BY <1>2, WriteFile DEF NumberInv, Numbered, SavedInv
<1>5. Numbered(queue_dir)'
  BY <1>2, <1>3, WriteFile DEF NumberInv, Numbered, SavedInv
<1>6. \A i \in 1 .. Len(queue) : found'[queue[i]] \in {i - 1, NONE}
  <2>1. TAKE i \in 1 .. Len(queue)
  <2>2. CASE found[queue[i]] # NONE
    BY <1>2, <2>2, QueueParts DEF NumberInv, TypeOK
  <2>3. CASE found[queue[i]] = NONE
    BY <1>1, <1>3, <2>3 DEF SavedInv
  <2>4. QED
    BY <2>2, <2>3
<1>7. QED
  BY <1>4, <1>5, <1>6, WriteFile DEF NumberInv, Importing

\* The files of the session are the ones in _resume/.
LEMMA NumberAtRenameQueue ==
  ASSUME TypeOK, QueueFiles, ResumeDir, ReadSoFar, KeptInv, SavedInv, NumberInv,
         rename_queue
  PROVE  NumberInv'
<1> SUFFICES ASSUME lost = {}
             PROVE  NumberInv'
  BY DEF NumberInv, rename_queue, histVars
<1>1. pc = "down" /\ pc' = "clean_state" /\ UNCHANGED <<found, queue, lost>>
  BY DEF rename_queue, histVars, memVars
<1>2. CASE queue_dir.exists /\ Vacant(resume_dir)
  <2>1. resume_dir' = queue_dir /\ queue_dir' = NoDir
    BY <1>2 DEF rename_queue, Vacant
  <2>2. Numbered(queue_dir)' /\ Numbered(resume_dir)' /\ Dense(resume_dir')
    BY <1>1, <1>2, <2>1, NoDirFacts, ConstantsAssumption DEF NumberInv, Numbered
  <2>3. QED
    BY <1>1, <2>2 DEF NumberInv
<1>3. CASE ~Vacant(resume_dir)
  <2>1. resume_dir' = resume_dir /\ queue_dir' = queue_dir
    BY <1>3 DEF rename_queue, Vacant
  <2>2. QED
    BY <1>1, <1>3, <2>1 DEF NumberInv, Numbered
<1>4. CASE ~queue_dir.exists /\ Vacant(resume_dir)
  <2>1. resume_dir' = resume_dir /\ queue_dir' = queue_dir
    BY <1>4 DEF rename_queue, Vacant
  <2>2. Dense(resume_dir)
    BY <1>4, FilesAre, ConstantsAssumption DEF Dense, Vacant, TypeOK
  <2>3. QED
    BY <1>1, <2>1, <2>2 DEF NumberInv, Numbered
<1>5. QED
  BY <1>2, <1>3, <1>4

\* A file of queue/ is deleted.
LEMMA NumberAtCleanQueue ==
  ASSUME TypeOK, QueueFiles, ResumeDir, ReadSoFar, KeptInv, SavedInv, NumberInv,
         clean_queue
  PROVE  NumberInv'
<1>1. lost' = {} => Numbered(queue_dir')
  BY CleanQueue, ConstantsAssumption DEF NumberInv, Numbered
<1>2. QED
  BY <1>1, CleanQueue DEF NumberInv, Numbered, Importing

\* An empty directory is made, and then read from the start.
LEMMA NumberAtSetupDirs ==
  ASSUME TypeOK, QueueFiles, ResumeDir, ReadSoFar, KeptInv, SavedInv, NumberInv,
         setup_dirs
  PROVE  NumberInv'
<1>1. Numbered(queue_dir')
  BY SetupDirs, ConstantsAssumption DEF Numbered
<1>2. queue = <<>> /\ id = 0
  BY SetupDirs DEF ReadSoFar
<1>3. QED
  BY <1>1, <1>2, SetupDirs DEF NumberInv, Numbered, Importing

\* As the files are dense, the one that is read comes next in the queue as well.
LEMMA NumberAtReadTestcase ==
  ASSUME TypeOK, QueueFiles, ResumeDir, ReadSoFar, KeptInv, SavedInv, NumberInv,
         read_testcase
  PROVE  NumberInv'
<1> SUFFICES ASSUME lost = {}
             PROVE  NumberInv'
  BY ReadTestcase DEF NumberInv
<1>1. /\ Dense(resume_dir) /\ Numbered(resume_dir)
      /\ id \in Ids /\ Len(queue) \in Nat /\ Len(queue) <= id
  BY ReadTestcase DEF NumberInv, Importing, TypeOK
<1>2. Len(queue) < id => Len(queue) \in Ids /\ resume_dir.file[Len(queue)] \notin Cases
  <2>1. Len(queue) < id => Len(queue) \in Ids
    BY <1>1, ConstantsAssumption DEF Ids
  <2>2. QED
    BY <2>1, ReadTestcase DEF NumberInv
<1>3. resume_dir.file[id] \in Cases => Len(queue) = id
  BY <1>1, <1>2 DEF Dense, Ids
<1>4. \A i \in 1 .. Len(queue') : found[queue'[i]] \in {i - 1, NONE}
  <2>1. TAKE i \in 1 .. Len(queue')
  <2>2. CASE i \in 1 .. Len(queue)
    BY <2>2, ReadTestcase DEF NumberInv
  <2>3. CASE i \notin 1 .. Len(queue)
    <3>1. /\ i = Len(queue) + 1
          /\ resume_dir.file[id] \in Cases /\ queue'[i] = resume_dir.file[id]
      BY <1>1, <2>3, ReadTestcase
    <3>2. QED
      BY <1>1, <1>3, <3>1 DEF Numbered, Ids
  <2>4. QED
    BY <2>2, <2>3
<1>5. Len(queue') < id' => resume_dir.file[Len(queue')] \notin Cases
  BY <1>1, <1>2, <1>3, ReadTestcase DEF Ids
<1>6. QED
  BY <1>4, <1>5, ReadTestcase DEF NumberInv, Numbered, Dense, Importing

\* A case is linked under the number it had.
LEMMA NumberAtPivotInput ==
  ASSUME TypeOK, QueueFiles, ResumeDir, ReadSoFar, KeptInv, SavedInv, NumberInv,
         pivot_input
  PROVE  NumberInv'
<1> SUFFICES ASSUME lost = {}
             PROVE  NumberInv'
  BY PivotInput DEF NumberInv
<1>1. id + 1 \in 1 .. Len(queue) /\ id \in Nat
  BY PivotInput DEF Ids, TypeOK
<1>2. found[queue[id + 1]] = id
  BY <1>1, PivotInput DEF NumberInv, SavedInv
<1>3. Numbered(queue_dir')
  BY <1>2, PivotInput DEF NumberInv, Numbered
<1>4. QED
  BY <1>3, PivotInput DEF NumberInv, Numbered, Dense, Importing

\* Marks are not files.
LEMMA NumberAtNukeState ==
  ASSUME TypeOK, QueueFiles, ResumeDir, ReadSoFar, KeptInv, SavedInv, NumberInv,
         nuke_state
  PROVE  NumberInv'
<1>1. resume_dir'.file = resume_dir.file
  BY RemoveStateFacts DEF nuke_state, TypeOK
<1>2. /\ pc = "nuke_state" /\ pc' \in {"nuke_state", "nuke_cases"}
      /\ UNCHANGED <<queue_dir, queue, found, lost>>
  BY DEF nuke_state, memVars, histVars
<1>3. QED
  BY <1>1, <1>2 DEF NumberInv, Numbered, Dense, Importing

\* A file of _resume/ is deleted.
LEMMA NumberAtNukeCases ==
  ASSUME TypeOK, QueueFiles, ResumeDir, ReadSoFar, KeptInv, SavedInv, NumberInv,
         nuke_cases
  PROVE  NumberInv'
<1>1. lost' = {} => Numbered(resume_dir')
  BY NukeCases, ConstantsAssumption DEF NumberInv, Numbered
<1>2. QED
  BY <1>1, NukeCases DEF NumberInv, Numbered, Importing

\* If nothing is lost, what is left has no holes.
LEMMA NumberAtCrash ==
  ASSUME TypeOK, QueueFiles, ResumeDir, ReadSoFar, KeptInv, SavedInv, NumberInv, crash
  PROVE  NumberInv'
<1> SUFFICES ASSUME lost' = {}
             PROVE  NumberInv'
  BY DEF NumberInv
<1>1. /\ pc' = "down" /\ UNCHANGED <<queue_dir, resume_dir, found>> /\ lost = {}
      /\ queue' = <<>> /\ pc \notin {"down", "fatal"}
  BY DEF crash
<1>2. Numbered(queue_dir) /\ Numbered(resume_dir)
  BY <1>1 DEF NumberInv
<1>3. IF Vacant(resume_dir) THEN Dense(queue_dir) ELSE Dense(resume_dir)
  <2>1. CASE pc \in Importing
    <3>1. ~Vacant(resume_dir)
      BY <1>1, <2>1, NoFiles DEF Vacant, KeptInv, Kept, Saved, SavedInv
    <3>2. QED
      BY <1>1, <2>1, <3>1 DEF NumberInv
  <2>2. CASE pc \in {"run", "nuke_cases"} /\ Vacant(resume_dir)
    <3>1. \A j \in Ids : queue_dir.file[j] = FileOf(Len(queue), j)
      BY <2>2 DEF QueueFiles, Linked, Running
    <3>2. QED
      BY <2>2, <3>1, DenseFiles
  <2>3. CASE pc \in {"create", "write"}
    <3>1. id \in Ids /\ id < Len(queue) /\ Len(queue) \in Nat
      BY <2>3, ConstantsAssumption DEF QueueFiles, TypeOK, Ids
    <3>2. queue_dir.file[id] \in {NONE, EMPTY}
      BY <2>3, <3>1 DEF QueueFiles, Linked, Running
    <3>3. id + 1 \in 1 .. Len(queue) /\ queue[id + 1] \in Cases
      BY <3>1, QueueParts DEF Ids, TypeOK
    <3>4. queue[id + 1] \in Unwritten
      BY <3>1, <3>2, <3>3, ConstantsAssumption DEF Unwritten, Ids
    <3>5. found[queue[id + 1]] = NONE
      BY <2>3, <3>3, <3>4 DEF crash, Saved
    <3>6. id + 1 = Len(queue)
      BY <3>3, <3>5 DEF SavedInv
    <3>7. \A j \in Ids : queue_dir.file[j] \in Cases => j < id
      BY <2>3, <3>1, <3>6, ConstantsAssumption DEF QueueFiles, FileOf, Linked, Running, Ids
    <3>8. \A j \in Ids : j < id => queue_dir.file[j] \in Cases
      <4>1. TAKE j \in Ids
      <4>2. HAVE j < id
      <4>3. queue_dir.file[j] = queue[j + 1] /\ j + 1 \in 1 .. Len(queue)
        BY <2>3, <3>1, <4>2 DEF QueueFiles, FileOf, Linked, Running, Ids
      <4>4. QED
        BY <4>3, QueueParts DEF TypeOK
    <3>9. Dense(queue_dir)
      BY <3>1, <3>7, <3>8 DEF Dense, Ids
    <3>10. Vacant(resume_dir)
      BY <2>3 DEF ResumeDir, Running
    <3>11. QED
      BY <3>9, <3>10
  <2>4. CASE pc = "nuke_cases" /\ ~Vacant(resume_dir)
    <3>1. Files(resume_dir) # {}
      BY <2>4 DEF ResumeDir, Vacant
    <3>2. Elements(queue) \subseteq CasesIn(resume_dir)
      BY <2>4, <3>1, LinkedCases DEF crash, HalfDeleted
    <3>3. \A i \in 1 .. Len(queue) : i - 1 \in Ids /\ resume_dir.file[i - 1] = queue[i]
      <4>1. TAKE i \in 1 .. Len(queue)
      <4>2. queue[i] \in Cases /\ found[queue[i]] = i - 1 /\ i - 1 \in Ids
        BY <1>1, <2>4, QueueParts, LinkedCases DEF NumberInv, SavedInv, TypeOK
      <4>3. PICK j \in Ids : resume_dir.file[j] = queue[i]
        BY <3>2, FilesAre, QueueParts DEF TypeOK
      <4>4. QED
        BY <1>2, <4>2, <4>3 DEF Numbered
    <3>4. \A j \in Ids : resume_dir.file[j] \in Cases => j < Len(queue)
      <4>1. TAKE j \in Ids
      <4>2. HAVE resume_dir.file[j] \in Cases
      <4>3. PICK i \in 1 .. Len(queue) : resume_dir.file[j] = queue[i]
        <5>1. resume_dir.file[j] \in CasesIn(resume_dir)
          BY <4>2, FilesAre DEF TypeOK
        <5>2. QED
          BY <2>4, <5>1, QueueParts DEF ReadSoFar, TypeOK
      <4>4. found[queue[i]] = i - 1 /\ found[queue[i]] = j
        BY <1>1, <1>2, <2>4, <4>2, <4>3 DEF NumberInv, SavedInv, Numbered
      <4>5. QED
        BY <4>4, QueueParts DEF TypeOK
    <3>5. ASSUME NEW i \in Ids, NEW j \in Ids, i < j, resume_dir.file[j] \in Cases
          PROVE  resume_dir.file[i] \in Cases
      <4>1. i + 1 \in 1 .. Len(queue) /\ (i + 1) - 1 = i
        BY <3>4, <3>5, QueueParts DEF Ids, TypeOK
      <4>2. QED
        BY <3>3, <4>1, QueueParts DEF TypeOK
    <3>6. QED
      BY <2>4, <3>5 DEF Dense
  <2>5. pc = "run" => Vacant(resume_dir)
    BY DEF ResumeDir, Running
  <2>6. QED
    BY <1>1, <2>1, <2>2, <2>3, <2>4, <2>5 DEF TypeOK, Importing, Running
<1>4. QED
  BY <1>1, <1>2, <1>3 DEF NumberInv, Numbered, Dense, Vacant, Importing

\* The new case has no number yet.
LEMMA NumberAtSaveIfInteresting ==
  ASSUME TypeOK, QueueFiles, ResumeDir, ReadSoFar, KeptInv, SavedInv, NumberInv,
         save_if_interesting
  PROVE  NumberInv'
<1>1. \A i \in 1 .. Len(queue') : i \in 1 .. Len(queue) \/ i = Len(queue) + 1
  BY SaveCase DEF TypeOK
<1>2. QED
  BY <1>1, SaveCase DEF NumberInv, Numbered, Dense, Importing

\* Cases keep their numbers while none is lost.
LEMMA NumberStep ==
  ASSUME TypeOK, QueueFiles, ResumeDir, ReadSoFar, KeptInv, SavedInv, NumberInv,
         [Next]_vars
  PROVE  NumberInv'
<1> USE DEF NumberInv, Numbered, Dense, Importing, memVars, histVars, vars
<1>1. CASE save_if_interesting
  BY <1>1, NumberAtSaveIfInteresting
<1>2. CASE trim_case
  BY <1>2, NumberAtTrimCase
<1>3. CASE create_file
  BY <1>3, NumberAtCreateFile
<1>4. CASE write_file
  BY <1>4, NumberAtWriteFile
<1>5. CASE mark_as_det_done
  BY <1>5, NumberAtMarkAsDetDone
<1>6. CASE crash
  BY <1>6, NumberAtCrash
<1>7. CASE retry
  BY <1>7 DEF retry
<1>8. CASE rename_queue
  BY <1>8, NumberAtRenameQueue
<1>9. CASE clean_state
  BY <1>9, ConstantsAssumption, DirParts, FilesAre, QueueParts, RemoveStateFacts
  DEF TypeOK, QueueFiles, FileOf, ResumeDir, ReadSoFar, KeptInv, SavedInv, Kept, Saved,
      Vacant, Running, Linked, Ids, clean_state
<1>10. CASE clean_queue
  BY <1>10, NumberAtCleanQueue
<1>11. CASE setup_dirs
  BY <1>11, NumberAtSetupDirs
<1>12. CASE read_testcase
  BY <1>12, NumberAtReadTestcase
<1>13. CASE end_read
  BY <1>13, ConstantsAssumption, DirParts, FilesAre, QueueParts
  DEF TypeOK, QueueFiles, FileOf, ResumeDir, ReadSoFar, KeptInv, SavedInv, Kept, Saved,
      Vacant, Running, Linked, Ids, end_read
<1>14. CASE pivot_input
  BY <1>14, NumberAtPivotInput
<1>15. CASE end_pivot
  BY <1>15 DEF end_pivot
<1>16. CASE nuke_state
  BY <1>16, NumberAtNukeState
<1>17. CASE nuke_cases
  BY <1>17, NumberAtNukeCases
<1>18. CASE find_nothing \/ UNCHANGED vars
  BY <1>18 DEF find_nothing
<1>19. QED
  BY <1>1, <1>2, <1>3, <1>4, <1>5, <1>6, <1>7, <1>8, <1>9, <1>10, <1>11, <1>12, <1>13,
    <1>14, <1>15, <1>16, <1>17, <1>18 DEF Next, Resume

-----------------------------------------------------------------------------
(* The theorems.                                                           *)

\* The invariant is inductive.
LEMMA NextIInv == IInv /\ [Next]_vars => IInv'
<1> SUFFICES ASSUME IInv, [Next]_vars PROVE IInv'
  OBVIOUS
<1>1. /\ TypeOK /\ QueueFiles /\ ResumeDir /\ ReadSoFar
      /\ KeptInv /\ SavedInv /\ DetInv /\ NumberInv
  BY DEF IInv
<1>2. TypeOK' /\ QueueFiles' /\ ResumeDir' /\ ReadSoFar'
  BY <1>1, TypeStep, QueueFilesStep, ResumeDirStep, ReadSoFarStep
<1>3. KeptInv' /\ SavedInv' /\ DetInv' /\ NumberInv'
  BY <1>1, KeptStep, SavedStep, DetStep, NumberStep
<1>4. QED
  BY <1>2, <1>3 DEF IInv

\* It holds in every reachable state.
LEMMA AlwaysIInv == Spec => []IInv
BY InitIInv, NextIInv, PTL DEF Spec

\* Every variable keeps its type: above all, no resume makes the queue longer than the
\* files there are numbers for.
THEOREM TypeCorrect == Spec => []TypeOK
<1>1. IInv => TypeOK
  BY DEF IInv
<1>2. QED
  BY <1>1, AlwaysIInv, PTL

\* A resumed session has every case that was saved and not lost, for any number of cases,
\* and however often and wherever the process was killed.
THEOREM CasesSurviveCorrect == Spec => []CasesSurvive
<1>1. IInv => CasesSurvive
  BY DEF IInv, KeptInv, Kept, CasesSurvive, Linked, Running
<1>2. QED
  BY <1>1, AlwaysIInv, PTL

\* As long as no case is lost, every case has the number it was saved under first.
THEOREM NumbersCorrect == Spec => []NumbersKept
<1>1. IInv => NumbersKept
  BY DEF IInv, NumberInv, SavedInv, NumbersKept
<1>2. QED
  BY <1>1, AlwaysIInv, PTL

\* Deterministic stages are only skipped for cases that went through them, also when the
\* loss of a case has shifted the numbers of the others.
THEOREM DetCorrect == Spec => []DetDoneSound
<1>1. IInv => DetDoneSound
  BY DEF IInv, DetInv
<1>2. QED
  BY <1>1, AlwaysIInv, PTL

-----------------------------------------------------------------------------
(* Scans of queue/: the inductive invariant, part by part.                 *)

\* The types, and how the counters of a scan are related.
ScanInv ==
  /\ spc \in {"idle", "readdir", "open"}
  /\ names \subseteq Ids /\ returned \subseteq Ids
  /\ min_accept \in Nat /\ next_min_accept \in Nat /\ synced \in Nat /\ syncing_case \in Nat
  /\ stops \in Nat
  /\ spc # "idle" =>
       /\ min_accept = synced /\ min_accept <= next_min_accept
       /\ next_min_accept > min_accept => next_min_accept - 1 \in returned
       /\ \A i \in returned : i < next_min_accept
  /\ spc = "open" => syncing_case \in returned /\ syncing_case >= min_accept

\* Only files are executed.
ImportedInv == imported \subseteq Saved

\* As long as nothing changes, the scan sees all files there are, and has executed those
\* that readdir() returned.
QuietInv ==
  spc # "idle" /\ quiet =>
    /\ pc = "run" /\ dirp = "queue"
    /\ names = Files(queue_dir) /\ returned \subseteq names
    /\ names \ returned \subseteq steady
    /\ \A i \in returned : i >= min_accept =>
         queue_dir.file[i] \in imported \/ (spc = "open" /\ i = syncing_case)

\* Every number below the counter is accounted for.
CoveredInv ==
  lost = {} =>
    \A i \in Nat : i < synced => i \in excused \/ \E c \in imported : found[c] = i

\* What was executed is below the counter or was returned in this scan.
OnceInv ==
  stops = 0 /\ lost = {} =>
    \A c \in imported :
      \/ found[c] < synced
      \/ spc # "idle" /\ found[c] \in returned /\ ~(spc = "open" /\ found[c] = syncing_case)

SyncInv == IInv /\ ScanInv /\ ImportedInv /\ QuietInv /\ CoveredInv /\ OnceInv

-----------------------------------------------------------------------------
(* Facts about the other instance.                                         *)

\* A step of the other instance, or of the importer alone, keeps its invariant.
LEMMA OtherIInv ==
  ASSUME IInv, [SyncNext]_syncVars
  PROVE  IInv'
<1>1. [Next]_vars
  BY DEF SyncNext, Importer, open_queue, next_case, import_case, end_scan, stop_scan,
         other_instance, syncVars
<1>2. QED
  BY <1>1, NextIInv

\* A case that was saved keeps its number for good, and what is lost stays lost.
LEMMA OtherHistory ==
  ASSUME IInv, [Next]_vars
  PROVE  /\ \A c \in Saved : c \in Saved' /\ found'[c] = found[c]
         /\ lost' = {} => lost = {}
<1>1. CASE write_file
  <2>1. TypeOK /\ QueueFiles
    BY DEF IInv
  <2>2. QED
    BY <1>1, <2>1, WriteFile DEF Saved
<1>2. CASE ~write_file
  <2>1. found' = found
    BY <1>2 DEF Next, Resume, save_if_interesting, trim_case, create_file, mark_as_det_done,
      find_nothing, crash, rename_queue, clean_state, clean_queue, setup_dirs,
      read_testcase, end_read, pivot_input, end_pivot, nuke_state, nuke_cases, retry,
      histVars, vars
  <2>2. lost \subseteq lost'
    BY <1>2 DEF Next, Resume, save_if_interesting, trim_case, create_file, mark_as_det_done,
      find_nothing, crash, rename_queue, clean_state, clean_queue, setup_dirs,
      read_testcase, end_read, pivot_input, end_pivot, nuke_state, nuke_cases, retry,
      histVars, vars
  <2>3. QED
    BY <2>1, <2>2 DEF Saved
<1>3. QED
  BY <1>1, <1>2

\* While the other instance runs, and finds and trims nothing, its files stay the same.
LEMMA OtherRuns ==
  ASSUME IInv, [Next]_vars, pc = "run", pc' = "run"
  PROVE  /\ queue_dir'.file = queue_dir.file
         /\ queue_dir.exists /\ queue_dir'.exists
<1>1. TypeOK /\ QueueFiles /\ queue_dir.exists
  BY DEF IInv, QueueFiles, Linked, Running
<1>2. CASE mark_as_det_done
  BY <1>1, <1>2, MarkDone
<1>3. CASE find_nothing \/ UNCHANGED vars
  BY <1>1, <1>3 DEF find_nothing, vars
<1>4. QED
  BY <1>2, <1>3 DEF Next, Resume, save_if_interesting, trim_case, create_file, write_file,
    crash, rename_queue, clean_state, clean_queue, setup_dirs, read_testcase,
    end_read, pivot_input, end_pivot, nuke_state, nuke_cases, retry

\* When it runs, its files are the first ones there are numbers for, and hold cases.
LEMMA FilesOfRun ==
  ASSUME IInv, pc = "run"
  PROVE  /\ \A i \in Files(queue_dir) : queue_dir.file[i] \in Cases
         /\ \A i \in Files(queue_dir) : \A j \in Nat : j <= i => j \in Files(queue_dir)
<1>1. TypeOK /\ queue \in Seq(Cases) /\ Len(queue) \in Nat /\ MaxCases \in Nat
  BY ConstantsAssumption DEF IInv, TypeOK
<1>2. \A i \in Ids : queue_dir.file[i] = FileOf(Len(queue), i)
  BY DEF IInv, QueueFiles, Linked, Running
<1>3. \A i \in Ids : i < Len(queue) => queue_dir.file[i] \in Cases
  BY <1>1, <1>2, QueueParts DEF FileOf, Ids
<1>4. \A i \in Files(queue_dir) : i \in Ids /\ i < Len(queue)
  BY <1>2 DEF Files, FileOf
<1>5. QED
  BY <1>1, <1>3, <1>4, ConstantsAssumption DEF Files, Ids

\* Unless a case was lost, no two cases have the same number.
LEMMA OneNumber ==
  ASSUME IInv, lost = {}, NEW c \in Saved, NEW d \in Saved, found[c] = found[d]
  PROVE  c = d
<1>1. /\ TypeOK /\ Kept = Saved
      /\ c \in Cases /\ d \in Cases /\ found[c] # NONE /\ found[d] # NONE
      /\ queue_dir \in Dirs /\ resume_dir \in Dirs /\ queue \in Seq(Cases)
  BY DEF IInv, Saved, Kept, TypeOK
<1>2. Numbered(queue_dir) /\ Numbered(resume_dir)
  BY DEF IInv, NumberInv
<1>3. CASE Kept \subseteq CasesIn(queue_dir)
  BY <1>1, <1>2, <1>3, FilesAre DEF Numbered
<1>4. CASE Kept \subseteq CasesIn(resume_dir)
  BY <1>1, <1>2, <1>4, FilesAre DEF Numbered
<1>5. CASE Kept \subseteq Elements(queue)
  <2>1. \A i \in 1 .. Len(queue) : found[queue[i]] \in {i - 1, NONE}
    BY DEF IInv, NumberInv
  <2>2. c \in Elements(queue) /\ d \in Elements(queue)
    BY <1>1, <1>5
  <2>3. PICK i \in 1 .. Len(queue) : c = queue[i]
    BY <1>1, <2>2, QueueParts
  <2>4. PICK j \in 1 .. Len(queue) : d = queue[j]
    BY <1>1, <2>2, QueueParts
  <2>5. i = j
    BY <1>1, <2>1, <2>3, <2>4
  <2>6. QED
    BY <2>3, <2>4, <2>5
<1>6. QED
  BY <1>1, <1>3, <1>4, <1>5 DEF IInv, KeptInv, TypeOK, Importing, Linked, Running

-----------------------------------------------------------------------------
(* The initial state and the steps, one lemma per part of the invariant.   *)

\* The invariant holds before the first scan.
LEMMA InitSyncInv == SyncInit => SyncInv
<1> SUFFICES ASSUME SyncInit PROVE SyncInv
  OBVIOUS
<1>1. IInv
  BY InitIInv DEF SyncInit
<1>2. ScanInv /\ ImportedInv /\ QuietInv /\ CoveredInv /\ OnceInv
  BY DEF SyncInit, ScanInv, ImportedInv, QuietInv, CoveredInv, OnceInv
<1>3. QED
  BY <1>1, <1>2 DEF SyncInv

\* The counters of a scan.
LEMMA ScanStep ==
  ASSUME IInv, ScanInv, [SyncNext]_syncVars
  PROVE  ScanInv'
<1>1. CASE open_queue
  BY <1>1 DEF ScanInv, open_queue, Files
<1>2. CASE next_case
  <2>1. PICK i \in (names \cup Scanned) \ returned :
          /\ returned' = returned \cup {i}
          /\ IF i < min_accept
             THEN UNCHANGED <<next_min_accept, syncing_case, spc>>
             ELSE /\ next_min_accept' = IF i >= next_min_accept THEN i + 1
                                         ELSE next_min_accept
                  /\ syncing_case' = i
                  /\ spc' = "open"
    BY <1>2 DEF next_case
  <2>2. i \in Ids /\ i \in Nat
    BY DEF ScanInv, Scanned, Files, Ids
  <2>3. spc = "readdir" /\ UNCHANGED <<names, min_accept, synced, stops>>
    BY <1>2 DEF next_case
  <2>4. \A k \in returned : k \in Nat
    BY DEF ScanInv, Ids
  <2>5. CASE i < min_accept
    BY <2>1, <2>2, <2>3, <2>4, <2>5 DEF ScanInv
  <2>6. CASE i >= min_accept /\ i >= next_min_accept
    BY <2>1, <2>2, <2>3, <2>4, <2>6 DEF ScanInv
  <2>7. CASE i >= min_accept /\ i < next_min_accept
    BY <2>1, <2>2, <2>3, <2>4, <2>7 DEF ScanInv
  <2>8. QED
    BY <2>2, <2>5, <2>6, <2>7 DEF ScanInv
<1>3. CASE import_case
  BY <1>3 DEF ScanInv, import_case
<1>4. CASE end_scan
  BY <1>4 DEF ScanInv, end_scan, EndOfScan
<1>5. CASE stop_scan
  BY <1>5 DEF ScanInv, stop_scan, EndOfScan
<1>6. CASE other_instance \/ UNCHANGED syncVars
  BY <1>6 DEF ScanInv, other_instance, syncVars, impVars, scanVars
<1>7. QED
  BY <1>1, <1>2, <1>3, <1>4, <1>5, <1>6 DEF SyncNext, Importer

\* A file that is executed holds a case that was saved.
LEMMA ImportedStep ==
  ASSUME IInv, ScanInv, ImportedInv, [SyncNext]_syncVars
  PROVE  ImportedInv'
<1>1. CASE import_case
  <2>1. syncing_case \in Ids /\ Saved' = Saved
    BY <1>1 DEF ScanInv, import_case, vars, histVars, Saved
  <2>2. queue_dir.file[syncing_case] \in Cases \cup {EMPTY, NONE}
    BY <2>1, DirParts DEF IInv, TypeOK
  <2>3. queue_dir.file[syncing_case] \in Cases => queue_dir.file[syncing_case] \in Saved
    BY <2>1 DEF IInv, SavedInv, Saved
  <2>4. QED
    BY <1>1, <2>1, <2>2, <2>3 DEF ImportedInv, import_case
<1>2. CASE other_instance
  BY <1>2, OtherHistory DEF ImportedInv, other_instance
<1>3. CASE open_queue \/ next_case \/ end_scan \/ stop_scan \/ UNCHANGED syncVars
  BY <1>3 DEF ImportedInv, Saved, open_queue, next_case, end_scan, stop_scan, vars,
    histVars, syncVars, impVars
<1>4. QED
  BY <1>1, <1>2, <1>3 DEF SyncNext, Importer

\* A scan that has not overlapped a change has executed what it has seen.
LEMMA QuietStep ==
  ASSUME IInv, ScanInv, QuietInv, [SyncNext]_syncVars
  PROVE  QuietInv'
<1>1. CASE open_queue
  BY <1>1 DEF QuietInv, open_queue, vars
<1>2. CASE next_case
  <2> SUFFICES ASSUME spc' # "idle", quiet'
               PROVE  QuietInv'
    BY DEF QuietInv
  <2>1. PICK i \in (names \cup Scanned) \ returned :
          /\ returned' = returned \cup {i}
          /\ steady' = steady \ {i}
          /\ IF i < min_accept
             THEN UNCHANGED <<next_min_accept, syncing_case, spc>>
             ELSE syncing_case' = i /\ spc' = "open"
    BY <1>2 DEF next_case
  <2>2. /\ spc = "readdir" /\ quiet
        /\ UNCHANGED <<pc, queue_dir, dirp, names, min_accept, imported, quiet>>
    BY <1>2 DEF next_case, vars
  <2>3. /\ pc = "run" /\ dirp = "queue" /\ names = Files(queue_dir)
        /\ returned \subseteq names /\ names \ returned \subseteq steady
        /\ \A k \in returned : k >= min_accept => queue_dir.file[k] \in imported
    BY <2>2 DEF QuietInv
  <2>4. \A k \in returned' : k >= min_accept =>
          queue_dir.file[k] \in imported \/ (spc' = "open" /\ k = syncing_case')
    <3>1. TAKE k \in returned'
    <3>2. HAVE k >= min_accept
    <3>3. CASE k = i
      <4>1. i \in Nat /\ min_accept \in Nat
        BY <2>1 DEF ScanInv, Scanned, Files, Ids
      <4>2. QED
        BY <2>1, <3>2, <3>3, <4>1
    <3>4. CASE k # i
      BY <2>1, <2>3, <3>2, <3>4
    <3>5. QED
      BY <3>3, <3>4
  <2>5. returned' \subseteq names /\ names \ returned' \subseteq steady'
    BY <2>1, <2>3 DEF Scanned
  <2>6. QED
    BY <2>2, <2>3, <2>4, <2>5 DEF QuietInv
<1>3. CASE import_case
  <2> SUFFICES ASSUME spc' # "idle", quiet'
               PROVE  QuietInv'
    BY DEF QuietInv
  <2>1. /\ spc = "open" /\ quiet /\ spc' = "readdir"
        /\ UNCHANGED <<pc, queue_dir, dirp, names, steady, returned, min_accept, quiet>>
        /\ imported' = imported \cup ({queue_dir.file[syncing_case]} \ {NONE, EMPTY})
    BY <1>3 DEF import_case, vars
  <2>2. /\ pc = "run" /\ dirp = "queue" /\ names = Files(queue_dir)
        /\ returned \subseteq names /\ names \ returned \subseteq steady
        /\ \A i \in returned : i >= min_accept =>
             queue_dir.file[i] \in imported \/ i = syncing_case
    BY <2>1 DEF QuietInv
  <2>3. syncing_case \in Files(queue_dir)
    BY <2>1, <2>2 DEF ScanInv
  <2>4. queue_dir.file[syncing_case] \notin {NONE, EMPTY}
    BY <2>2, <2>3, FilesOfRun, ConstantsAssumption
  <2>5. QED
    BY <2>1, <2>2, <2>4 DEF QuietInv
<1>4. CASE end_scan \/ stop_scan
  BY <1>4 DEF QuietInv, end_scan, stop_scan, EndOfScan
<1>5. CASE other_instance
  <2> SUFFICES ASSUME spc' # "idle", quiet'
               PROVE  QuietInv'
    BY DEF QuietInv
  <2>1. /\ spc = spc' /\ quiet /\ pc' = pc
        /\ UNCHANGED <<names, returned, min_accept, imported, syncing_case>>
    BY <1>5 DEF other_instance
  <2>2. pc = "run" /\ dirp = "queue" /\ names = Files(queue_dir)
    BY <2>1 DEF QuietInv
  <2>3. queue_dir'.file = queue_dir.file /\ queue_dir'.exists
    BY <1>5, <2>1, <2>2, OtherRuns DEF other_instance
  <2>4. dirp' = "queue"
    BY <1>5, <2>2, <2>3 DEF other_instance, Renamed
  <2>5. Files(queue_dir)' = Files(queue_dir)
    BY <2>3 DEF Files
  <2>6. steady' = steady \cap Files(queue_dir)
    BY <1>5, <2>4, <2>5 DEF other_instance, Scanned
  <2>7. QED
    BY <2>1, <2>2, <2>3, <2>4, <2>5, <2>6 DEF QuietInv
<1>6. CASE UNCHANGED syncVars
  BY <1>6 DEF QuietInv, syncVars, vars, impVars, scanVars, Files
<1>7. QED
  BY <1>1, <1>2, <1>3, <1>4, <1>5, <1>6 DEF SyncNext, Importer

\* What the counter passes has been executed, or is excused.
LEMMA CoveredStep ==
  ASSUME IInv, ScanInv, ImportedInv, QuietInv, CoveredInv, [SyncNext]_syncVars
  PROVE  CoveredInv'
<1>1. CASE end_scan
  <2>1. /\ spc = "readdir" /\ steady = {} /\ synced' = next_min_accept
        /\ excused' = IF quiet THEN excused ELSE excused \cup Passed
        /\ UNCHANGED <<lost, found, imported>>
    BY <1>1 DEF end_scan, vars, histVars
  <2>2. SUFFICES ASSUME lost = {}, NEW i \in Nat, i < next_min_accept
                 PROVE  i \in excused' \/ \E c \in imported : found[c] = i
    BY <2>1 DEF CoveredInv
  <2>3. CASE i < synced
    BY <2>1, <2>2, <2>3 DEF CoveredInv
  <2>4. CASE i >= synced /\ ~quiet
    <3>1. i \in min_accept .. next_min_accept - 1
      BY <2>1, <2>2, <2>4 DEF ScanInv
    <3>2. QED
      BY <2>1, <2>4, <3>1 DEF Passed
  <2>5. CASE i >= synced /\ quiet
    <3>1. next_min_accept - 1 \in returned /\ i <= next_min_accept - 1
      BY <2>1, <2>2, <2>5 DEF ScanInv
    <3>2. /\ pc = "run" /\ names = Files(queue_dir) /\ returned \subseteq names
          /\ names \subseteq returned
          /\ \A k \in returned : k >= min_accept => queue_dir.file[k] \in imported
      BY <2>1, <2>5 DEF QuietInv
    <3>3. i \in Files(queue_dir) /\ queue_dir.file[i] \in Cases
      BY <3>1, <3>2, FilesOfRun
    <3>4. queue_dir.file[i] \in imported
      BY <2>1, <2>5, <3>2, <3>3 DEF ScanInv
    <3>5. found[queue_dir.file[i]] = i
      BY <2>2, <3>3 DEF IInv, NumberInv, Numbered, Files
    <3>6. QED
      BY <3>4, <3>5
  <2>6. QED
    BY <2>2, <2>3, <2>4, <2>5 DEF ScanInv
<1>2. CASE import_case
  BY <1>2 DEF CoveredInv, import_case, vars, histVars
<1>3. CASE other_instance
  BY <1>3, OtherHistory DEF CoveredInv, ImportedInv, other_instance
<1>4. CASE open_queue \/ next_case \/ stop_scan \/ UNCHANGED syncVars
  BY <1>4 DEF CoveredInv, open_queue, next_case, stop_scan, vars, histVars, syncVars,
    impVars
<1>5. QED
  BY <1>1, <1>2, <1>3, <1>4 DEF SyncNext, Importer

\* No scan that is not cut short comes across a number again.
LEMMA OnceStep ==
  ASSUME IInv, ScanInv, ImportedInv, OnceInv, [SyncNext]_syncVars
  PROVE  OnceInv'
<1>1. CASE open_queue
  BY <1>1 DEF OnceInv, ScanInv, open_queue, vars, histVars
<1>2. CASE next_case
  <2>1. PICK i \in (names \cup Scanned) \ returned :
          /\ returned' = returned \cup {i}
          /\ IF i < min_accept
             THEN UNCHANGED <<next_min_accept, syncing_case, spc>>
             ELSE syncing_case' = i /\ spc' = "open"
    BY <1>2 DEF next_case
  <2>2. /\ spc = "readdir" /\ UNCHANGED <<stops, lost, imported, found, synced>>
    BY <1>2 DEF next_case, vars, histVars
  <2>3. i \in Nat /\ synced \in Nat /\ min_accept = synced
    BY <2>2 DEF ScanInv, Scanned, Files, Ids
  <2>4. QED
    BY <2>1, <2>2, <2>3 DEF OnceInv
<1>3. CASE import_case
  <2> SUFFICES ASSUME stops = 0, lost = {}
               PROVE  OnceInv'
    BY <1>3 DEF OnceInv, import_case, vars, histVars
  <2>1. /\ spc = "open" /\ spc' = "readdir"
        /\ imported' = imported \cup ({queue_dir.file[syncing_case]} \ {NONE, EMPTY})
        /\ UNCHANGED <<synced, returned, found>>
    BY <1>3 DEF import_case, vars, histVars
  <2>2. syncing_case \in returned /\ syncing_case \in Ids
    BY <2>1 DEF ScanInv
  <2>3. queue_dir.file[syncing_case] \in Cases \cup {EMPTY, NONE}
    BY <2>2, DirParts DEF IInv, TypeOK
  <2>4. queue_dir.file[syncing_case] \in Cases =>
          found[queue_dir.file[syncing_case]] = syncing_case
    BY <2>2 DEF IInv, NumberInv, Numbered
  <2>5. \A c \in imported' : found[c] < synced \/ found[c] \in returned
    BY <2>1, <2>2, <2>3, <2>4 DEF OnceInv
  <2>6. QED
    BY <2>1, <2>5 DEF OnceInv
<1>4. CASE end_scan
  <2>1. /\ spc = "readdir" /\ synced' = next_min_accept
        /\ UNCHANGED <<stops, lost, imported, found>>
    BY <1>4 DEF end_scan, vars, histVars
  <2>2. synced \in Nat /\ next_min_accept \in Nat /\ synced <= next_min_accept
    BY <2>1 DEF ScanInv
  <2>3. \A i \in returned : i < next_min_accept
    BY <2>1 DEF ScanInv
  <2>4. \A c \in imported : found[c] \in Nat
    BY ConstantsAssumption DEF ImportedInv, Saved, IInv, TypeOK, Ids
  <2>5. QED
    BY <2>1, <2>2, <2>3, <2>4 DEF OnceInv
<1>5. CASE stop_scan
  BY <1>5 DEF OnceInv, ScanInv, stop_scan
<1>6. CASE other_instance
  BY <1>6, OtherHistory DEF OnceInv, ImportedInv, other_instance
<1>7. CASE UNCHANGED syncVars
  BY <1>7 DEF OnceInv, syncVars, vars, histVars, impVars, scanVars
<1>8. QED
  BY <1>1, <1>2, <1>3, <1>4, <1>5, <1>6, <1>7 DEF SyncNext, Importer

-----------------------------------------------------------------------------
(* The theorems.                                                           *)

\* The invariant is inductive.
LEMMA NextSyncInv == SyncInv /\ [SyncNext]_syncVars => SyncInv'
<1> SUFFICES ASSUME SyncInv, [SyncNext]_syncVars PROVE SyncInv'
  OBVIOUS
<1>1. IInv /\ ScanInv /\ ImportedInv /\ QuietInv /\ CoveredInv /\ OnceInv
  BY DEF SyncInv
<1>2. QED
  BY <1>1, OtherIInv, ScanStep, ImportedStep, QuietStep, CoveredStep, OnceStep DEF SyncInv

\* It holds in every reachable state.
LEMMA AlwaysSyncInv == SyncSpec => []SyncInv
BY InitSyncInv, NextSyncInv, PTL DEF SyncSpec

\* A case whose number the counter has passed was executed by the importer, or its number
\* was passed by a scan during which the other instance was changing its files: for any
\* number of cases, crashes and resumes of the other, and stopped scans.
THEOREM PassedCorrect == SyncSpec => []PassedMeansExecuted
<1>1. SyncInv => PassedMeansExecuted
  <2> SUFFICES ASSUME SyncInv, lost = {}, NEW c \in Saved, found[c] < synced
               PROVE  c \in imported \/ found[c] \in excused
    BY DEF PassedMeansExecuted
  <2>1. IInv /\ CoveredInv /\ ImportedInv
    BY DEF SyncInv
  <2>2. found[c] \in Nat
    BY <2>1, ConstantsAssumption DEF IInv, TypeOK, Saved, Ids
  <2>3. CASE \E d \in imported : found[d] = found[c]
    BY <2>1, <2>3, OneNumber DEF ImportedInv
  <2>4. QED
    BY <2>1, <2>2, <2>3 DEF CoveredInv
<1>2. QED
  BY <1>1, AlwaysSyncInv, PTL

\* A case is executed a second time only if a scan was cut short or a case was lost, even
\* if the other instance dies, resumes and trims under the scan.
THEOREM ExecutedOnceCorrect == SyncSpec => ExecutedOnce
<1>1. SyncInv /\ [SyncNext]_syncVars =>
        [(spc = "open" /\ spc' = "readdir" /\ queue_dir.file[syncing_case] \in imported) =>
           stops > 0 \/ lost # {}]_syncVars
  <2> SUFFICES ASSUME SyncInv, spc = "open", queue_dir.file[syncing_case] \in imported,
                      ~(stops > 0), lost = {}
               PROVE  FALSE
    BY DEF SyncInv
  <2>1. IInv /\ ScanInv /\ ImportedInv /\ OnceInv /\ stops = 0
    BY DEF SyncInv, ScanInv
  <2>2. /\ syncing_case \in Ids /\ syncing_case \in Nat /\ synced \in Nat
        /\ syncing_case >= synced
    BY <2>1 DEF ScanInv
  <2>3. found[queue_dir.file[syncing_case]] = syncing_case
    BY <2>1, <2>2 DEF IInv, NumberInv, Numbered, ImportedInv, Saved
  <2>4. QED
    BY <2>1, <2>2, <2>3 DEF OnceInv
<1>2. QED
  BY <1>1, AlwaysSyncInv, PTL DEF SyncSpec, ExecutedOnce

=============================================================================
