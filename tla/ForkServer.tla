----------------------------- MODULE ForkServer -----------------------------
(***************************************************************************)
(* One execution of the target after another: run_target() of afl-fuzz     *)
(* (DAFL/afl-fuzz.c), the fork server that the target carries              *)
(* (DAFL/llvm_mode/afl-llvm-rt.o.c, DAFL/afl-as.h or, in QEMU,             *)
(* DAFL/qemu_mode/patches/afl-qemu-cpu-inl.h), the child that runs the     *)
(* input, the interval timer (SIGALRM) and Ctrl-C.  They communicate over  *)
(* two pipes and signals; in QEMU a third pipe tells the server what code  *)
(* a child has translated, so that later children need not.  Without a     *)
(* server (dumb mode, AFL_NO_FORKSRV) afl-fuzz starts the children itself. *)
(*                                                                         *)
(* A child goes from "running" to "stopped" (persistent mode) or to one of *)
(* the zombie states; waiting for a zombie frees its pid.                  *)
(***************************************************************************)
EXTENDS Integers, Sequences, FiniteSets

CONSTANTS
  NumPids,     \* bound: pids the kernel gives to the children of the server
  Flavours,    \* what kinds of targets there are
  Code,        \* blocks of the target, for QEMU
  PipeSize,    \* bound: requests that the third pipe holds
  max_cnt      \* the argument of __AFL_LOOP

ASSUME ConstantsAssumption ==
  /\ NumPids \in Nat \ {0}
  /\ Flavours \subseteq {"llvm", "persistent", "as32", "as64", "qemu", "direct"}
  /\ PipeSize \in Nat \ {0} /\ max_cnt \in Nat \ {0}

(***************************************************************************)
(* The servers do the same thing in the same order, except that:           *)
(*   untraced: waitpid() also returns for a child that has stopped;        *)
(*   checked:  a server whose write fails exits;                           *)
(*   mirrors:  it translates what its child has translated.                *)
(***************************************************************************)
llvm_server       == [untraced |-> FALSE, checked |-> TRUE,  mirrors |-> FALSE]
persistent_server == [untraced |-> TRUE,  checked |-> TRUE,  mirrors |-> FALSE]
as32_server       == [untraced |-> FALSE, checked |-> FALSE, mirrors |-> FALSE]
as64_server       == [untraced |-> FALSE, checked |-> FALSE, mirrors |-> FALSE]
qemu_server       == [untraced |-> FALSE, checked |-> TRUE,  mirrors |-> TRUE]

ServerOf ==
  [llvm |-> llvm_server, persistent |-> persistent_server, as32 |-> as32_server,
   as64 |-> as64_server, qemu |-> qemu_server]

Pids    == 1 .. NumPids
Zombies == {"exited", "crashed", "killed", "unexecuted"}

VARIABLES
  (* afl-fuzz *)
  fpc,
  child_pid,        \* -1 before the first run, 0 if there is no child
  child_timed_out,
  prev_timed_out,
  timer,            \* ITIMER_REAL is running
  status,           \* what run_target() read last
  fault,            \* what it returned last
  stop_soon,
  (* the pipes *)
  ctl, st,
  (* the fork server *)
  spc,
  srv_child,        \* its child_pid; without a server, what fork() returned
  srv_status,       \* its status
  was_killed,
  child_stopped,
  (* the kernel *)
  child,            \* the state of the process with a given pid
  (* the target *)
  flavour,          \* persistent: it runs several inputs per process (__AFL_LOOP)
  tsl,              \* QEMU: the pipe from the child to the server
  srv_cache,        \* the code the server has translated
  child_cache,      \* and its last child
  where,            \* where the child is: "exec", "before", in the "body" of or "after"
                    \* its loop; a target that has none consists of the body
  cycle_cnt,
  (* the shared memory *)
  round,            \* which call of run_target() this is, modulo 2
  maps              \* which code of which round has left hits in it

fuzzVars == <<child_pid, child_timed_out, prev_timed_out, timer, status, fault>>
srvVars  == <<srv_child, srv_status, was_killed, child_stopped>>
qemuVars == <<flavour, tsl, srv_cache, child_cache>>
loopVars == <<where, cycle_cnt>>
memVars  == <<round, maps>>
tgtVars  == <<qemuVars, loopVars, memVars>>
vars == <<fpc, fuzzVars, stop_soon, ctl, st, spc, srvVars, child, tgtVars>>

PidMsg(p)    == [kind |-> "pid", pid |-> p, status |-> "none"]
StatusMsg(s) == [kind |-> "status", pid |-> 0, status |-> s]
Hello        == [kind |-> "hello", pid |-> 0, status |-> "none"]

Init ==
  /\ flavour \in Flavours
  /\ fpc = IF flavour = "direct" THEN "idle" ELSE "init"
  /\ child_pid = -1
  /\ child_timed_out = FALSE /\ prev_timed_out = FALSE
  /\ timer = (flavour # "direct")
  /\ status = "none" /\ fault = "none"
  /\ stop_soon = FALSE
  /\ ctl = <<>> /\ st = <<>>
  /\ spc = IF flavour = "direct" THEN "dead" ELSE "hello"
  /\ srv_child = 0 /\ srv_status = "none"
  /\ was_killed = FALSE /\ child_stopped = FALSE
  /\ child = [p \in Pids |-> "free"]
  /\ tsl = <<>> /\ srv_cache = {} /\ child_cache = {}
  /\ where = "before" /\ cycle_cnt = 0
  /\ round = 0 /\ maps = {}

-----------------------------------------------------------------------------
(* afl-fuzz.                                                               *)

\* The write end of the status pipe is closed and everything has been read.
Eof == spc = "dead" /\ st = <<>>

\* A failed read or write: return if the user asked to stop, else give up.
pipe_fails ==
  /\ fpc' = IF stop_soon THEN "returned" ELSE "fatal"
  /\ UNCHANGED <<tgtVars, fuzzVars, stop_soon, ctl, st, spc, srvVars, child>>

\* init_forkserver(), once the server is started and the timer runs.
init_forkserver ==
  /\ fpc = "init"
  /\ \/ /\ st # <<>>
        /\ st' = Tail(st)
        /\ fpc' = "init_disarm"
     \/ /\ Eof
        /\ fpc' = "fatal"
        /\ UNCHANGED st
  /\ UNCHANGED <<tgtVars, fuzzVars, stop_soon, ctl, spc, srvVars, child>>

init_disarm ==
  /\ fpc = "init_disarm"
  /\ timer' = FALSE
  /\ fpc' = "idle"
  /\ UNCHANGED <<tgtVars, child_pid, child_timed_out, prev_timed_out, status, fault,
                 stop_soon, ctl, st, spc, srvVars, child>>

\* The shared memory is cleared here, too.
run_target ==
  /\ fpc = "idle"
  /\ child_timed_out' = FALSE
  /\ round' = 1 - round /\ maps' = {}
  /\ fpc' = "request"
  /\ UNCHANGED <<qemuVars, loopVars, child_pid, prev_timed_out, timer, status, fault,
                 stop_soon, ctl, st, spc, srvVars, child>>

request ==
  /\ fpc = "request" /\ flavour # "direct"
  /\ \/ /\ spc # "dead"
        /\ ctl' = Append(ctl, prev_timed_out)
        /\ fpc' = "read_pid"
        /\ UNCHANGED <<tgtVars, fuzzVars, stop_soon, st, spc, srvVars, child>>
     \/ spc = "dead" /\ pipe_fails

read_pid ==
  /\ fpc = "read_pid"
  /\ \/ /\ st # <<>>
        /\ child_pid' = Head(st).pid
        /\ st' = Tail(st)
        /\ fpc' = IF child_pid' > 0 THEN "arm" ELSE "fatal"
        /\ UNCHANGED <<tgtVars, child_timed_out, prev_timed_out, timer, status, fault,
                       stop_soon, ctl, spc, srvVars, child>>
     \/ Eof /\ pipe_fails

\* Without a server.
fork_child ==
  /\ fpc = "request" /\ flavour = "direct"
  /\ \E p \in Pids :
        /\ child[p] = "free"
        /\ child' = [child EXCEPT ![p] = "running"]
        /\ srv_child' = p
  /\ where' = "exec" /\ fpc' = "forked"
  /\ UNCHANGED <<qemuVars, cycle_cnt, memVars, fuzzVars, stop_soon, ctl, st, spc,
                 srv_status, was_killed, child_stopped>>

store_pid ==
  /\ fpc = "forked"
  /\ child_pid' = srv_child
  /\ fpc' = "arm"
  /\ UNCHANGED <<tgtVars, child_timed_out, prev_timed_out, timer, status, fault,
                 stop_soon, ctl, st, spc, srvVars, child>>

arm ==
  /\ fpc = "arm"
  /\ timer' = TRUE
  /\ fpc' = IF flavour = "direct" THEN "wait_child" ELSE "read_status"
  /\ UNCHANGED <<tgtVars, child_pid, child_timed_out, prev_timed_out, status, fault,
                 stop_soon, ctl, st, spc, srvVars, child>>

read_status ==
  /\ fpc = "read_status"
  /\ \/ /\ st # <<>>
        /\ status' = Head(st).status
        /\ st' = Tail(st)
        /\ fpc' = "clear_pid"
        /\ UNCHANGED <<tgtVars, child_pid, child_timed_out, prev_timed_out, timer,
                       fault, stop_soon, ctl, spc, srvVars, child>>
     \/ Eof /\ pipe_fails

wait_child ==
  /\ fpc = "wait_child"
  /\ child[child_pid] \in Zombies
  /\ status' = child[child_pid]
  /\ child' = [child EXCEPT ![child_pid] = "free"]
  /\ fpc' = "clear_pid"
  /\ UNCHANGED <<tgtVars, child_pid, child_timed_out, prev_timed_out, timer, fault,
                 stop_soon, ctl, st, spc, srvVars>>

clear_pid ==
  /\ fpc = "clear_pid"
  /\ child_pid' = IF status = "stopped" THEN child_pid ELSE 0
  /\ fpc' = "disarm"
  /\ UNCHANGED <<tgtVars, child_timed_out, prev_timed_out, timer, status, fault,
                 stop_soon, ctl, st, spc, srvVars, child>>

\* The outcome; without the timer child_timed_out does not change any more.  A
\* child that could not become the target leaves a mark in trace_bits.
Outcome ==
  IF status \in {"crashed", "killed"} /\ ~stop_soon
  THEN IF child_timed_out /\ status = "killed" THEN "tmout" ELSE "crash"
  ELSE IF status = "unexecuted" THEN "error" ELSE "none"

disarm ==
  /\ fpc = "disarm"
  /\ timer' = FALSE
  /\ prev_timed_out' = child_timed_out
  /\ fault' = Outcome
  /\ fpc' = "returned"
  /\ UNCHANGED <<tgtVars, child_pid, child_timed_out, status, stop_soon, ctl, st, spc,
                 srvVars, child>>

\* The callers look at stop_soon after every run.
after_run ==
  /\ fpc = "returned"
  /\ fpc' = IF stop_soon THEN "exit" ELSE "idle"
  /\ UNCHANGED <<tgtVars, fuzzVars, stop_soon, ctl, st, spc, srvVars, child>>

-----------------------------------------------------------------------------
(* Signals.                                                                *)

\* SIGKILL ends a process that runs or is stopped.
Kill(p) == IF child[p] \in {"running", "stopped"}
           THEN [child EXCEPT ![p] = "killed"] ELSE child

Gone == fpc \in {"exit", "fatal", "killed"}

handle_timeout ==
  /\ timer /\ ~Gone
  /\ timer' = FALSE
  /\ \/ /\ child_pid > 0
        /\ child_timed_out' = TRUE
        /\ child' = Kill(child_pid)
        /\ UNCHANGED spc
     \/ /\ child_pid = -1
        /\ child_timed_out' = TRUE
        /\ spc' = "dead"
        /\ UNCHANGED child
     \/ /\ child_pid = 0
        /\ UNCHANGED <<child_timed_out, spc, child>>
  /\ UNCHANGED <<tgtVars, fpc, child_pid, prev_timed_out, status, fault, stop_soon, ctl,
                 st, srvVars>>

KillAll ==
  /\ stop_soon' = TRUE
  /\ child' = IF child_pid > 0 THEN Kill(child_pid) ELSE child
  /\ spc' = "dead"

handle_stop_sig ==
  /\ ~stop_soon /\ ~Gone
  /\ KillAll
  /\ UNCHANGED <<tgtVars, fpc, fuzzVars, ctl, st, srvVars>>

\* main() stops by itself between two runs.
stop_programmatically ==
  /\ fpc = "idle" /\ ~stop_soon
  /\ KillAll
  /\ fpc' = "exit"
  /\ UNCHANGED <<tgtVars, fuzzVars, ctl, st, srvVars>>

\* afl-fuzz itself is killed; its timer and its ends of the pipes go with it.
fuzzer_dies ==
  /\ ~Gone
  /\ fpc' = "killed" /\ timer' = FALSE
  /\ UNCHANGED <<tgtVars, child_pid, child_timed_out, prev_timed_out, status, fault,
                 stop_soon, ctl, st, spc, srvVars, child>>

-----------------------------------------------------------------------------
(* The fork server.                                                        *)

\* If nobody listens the target is an ordinary program.
srv_hello ==
  /\ spc = "hello"
  /\ st' = IF Gone THEN st ELSE Append(st, Hello)
  /\ spc' = IF Gone THEN "dead" ELSE "read"
  /\ UNCHANGED <<tgtVars, fpc, fuzzVars, stop_soon, ctl, srvVars, child>>

srv_read ==
  /\ spc = "read"
  /\ \/ /\ ctl # <<>>
        /\ was_killed' = Head(ctl)
        /\ ctl' = Tail(ctl)
        /\ spc' = "woken"
     \/ /\ ctl = <<>> /\ Gone
        /\ spc' = "dead"
        /\ UNCHANGED <<was_killed, ctl>>
  /\ UNCHANGED <<tgtVars, fpc, fuzzVars, stop_soon, st, srv_child, srv_status,
                 child_stopped, child>>

\* Mutant: the killed child is not waited for.
srv_write_off_no_wait ==
  /\ spc = "woken"
  /\ child_stopped /\ was_killed
  /\ child_stopped' = FALSE
  /\ spc' = "fork"
  /\ UNCHANGED <<tgtVars, fpc, fuzzVars, stop_soon, ctl, st, srv_child, srv_status,
                 was_killed, child>>

\* A stopped child that afl-fuzz killed after all has to be written off.
srv_write_off ==
  /\ spc = "woken"
  /\ child_stopped /\ was_killed
  /\ child_stopped' = FALSE
  /\ spc' = "reap"
  /\ UNCHANGED <<tgtVars, fpc, fuzzVars, stop_soon, ctl, st, srv_child, srv_status,
                 was_killed, child>>

srv_reap ==
  /\ spc = "reap"
  /\ child[srv_child] \in Zombies
  /\ child' = [child EXCEPT ![srv_child] = "free"]
  /\ spc' = "fork"
  /\ UNCHANGED <<tgtVars, fpc, fuzzVars, stop_soon, ctl, st, srvVars>>

srv_fork ==
  /\ spc = "fork" \/ (spc = "woken" /\ ~child_stopped)
  /\ \E p \in Pids :
        /\ child[p] = "free"
        /\ child' = [child EXCEPT ![p] = "running"]
        /\ srv_child' = p
  /\ tsl' = <<>> /\ child_cache' = srv_cache
  /\ where' = (IF flavour = "persistent" THEN "before" ELSE "body") /\ cycle_cnt' = 0
  /\ spc' = "send_pid"
  /\ UNCHANGED <<flavour, srv_cache, memVars, fpc, fuzzVars, stop_soon, ctl, st,
                 srv_status, was_killed, child_stopped>>

\* Mutant: the child is resumed although afl-fuzz killed it.
srv_resume_killed ==
  /\ spc = "woken"
  /\ child_stopped
  /\ child' = IF child[srv_child] = "stopped"
              THEN [child EXCEPT ![srv_child] = "running"] ELSE child
  /\ child_stopped' = FALSE
  /\ spc' = "send_pid"
  /\ UNCHANGED <<tgtVars, fpc, fuzzVars, stop_soon, ctl, st, srv_child, srv_status,
                 was_killed>>

srv_resume ==
  /\ spc = "woken"
  /\ child_stopped /\ ~was_killed
  /\ child' = IF child[srv_child] = "stopped"
              THEN [child EXCEPT ![srv_child] = "running"] ELSE child
  /\ child_stopped' = FALSE
  /\ spc' = "send_pid"
  /\ UNCHANGED <<tgtVars, fpc, fuzzVars, stop_soon, ctl, st, srv_child, srv_status,
                 was_killed>>

Server == ServerOf[flavour]

\* A write fails once afl-fuzz is gone.
Send(msg, next) ==
  /\ st' = IF Gone THEN st ELSE Append(st, msg)
  /\ spc' = IF Gone /\ Server.checked THEN "dead" ELSE next

srv_send_pid ==
  /\ spc = "send_pid"
  /\ Send(PidMsg(srv_child), IF Server.mirrors THEN "tsl" ELSE "wait")
  /\ UNCHANGED <<tgtVars, fpc, fuzzVars, stop_soon, ctl, srvVars, child>>

Running == child[srv_child] \in {"running", "stopped"}

\* Mutant: an empty pipe is taken for a broken one.
afl_wait_tsl_nonblocking ==
  /\ spc = "tsl"
  /\ IF tsl # <<>>
       THEN srv_cache' = srv_cache \cup {Head(tsl)} /\ tsl' = Tail(tsl) /\ UNCHANGED spc
       ELSE spc' = "wait" /\ UNCHANGED <<srv_cache, tsl>>
  /\ UNCHANGED <<flavour, child_cache, loopVars, memVars, fpc, fuzzVars, stop_soon, ctl,
                 st, srvVars, child>>

\* QEMU: the server translates what the child has translated, until the death of
\* the child breaks the pipe.
afl_wait_tsl ==
  /\ spc = "tsl"
  /\ \/ /\ tsl # <<>>
        /\ srv_cache' = srv_cache \cup {Head(tsl)} /\ tsl' = Tail(tsl) /\ UNCHANGED spc
     \/ /\ tsl = <<>> /\ ~Running
        /\ spc' = "wait" /\ UNCHANGED <<srv_cache, tsl>>
  /\ UNCHANGED <<flavour, child_cache, loopVars, memVars, fpc, fuzzVars, stop_soon, ctl,
                 st, srvVars, child>>

\* Mutant: the server does not wait for the child to change its state.
srv_wait_nohang ==
  /\ spc = "wait"
  /\ srv_status' = IF child[srv_child] = "running" THEN "exited" ELSE child[srv_child]
  /\ child_stopped' = (child[srv_child] = "stopped")
  /\ child' = IF child[srv_child] \in {"stopped", "running"}
              THEN child ELSE [child EXCEPT ![srv_child] = "free"]
  /\ spc' = "send_status"
  /\ UNCHANGED <<tgtVars, fpc, fuzzVars, stop_soon, ctl, st, srv_child, was_killed>>

srv_wait ==
  /\ spc = "wait"
  /\ child[srv_child] \in Zombies \cup (IF Server.untraced THEN {"stopped"} ELSE {})
  /\ srv_status' = child[srv_child]
  /\ child_stopped' = (child[srv_child] = "stopped")
  /\ child' = IF child[srv_child] = "stopped"
              THEN child ELSE [child EXCEPT ![srv_child] = "free"]
  /\ spc' = "send_status"
  /\ UNCHANGED <<tgtVars, fpc, fuzzVars, stop_soon, ctl, st, srv_child, was_killed>>

srv_send_status ==
  /\ spc = "send_status"
  /\ Send(StatusMsg(srv_status), "read")
  /\ UNCHANGED <<tgtVars, fpc, fuzzVars, stop_soon, ctl, srvVars, child>>

\* afl_request_tsl(): the child comes to code that is not translated yet.  It
\* waits while the pipe is full, and carries on if there is no server.
afl_request_tsl ==
  /\ flavour = "qemu" /\ srv_child # 0 /\ child[srv_child] = "running"
  /\ \E b \in Code \ child_cache :
       /\ child_cache' = child_cache \cup {b}
       /\ \/ spc = "dead" /\ UNCHANGED tsl
          \/ spc # "dead" /\ Len(tsl) < PipeSize /\ tsl' = Append(tsl, b)
  /\ UNCHANGED <<flavour, srv_cache, loopVars, memVars, fpc, fuzzVars, stop_soon, ctl,
                 st, spc, srvVars, child>>

\* Instrumented code leaves its hits in the shared memory.
trace ==
  /\ \E p \in Pids : child[p] = "running"
  /\ where \in {"before", "body"}
  /\ maps' = maps \cup {[code |-> where, round |-> round]}
  /\ UNCHANGED <<qemuVars, loopVars, round, fpc, fuzzVars, stop_soon, ctl, st, spc,
                 srvVars, child>>

\* The child comes to __AFL_LOOP: the first time it erases what happened before,
\* later it stops itself to wait for the next input, and in the end it goes on with
\* dummy maps.
afl_persistent_loop ==
  /\ flavour = "persistent"
  /\ \E p \in Pids :
        /\ child[p] = "running"
        /\ \/ /\ where = "before"
              /\ where' = "body" /\ cycle_cnt' = max_cnt /\ maps' = {} /\ UNCHANGED child
           \/ /\ where = "body" /\ cycle_cnt > 1
              /\ cycle_cnt' = cycle_cnt - 1
              /\ child' = [child EXCEPT ![p] = "stopped"] /\ UNCHANGED <<where, maps>>
           \/ /\ where = "body" /\ cycle_cnt = 1
              /\ cycle_cnt' = 0 /\ where' = "after" /\ UNCHANGED <<maps, child>>
  /\ UNCHANGED <<qemuVars, round, fpc, fuzzVars, stop_soon, ctl, st, spc, srvVars>>

\* Without a server: the child becomes the target, or it cannot.
execv ==
  /\ where = "exec"
  /\ \E p \in Pids :
        /\ child[p] = "running"
        /\ \/ where' = "body" /\ UNCHANGED child
           \/ child' = [child EXCEPT ![p] = "unexecuted"] /\ UNCHANGED where
  /\ UNCHANGED <<qemuVars, cycle_cnt, memVars, fpc, fuzzVars, stop_soon, ctl, st, spc,
                 srvVars>>

\* The child finishes or crashes, or it does not.
child_step ==
  /\ where # "exec"
  /\ \E p \in Pids, s \in {"exited", "crashed"} :
        child[p] = "running" /\ child' = [child EXCEPT ![p] = s]
  /\ UNCHANGED <<tgtVars, fpc, fuzzVars, stop_soon, ctl, st, spc, srvVars>>

finished == Gone /\ UNCHANGED vars

Fuzzer ==
  \/ init_forkserver \/ init_disarm \/ run_target \/ request \/ read_pid
  \/ fork_child \/ store_pid \/ arm \/ read_status \/ wait_child
  \/ clear_pid \/ disarm \/ after_run

Serve ==
  \/ srv_hello \/ srv_read \/ srv_write_off \/ srv_reap \/ srv_fork \/ srv_resume
  \/ srv_send_pid \/ afl_wait_tsl \/ srv_wait \/ srv_send_status

Next ==
  \/ Fuzzer \/ Serve
  \/ handle_timeout \/ handle_stop_sig \/ stop_programmatically \/ fuzzer_dies
  \/ execv \/ trace \/ afl_persistent_loop \/ child_step \/ afl_request_tsl \/ finished

\* Both processes get to run and a running timer expires.  Nothing is assumed of
\* the child: it may hang.
Fairness == WF_vars(Fuzzer) /\ WF_vars(Serve) /\ WF_vars(handle_timeout)

Spec == Init /\ [][Next]_vars

FairSpec == Spec /\ Fairness

-----------------------------------------------------------------------------
(* Properties.                                                             *)

ChildStates == {"free", "running", "stopped"} \cup Zombies
Statuses    == {"none", "stopped"} \cup Zombies
Messages    == [kind : {"hello", "pid", "status"}, pid : 0 .. NumPids, status : Statuses]

FuzzerTypes ==
  /\ fpc \in {"init", "init_disarm", "idle", "request", "read_pid", "forked", "arm",
              "read_status", "wait_child", "clear_pid", "disarm", "returned", "exit",
              "fatal", "killed"}
  /\ child_pid \in -1 .. NumPids
  /\ status \in Statuses
  /\ fault \in {"none", "tmout", "crash", "error"}
FlagTypes ==
  /\ child_timed_out \in BOOLEAN /\ prev_timed_out \in BOOLEAN /\ timer \in BOOLEAN
  /\ stop_soon \in BOOLEAN /\ was_killed \in BOOLEAN /\ child_stopped \in BOOLEAN
PipeTypes ==
  /\ ctl \in Seq(BOOLEAN) /\ Len(ctl) <= 1
  /\ st \in Seq(Messages) /\ Len(st) <= 2
ServerTypes ==
  /\ spc \in {"hello", "read", "woken", "reap", "fork", "send_pid", "tsl",
              "wait", "send_status", "dead"}
  /\ srv_child \in 0 .. NumPids
  /\ srv_status \in Statuses
  /\ child \in [Pids -> ChildStates]
TargetTypes ==
  /\ flavour \in Flavours
  /\ tsl \in Seq(Code) /\ Len(tsl) <= PipeSize
  /\ srv_cache \subseteq Code /\ child_cache \subseteq Code
  /\ where \in {"exec", "before", "body", "after"} /\ cycle_cnt \in 0 .. max_cnt
  /\ round \in 0 .. 1 /\ maps \subseteq [code : {"before", "body"}, round : 0 .. 1]

\* Every variable has its type, and the pipes carry no more than what one run of
\* the target needs.
TypeOK == FuzzerTypes /\ FlagTypes /\ PipeTypes /\ ServerTypes /\ TargetTypes

\* From the moment run_target() has the status until it asks for the next run, no
\* child writes to trace_bits[] and dfg_bits[], and what afl-fuzz finds in them is
\* of this run only; if the target has run an input in its loop, it is of the loop
\* only, too.
TraceOfThisRun ==
  fpc \in {"clear_pid", "disarm", "returned", "idle", "request"} /\ ~stop_soon =>
    /\ \A p \in Pids : child[p] # "running"
    /\ \A h \in maps : h.round = round
    /\ status = "stopped" /\ fpc # "request" => \A h \in maps : h.code = "body"

\* How the run that afl-fuzz waits for has ended, wherever the news of it is: with
\* the child, the server, in the pipe or with run_target().
EndOfRun ==
  CASE fpc \in {"clear_pid", "disarm"}                           -> status
    [] flavour = "direct" ->
         IF fpc \in {"forked", "arm", "wait_child"} /\ child[srv_child] # "running"
         THEN child[srv_child] ELSE "none"
    [] fpc \in {"read_pid", "arm", "read_status"} /\ ctl = <<>> ->
         IF spc = "send_status" THEN srv_status
         ELSE IF st # <<>> /\ st[Len(st)].kind = "status" THEN st[Len(st)].status
         ELSE IF spc \in {"send_pid", "tsl", "wait"} /\ child[srv_child] # "running"
           THEN child[srv_child]
         ELSE "none"
    [] OTHER                                                     -> "none"

Failed == fpc = "fatal" /\ ~stop_soon
Over   == stop_soon \/ fpc \in {"exit", "killed"}

\* What TargetRunner sees of all this.
Caller ==
  IF Failed THEN "failed" ELSE IF Over THEN "over"
  ELSE CASE fpc \in {"init", "init_disarm"} -> "starting"
         [] fpc \in {"idle", "returned"}    -> "idle"
         [] OTHER                            -> "running"
HasBegun == child_pid # -1 /\ ~Over /\ ~Failed
End      == IF Over \/ Failed THEN "none" ELSE EndOfRun
Returned == IF Over \/ Failed THEN "none" ELSE fault

Runner == INSTANCE TargetRunner WITH
  caller <- Caller, begun <- HasBegun, end <- End, verdict <- Returned

\* Until the session is over, run_target() with its fork server, pipes, timer and
\* signals is the simple runner of TargetRunner: each call is one run of the target,
\* returns how that run (and no earlier one) ended, and does return; afl-fuzz gives
\* up on a target only if it never ran.
ImplementsRunner == Runner!FairSpec

\* The server has at most one child, zombies included, so that neither processes
\* nor pids leak however the timer races with the end of the run.
OneChild == Cardinality({p \in Pids : child[p] # "free"}) <= 1

\* When the server relays the end of a run it has translated all that the child
\* had, even if the child was killed: no later child does the work again.
TranslationsMirrored == spc = "send_status" => child_cache \subseteq srv_cache

=============================================================================
