-------------------------- MODULE ForkServerProofs --------------------------
(***************************************************************************)
(* Proofs about ForkServer: its type invariant, that there is never more   *)
(* than one child, that the shared memory afl-fuzz looks at is that of the *)
(* run it asked for, that the server in QEMU has translated what its child *)
(* has, and that run_target() implements the safety part of TargetRunner.  *)
(*                                                                         *)
(* The inductive invariant says, for each place where afl-fuzz is, where   *)
(* the server can be, what is in the two pipes and what the child can be   *)
(* doing.                                                                  *)
(***************************************************************************)
EXTENDS ForkServer, FiniteSetTheorems, SequenceTheorems, TLAPS

AllFree == \A p \in Pids : child[p] = "free"

\* A child that was killed and has not been waited for.
SomeKilled == \E p \in Pids : child[p] = "killed"

\* No process but the one that was forked last is left.
OnlyLast == \A p \in Pids : child[p] # "free" => p = srv_child

\* What the server knows of its child.
ServerKnows ==
  /\ spc \in {"hello", "fork"} => AllFree
  /\ spc \in {"hello", "reap", "fork", "send_pid", "tsl", "wait"} => ~child_stopped
  /\ spc \in {"reap", "send_pid", "tsl", "wait"} =>
       srv_child \in Pids /\ child[srv_child] # "free"
  /\ spc \in {"read", "woken", "send_status"} /\ ~child_stopped => AllFree
  /\ spc \in {"read", "woken", "send_status"} /\ child_stopped =>
       srv_child \in Pids /\ child[srv_child] \in {"stopped", "killed"}

\* It has reported that the child has stopped.
StopReported ==
  spc \in {"hello", "read", "send_status"} => (child_stopped <=> srv_status = "stopped")

\* Without a server afl-fuzz has a child from fork() to waitpid().
Direct ==
  flavour = "direct" =>
    /\ spc = "dead" /\ ctl = <<>> /\ st = <<>>
    /\ fpc \in {"idle", "request", "forked", "arm", "wait_child", "clear_pid", "disarm",
                "returned", "exit", "killed"}
    /\ fpc \in {"idle", "request", "clear_pid", "disarm", "returned"} => AllFree
    /\ fpc \in {"forked", "arm", "wait_child"} =>
         srv_child \in Pids /\ child[srv_child] # "free"
    /\ fpc \in {"arm", "wait_child"} => child_pid = srv_child
    /\ \A p \in Pids : child[p] # "stopped"
    /\ status # "stopped"

\* The protocol, step by step: where the server is while afl-fuzz is at fpc, and what
\* is in the pipes.
Quiet   == spc = "read" /\ ctl = <<>> /\ st = <<>>
RunSent == spc \in {"tsl", "wait", "send_status"} /\ ctl = <<>>
\* The server has waited for the child of this run.
Reported == spc \in {"send_status", "read"} /\ ctl = <<>>

Protocol ==
  flavour # "direct" /\ spc # "dead" /\ ~Gone =>
    /\ fpc \in {"init", "init_disarm", "idle", "request", "read_pid", "arm", "read_status",
                "clear_pid", "disarm", "returned"}
    /\ fpc = "init" =>
         /\ ctl = <<>>
         /\ \/ spc = "hello" /\ st = <<>>
            \/ spc = "read" /\ st = <<Hello>>
    /\ fpc \in {"init_disarm", "idle", "request", "clear_pid", "disarm", "returned"} => Quiet
    /\ fpc \in {"init", "init_disarm"} => ~child_stopped
    /\ fpc = "read_pid" =>
         \/ spc = "read" /\ ctl = <<prev_timed_out>> /\ st = <<>>
         \/ spc \in {"woken", "reap", "fork", "send_pid"} /\ ctl = <<>> /\ st = <<>>
         \/ RunSent /\ st = <<PidMsg(srv_child)>>
         \/ spc = "read" /\ ctl = <<>> /\ st = <<PidMsg(srv_child), StatusMsg(srv_status)>>
    /\ fpc = "read_pid" /\ spc = "woken" => was_killed = prev_timed_out
    /\ fpc = "read_pid" /\ st # <<>> => srv_child \in Pids
    /\ fpc \in {"arm", "read_status"} =>
         /\ child_pid = srv_child /\ srv_child \in Pids
         /\ \/ RunSent /\ st = <<>>
            \/ spc = "read" /\ ctl = <<>> /\ st = <<StatusMsg(srv_status)>>
    /\ fpc \in {"read_pid", "arm", "read_status"} /\ Reported => srv_status # "none"
    /\ fpc \in {"init", "init_disarm", "idle", "request", "clear_pid", "disarm", "returned"} =>
         status = srv_status

\* afl-fuzz has not seen a child run yet.
NotBegun == child_pid = -1 /\ status = "none"

\* The server only dies under afl-fuzz if it does not start up in time, or because the
\* user wants to stop.
Deaths ==
  /\ stop_soon => spc = "dead"
  /\ flavour # "direct" /\ spc = "dead" /\ ~Gone /\ ~stop_soon =>
       fpc \in {"init", "init_disarm", "idle", "request"} /\ NotBegun /\ AllFree

\* Which runs have begun.
Begun ==
  ~stop_soon =>
    /\ fpc \in {"init", "init_disarm"} => NotBegun
    /\ fpc = "clear_pid" => child_pid \in Pids
    /\ fpc = "disarm" => child_pid # -1
    /\ fpc \in {"clear_pid", "disarm"} => status # "none"

\* When the timer can expire.
TimerRuns ==
  timer /\ ~stop_soon /\ ~Gone =>
    fpc \in {"init", "init_disarm", "read_status", "wait_child", "clear_pid", "disarm"}

ControlInv ==
  /\ TypeOK /\ OnlyLast /\ ServerKnows /\ StopReported /\ Direct
  /\ Protocol /\ Deaths /\ Begun /\ TimerRuns

\* Who has left hits in the shared memory.
Hits ==
  /\ \A h \in maps : h.round = round
  /\ \A h \in maps : h.code = "body" \/ (flavour = "persistent" /\ where = "before")
  /\ flavour # "persistent" /\ where = "before" => AllFree
  /\ \A p \in Pids : child[p] = "stopped" => where = "body" /\ flavour = "persistent"
  /\ spc \in {"send_status", "read", "woken"} /\ child_stopped =>
       where = "body" /\ flavour = "persistent"

\* What the server has still to translate is in the pipe.
Translations ==
  /\ flavour # "qemu" => spc # "tsl" /\ child_cache = {} /\ srv_cache = {}
  /\ spc \in {"send_pid", "tsl"} =>
       \A b \in child_cache \ srv_cache : \E i \in 1 .. Len(tsl) : tsl[i] = b
  /\ spc = "wait" /\ flavour = "qemu" => child[srv_child] \in Zombies
  /\ spc \in {"wait", "send_status"} => child_cache \subseteq srv_cache

\* The timer only kills the child of the run for which it was set, and afl-fuzz knows
\* that it did.
Timing ==
  ~stop_soon /\ ~Gone =>
    /\ fpc \in {"request", "read_pid", "forked", "arm"} => ~child_timed_out
    /\ fpc \in {"forked", "arm"} => ~SomeKilled
    /\ fpc \in {"read_status", "wait_child", "clear_pid", "disarm"} /\ SomeKilled =>
         child_timed_out
    /\ fpc \in {"idle", "request", "returned"} /\ SomeKilled => prev_timed_out
    /\ fpc = "read_pid" /\ SomeKilled =>
         prev_timed_out /\ (spc \in {"woken", "reap"} \/ (spc = "read" /\ ctl # <<>>))
    /\ fpc \in {"read_pid", "arm", "read_status"} /\ Reported /\ srv_status = "killed" =>
         child_timed_out
    /\ fpc \in {"clear_pid", "disarm"} /\ status = "killed" => child_timed_out

IInv == ControlInv /\ Hits /\ Translations /\ Timing

-----------------------------------------------------------------------------
(* Servers and messages.                                                     *)

\* What the servers have in common, and what not.
LEMMA ServerFacts ==
  ASSUME flavour \in Flavours, flavour # "direct"
  PROVE  /\ Server.checked \in BOOLEAN
         /\ Server.mirrors <=> flavour = "qemu"
         /\ Server.untraced <=> flavour = "persistent"
<1>1. flavour \in {"llvm", "persistent", "as32", "as64", "qemu"}
  BY ConstantsAssumption
<1>2. CASE flavour = "llvm"
  BY <1>2 DEF Server, ServerOf, llvm_server
<1>3. CASE flavour = "persistent"
  BY <1>3 DEF Server, ServerOf, persistent_server
<1>4. CASE flavour = "as32"
  BY <1>4 DEF Server, ServerOf, as32_server
<1>5. CASE flavour = "as64"
  BY <1>5 DEF Server, ServerOf, as64_server
<1>6. CASE flavour = "qemu"
  BY <1>6 DEF Server, ServerOf, qemu_server
<1>7. QED
  BY <1>1, <1>2, <1>3, <1>4, <1>5, <1>6

\* The pipes hold at most two messages.
LEMMA OneMessage ==
  \A x : /\ <<x>> # <<>> /\ Len(<<x>>) = 1 /\ Head(<<x>>) = x /\ Tail(<<x>>) = <<>>
         /\ Append(<<>>, x) = <<x>>
OBVIOUS

\* The same for two.
LEMMA TwoMessages ==
  ASSUME NEW S, NEW x \in S, NEW y \in S
  PROVE  /\ Append(<<x>>, y) = <<x, y>> /\ Tail(<<x, y>>) = <<y>>
         /\ Head(<<x, y>>) = x /\ Len(<<x, y>>) = 2 /\ <<x, y>> # <<>>
<1> DEFINE s == Append(<<x>>, y)  t == <<x, y>>
<1>1. <<x>> \in Seq(S) /\ Len(<<x>>) = 1 /\ <<x>>[1] = x
  OBVIOUS
<1>2. s \in Seq(S) /\ Len(s) = 2 /\ s[1] = x /\ s[2] = y
  BY <1>1, AppendProperties
<1>3. /\ t \in Seq(S) /\ Len(t) = 2 /\ t[1] = x /\ t[2] = y
      /\ Tail(t) = <<y>> /\ Head(t) = x /\ t # <<>>
  OBVIOUS
<1> HIDE DEF s, t
<1>4. Len(s) = Len(t) /\ \A i \in 1 .. Len(s) : s[i] = t[i]
  BY <1>2, <1>3
<1>5. s = t
  BY <1>2, <1>3, <1>4, SeqEqual
<1>6. QED
  BY <1>3, <1>5 DEF s, t

\* What the messages say.
LEMMA MessageTypes ==
  /\ Hello \in Messages
  /\ \A p \in Pids : PidMsg(p) \in Messages /\ PidMsg(p).pid = p /\ PidMsg(p).kind = "pid"
  /\ \A s \in Statuses : StatusMsg(s) \in Messages /\ StatusMsg(s).status = s
                                                  /\ StatusMsg(s).kind = "status"
  /\ \A m \in Messages : m.pid \in 0 .. NumPids /\ m.status \in Statuses
BY ConstantsAssumption DEF Hello, PidMsg, StatusMsg, Messages, Statuses, Zombies, Pids

-----------------------------------------------------------------------------
(* The initial state and the steps, one lemma per part of the invariant.   *)

\* The invariant holds when the server has been started.
LEMMA InitIInv == Init => IInv
<1> SUFFICES ASSUME Init PROVE IInv
  OBVIOUS
<1> USE ConstantsAssumption DEF Init
<1>1. FuzzerTypes
  BY DEF FuzzerTypes, Statuses
<1>2. PipeTypes /\ ServerTypes /\ TargetTypes
  BY DEF PipeTypes, ServerTypes, TargetTypes, Statuses, ChildStates
<1>3. OnlyLast /\ ServerKnows /\ StopReported
  BY DEF OnlyLast, ServerKnows, StopReported, AllFree
<1>4. Direct /\ Protocol /\ Deaths /\ Begun /\ TimerRuns
  BY DEF Direct, Protocol, Reported, Deaths, Begun, TimerRuns, NotBegun, AllFree, Gone, Quiet
<1>5. Hits /\ Translations /\ Timing
  BY DEF Hits, Translations, Timing, Reported, AllFree, SomeKilled, Gone
<1>6. FlagTypes
  BY DEF FlagTypes
<1>7. QED
  BY <1>1, <1>2, <1>3, <1>4, <1>5, <1>6 DEF IInv, ControlInv, TypeOK

\* The types of the variables of afl-fuzz.
LEMMA FuzzerTypesStep ==
  ASSUME ControlInv, [Next]_vars
  PROVE  FuzzerTypes'
<1> USE DEF ControlInv, TypeOK, FuzzerTypes, PipeTypes, ServerTypes, Statuses,
    ChildStates, Zombies, Pids, fuzzVars, srvVars, qemuVars, loopVars, memVars, tgtVars,
    vars
<1>1. CASE init_forkserver \/ init_disarm \/ run_target \/ request \/ read_pid \/
           fork_child \/ store_pid
  BY <1>1, ConstantsAssumption, MessageTypes
  DEF init_forkserver, Eof, init_disarm, run_target, request, pipe_fails, read_pid,
      fork_child, store_pid
<1>2. CASE arm \/ read_status \/ wait_child \/ clear_pid \/ disarm \/ after_run
  BY <1>2, ConstantsAssumption, MessageTypes
  DEF arm, read_status, pipe_fails, Eof, wait_child, clear_pid, disarm, Outcome,
      after_run
<1>3. CASE srv_hello \/ srv_read \/ srv_write_off \/ srv_reap \/ srv_fork
  BY <1>3, ConstantsAssumption
  DEF srv_hello, srv_read, srv_write_off, srv_reap, srv_fork
<1>4. CASE srv_resume \/ srv_send_pid \/ afl_wait_tsl \/ srv_wait \/ srv_send_status
  BY <1>4, ConstantsAssumption
  DEF srv_resume, srv_send_pid, Send, afl_wait_tsl, Running, srv_wait, srv_send_status
<1>5. CASE handle_timeout \/ handle_stop_sig \/ stop_programmatically \/ fuzzer_dies
  BY <1>5, ConstantsAssumption
  DEF handle_timeout, Kill, handle_stop_sig, KillAll, stop_programmatically, fuzzer_dies
<1>6. CASE execv \/ trace \/ afl_persistent_loop \/ child_step \/ afl_request_tsl \/
           finished \/ UNCHANGED vars
  BY <1>6, ConstantsAssumption
  DEF execv, trace, afl_persistent_loop, child_step, afl_request_tsl, finished
<1>7. QED
  BY <1>1, <1>2, <1>3, <1>4, <1>5, <1>6 DEF Next, Fuzzer, Serve

\* The Boolean variables.
LEMMA FlagTypesStep ==
  ASSUME ControlInv, [Next]_vars
  PROVE  FlagTypes'
<1> USE DEF ControlInv, TypeOK, FlagTypes, PipeTypes, fuzzVars, srvVars, qemuVars,
    loopVars, memVars, tgtVars, vars
<1>1. CASE init_forkserver \/ init_disarm \/ run_target \/ request \/ read_pid \/
           fork_child \/ store_pid
  BY <1>1
  DEF init_forkserver, Eof, init_disarm, run_target, request, pipe_fails, read_pid,
      fork_child, store_pid
<1>2. CASE arm \/ read_status \/ wait_child \/ clear_pid \/ disarm \/ after_run
  BY <1>2
  DEF arm, read_status, pipe_fails, Eof, wait_child, clear_pid, disarm, Outcome,
      after_run
<1>3. CASE srv_hello \/ srv_read
  BY <1>3 DEF srv_hello, srv_read
<1>4. CASE srv_write_off \/ srv_reap \/ srv_fork
  BY <1>4 DEF srv_write_off, srv_reap, srv_fork
<1>5. CASE srv_resume \/ srv_send_pid \/ afl_wait_tsl \/ srv_wait \/ srv_send_status
  BY <1>5
  DEF srv_resume, srv_send_pid, Send, afl_wait_tsl, Running, srv_wait, srv_send_status
<1>6. CASE handle_timeout \/ handle_stop_sig \/ stop_programmatically \/ fuzzer_dies
  BY <1>6
  DEF handle_timeout, Kill, handle_stop_sig, KillAll, stop_programmatically, fuzzer_dies
<1>7. CASE execv \/ trace \/ afl_persistent_loop \/ child_step \/ afl_request_tsl \/
           finished \/ UNCHANGED vars
  BY <1>7 DEF execv, trace, afl_persistent_loop, child_step, afl_request_tsl, finished
<1>8. QED
  BY <1>1, <1>2, <1>3, <1>4, <1>5, <1>6, <1>7 DEF Next, Fuzzer, Serve

\* The types of the variables of the server, and the states of the processes.
LEMMA ServerTypesStep ==
  ASSUME ControlInv, [Next]_vars
  PROVE  ServerTypes'
<1> USE DEF ControlInv, TypeOK, ServerTypes, FuzzerTypes, Statuses, ChildStates,
    Zombies, Pids, Direct, fuzzVars, srvVars, qemuVars, loopVars, memVars, tgtVars, vars
<1>1. CASE init_forkserver \/ init_disarm \/ run_target \/ request \/ read_pid \/
           fork_child \/ store_pid
  BY <1>1, ConstantsAssumption
  DEF init_forkserver, Eof, init_disarm, run_target, request, pipe_fails, read_pid,
      fork_child, store_pid
<1>2. CASE arm \/ read_status \/ wait_child \/ clear_pid \/ disarm \/ after_run
  BY <1>2, ConstantsAssumption
  DEF arm, read_status, pipe_fails, Eof, wait_child, clear_pid, disarm, Outcome,
      after_run
<1>3. CASE srv_hello \/ srv_read \/ srv_write_off \/ srv_reap \/ srv_fork
  BY <1>3, ConstantsAssumption
  DEF srv_hello, srv_read, srv_write_off, srv_reap, ServerKnows, srv_fork
<1>4. CASE srv_resume \/ srv_send_pid \/ afl_wait_tsl \/ srv_wait \/ srv_send_status
  BY <1>4, ConstantsAssumption, ServerFacts
  DEF srv_resume, ServerKnows, srv_send_pid, Send, afl_wait_tsl, Running, srv_wait,
      srv_send_status
<1>5. CASE handle_timeout \/ handle_stop_sig \/ stop_programmatically \/ fuzzer_dies
  BY <1>5, ConstantsAssumption
  DEF handle_timeout, Kill, handle_stop_sig, KillAll, stop_programmatically, fuzzer_dies
<1>6. CASE execv \/ trace \/ afl_persistent_loop \/ child_step \/ afl_request_tsl \/
           finished \/ UNCHANGED vars
  BY <1>6, ConstantsAssumption
  DEF execv, trace, afl_persistent_loop, child_step, afl_request_tsl, finished
<1>7. QED
  BY <1>1, <1>2, <1>3, <1>4, <1>5, <1>6 DEF Next, Fuzzer, Serve

\* The types of the variables of the target.
LEMMA TargetTypesStep ==
  ASSUME ControlInv, [Next]_vars
  PROVE  TargetTypes'
<1> USE DEF ControlInv, TypeOK, TargetTypes, fuzzVars, srvVars, qemuVars, loopVars,
    memVars, tgtVars, vars
<1>1. CASE init_forkserver \/ init_disarm \/ run_target \/ request \/ read_pid \/
           fork_child \/ store_pid
  BY <1>1, ConstantsAssumption
  DEF init_forkserver, Eof, init_disarm, run_target, request, pipe_fails, read_pid,
      fork_child, store_pid
<1>2. CASE arm \/ read_status \/ wait_child \/ clear_pid \/ disarm \/ after_run
  BY <1>2, ConstantsAssumption
  DEF arm, read_status, pipe_fails, Eof, wait_child, clear_pid, disarm, Outcome,
      after_run
<1>3. CASE srv_hello \/ srv_read
  BY <1>3, ConstantsAssumption DEF srv_hello, srv_read
<1>4. CASE srv_write_off \/ srv_reap
  BY <1>4, ConstantsAssumption DEF srv_write_off, srv_reap
<1>5. CASE srv_fork
  BY <1>5, ConstantsAssumption DEF srv_fork
<1>6. CASE srv_resume \/ srv_send_pid \/ afl_wait_tsl \/ srv_wait \/ srv_send_status
  BY <1>6, ConstantsAssumption
  DEF srv_resume, srv_send_pid, Send, afl_wait_tsl, Running, srv_wait, srv_send_status
<1>7. CASE handle_timeout \/ handle_stop_sig \/ stop_programmatically \/ fuzzer_dies
  BY <1>7, ConstantsAssumption
  DEF handle_timeout, Kill, handle_stop_sig, KillAll, stop_programmatically, fuzzer_dies
<1>8. CASE execv \/ trace
  BY <1>8, ConstantsAssumption DEF execv, trace
<1>9. CASE afl_persistent_loop
  BY <1>9, ConstantsAssumption DEF afl_persistent_loop
<1>10. CASE child_step \/ afl_request_tsl \/ finished \/ UNCHANGED vars
  BY <1>10, ConstantsAssumption DEF child_step, afl_request_tsl, finished
<1>11. QED
  BY <1>1, <1>2, <1>3, <1>4, <1>5, <1>6, <1>7, <1>8, <1>9, <1>10 DEF Next, Fuzzer, Serve

\* The pipes are never fuller than the protocol needs.
LEMMA PipeTypesStep ==
  ASSUME ControlInv, [Next]_vars
  PROVE  PipeTypes'
<1> USE DEF ControlInv, TypeOK, PipeTypes, FlagTypes, ServerTypes, Protocol, Reported,
    Direct, Deaths, Gone, Quiet, RunSent, fuzzVars, srvVars, qemuVars, loopVars,
    memVars, tgtVars, vars
<1>1. CASE init_forkserver \/ init_disarm \/ run_target
  BY <1>1, OneMessage, MessageTypes DEF init_forkserver, Eof, init_disarm, run_target
<1>2. CASE request \/ read_pid
  BY <1>2, OneMessage, MessageTypes DEF request, pipe_fails, read_pid, Eof
<1>3. CASE fork_child \/ store_pid \/ arm
  BY <1>3, OneMessage, MessageTypes DEF fork_child, store_pid, arm
<1>4. CASE read_status \/ wait_child
  BY <1>4, OneMessage, MessageTypes DEF read_status, pipe_fails, Eof, wait_child
<1>5. CASE clear_pid \/ disarm \/ after_run
  BY <1>5, OneMessage, MessageTypes DEF clear_pid, disarm, Outcome, after_run
<1>6. CASE srv_hello \/ srv_read
  BY <1>6, OneMessage, MessageTypes DEF srv_hello, srv_read
<1>7. CASE srv_write_off \/ srv_reap \/ srv_fork
  BY <1>7, OneMessage, MessageTypes DEF srv_write_off, srv_reap, srv_fork
<1>8. CASE srv_resume \/ afl_wait_tsl \/ srv_wait
  BY <1>8, OneMessage, MessageTypes DEF srv_resume, afl_wait_tsl, Running, srv_wait
<1>9. CASE srv_send_pid
  BY <1>9, OneMessage, MessageTypes DEF srv_send_pid, Send, ServerKnows
<1>10. CASE srv_send_status
  BY <1>10, OneMessage, MessageTypes, TwoMessages DEF srv_send_status, Send, ServerKnows
<1>11. CASE handle_timeout \/ handle_stop_sig \/ stop_programmatically \/ fuzzer_dies
  BY <1>11, OneMessage, MessageTypes
  DEF handle_timeout, Kill, handle_stop_sig, KillAll, stop_programmatically, fuzzer_dies
<1>12. CASE execv \/ trace \/ afl_persistent_loop \/ child_step \/ afl_request_tsl \/
           finished \/ UNCHANGED vars
  BY <1>12, OneMessage, MessageTypes
  DEF execv, trace, afl_persistent_loop, child_step, afl_request_tsl, finished
<1>13. QED
  BY <1>1, <1>2, <1>3, <1>4, <1>5, <1>6, <1>7, <1>8, <1>9, <1>10, <1>11, <1>12 DEF Next, Fuzzer, Serve

\* A child is forked when there is no other.
LEMMA OnlyLastStep ==
  ASSUME ControlInv, [Next]_vars
  PROVE  OnlyLast'
<1> USE DEF ControlInv, TypeOK, FuzzerTypes, ServerTypes, OnlyLast, ServerKnows, Direct,
    AllFree, Pids, fuzzVars, srvVars, qemuVars, loopVars, memVars, tgtVars, vars
<1>1. CASE init_forkserver \/ init_disarm \/ run_target \/ request \/ read_pid \/
           fork_child \/ store_pid
  BY <1>1
  DEF init_forkserver, Eof, init_disarm, run_target, request, pipe_fails, read_pid,
      fork_child, store_pid
<1>2. CASE arm \/ read_status \/ wait_child \/ clear_pid \/ disarm \/ after_run
  BY <1>2
  DEF arm, read_status, pipe_fails, Eof, wait_child, clear_pid, disarm, Outcome,
      after_run
<1>3. CASE srv_hello \/ srv_read \/ srv_write_off \/ srv_reap \/ srv_fork
  BY <1>3 DEF srv_hello, srv_read, srv_write_off, srv_reap, srv_fork
<1>4. CASE srv_resume \/ srv_send_pid \/ afl_wait_tsl \/ srv_wait \/ srv_send_status
  BY <1>4
  DEF srv_resume, srv_send_pid, Send, afl_wait_tsl, Running, srv_wait, srv_send_status
<1>5. CASE handle_timeout \/ handle_stop_sig \/ stop_programmatically \/ fuzzer_dies
  BY <1>5
  DEF handle_timeout, Kill, handle_stop_sig, KillAll, stop_programmatically, fuzzer_dies
<1>6. CASE execv \/ trace \/ afl_persistent_loop \/ child_step \/ afl_request_tsl \/
           finished \/ UNCHANGED vars
  BY <1>6 DEF execv, trace, afl_persistent_loop, child_step, afl_request_tsl, finished
<1>7. QED
  BY <1>1, <1>2, <1>3, <1>4, <1>5, <1>6 DEF Next, Fuzzer, Serve

\* The server follows the state of its child.
LEMMA ServerKnowsStep ==
  ASSUME ControlInv, [Next]_vars
  PROVE  ServerKnows'
<1> USE DEF ControlInv, ServerKnows, AllFree, fuzzVars, srvVars, qemuVars, loopVars,
    memVars, tgtVars, vars
<1>1. CASE init_forkserver \/ init_disarm \/ run_target \/ request \/ read_pid \/
           fork_child \/ store_pid
  BY <1>1
  DEF Direct, Protocol, Reported, Gone, init_forkserver, Eof, init_disarm, run_target,
      request, pipe_fails, read_pid, fork_child, store_pid
<1>2. CASE arm \/ read_status \/ wait_child \/ clear_pid \/ disarm \/ after_run
  BY <1>2
  DEF Direct, Protocol, Reported, Gone, arm, read_status, pipe_fails, Eof, wait_child,
      clear_pid, disarm, Outcome, after_run
<1>3. CASE srv_hello \/ srv_read \/ srv_write_off
  BY <1>3 DEF srv_hello, srv_read, srv_write_off
<1>4. CASE srv_reap
  BY <1>4 DEF TypeOK, ServerTypes, OnlyLast, Zombies, Pids, srv_reap
<1>5. CASE srv_fork
  BY <1>5 DEF TypeOK, ServerTypes, OnlyLast, Zombies, Pids, srv_fork
<1>6. CASE srv_resume
  BY <1>6 DEF TypeOK, ServerTypes, OnlyLast, Zombies, Pids, srv_resume
<1>7. CASE srv_send_pid
  BY <1>7 DEF TypeOK, ServerTypes, OnlyLast, Zombies, Pids, srv_send_pid, Send
<1>8. CASE srv_send_status
  BY <1>8 DEF TypeOK, ServerTypes, OnlyLast, Zombies, Pids, srv_send_status, Send
<1>9. CASE srv_wait
  BY <1>9 DEF TypeOK, ServerTypes, OnlyLast, Zombies, Pids, srv_wait
<1>10. CASE handle_timeout
  BY <1>10 DEF TypeOK, FuzzerTypes, ServerTypes, Pids, handle_timeout, Kill
<1>11. CASE handle_stop_sig \/ stop_programmatically
  BY <1>11
  DEF TypeOK, FuzzerTypes, ServerTypes, Pids, handle_stop_sig, KillAll, Kill,
      stop_programmatically
<1>12. CASE afl_wait_tsl \/ fuzzer_dies \/ trace \/ afl_request_tsl \/ finished \/
           UNCHANGED vars
  BY <1>12 DEF afl_wait_tsl, Running, fuzzer_dies, trace, afl_request_tsl, finished
<1>13. CASE execv
  BY <1>13 DEF TypeOK, ServerTypes, Pids, OnlyLast, execv
<1>14. CASE afl_persistent_loop
  BY <1>14 DEF TypeOK, ServerTypes, Pids, OnlyLast, afl_persistent_loop
<1>15. CASE child_step
  BY <1>15 DEF TypeOK, ServerTypes, Pids, OnlyLast, child_step
<1>16. QED
  BY <1>1, <1>2, <1>3, <1>4, <1>5, <1>6, <1>7, <1>8, <1>9, <1>10, <1>11, <1>12, <1>13,
    <1>14, <1>15 DEF Next, Fuzzer, Serve

\* A server knows that its child has stopped if it has said so.
LEMMA StopReportedStep ==
  ASSUME ControlInv, [Next]_vars
  PROVE  StopReported'
<1> USE DEF ControlInv, TypeOK, FlagTypes, ServerTypes, ServerKnows, StopReported,
    Zombies, fuzzVars, srvVars, qemuVars, loopVars, memVars, tgtVars, vars
<1>1. CASE init_forkserver \/ init_disarm \/ run_target \/ request \/ read_pid \/
           fork_child \/ store_pid
  BY <1>1
  DEF init_forkserver, Eof, init_disarm, run_target, request, pipe_fails, read_pid,
      fork_child, store_pid
<1>2. CASE arm \/ read_status \/ wait_child \/ clear_pid \/ disarm \/ after_run
  BY <1>2
  DEF arm, read_status, pipe_fails, Eof, wait_child, clear_pid, disarm, Outcome,
      after_run
<1>3. CASE srv_hello \/ srv_read \/ srv_write_off \/ srv_reap \/ srv_fork
  BY <1>3 DEF srv_hello, srv_read, srv_write_off, srv_reap, srv_fork
<1>4. CASE srv_resume \/ srv_send_pid \/ afl_wait_tsl \/ srv_wait \/ srv_send_status
  BY <1>4
  DEF srv_resume, srv_send_pid, Send, afl_wait_tsl, Running, srv_wait, srv_send_status
<1>5. CASE handle_timeout \/ handle_stop_sig \/ stop_programmatically \/ fuzzer_dies
  BY <1>5
  DEF handle_timeout, Kill, handle_stop_sig, KillAll, stop_programmatically, fuzzer_dies
<1>6. CASE execv \/ trace \/ afl_persistent_loop \/ child_step \/ afl_request_tsl \/
           finished \/ UNCHANGED vars
  BY <1>6 DEF execv, trace, afl_persistent_loop, child_step, afl_request_tsl, finished
<1>7. QED
  BY <1>1, <1>2, <1>3, <1>4, <1>5, <1>6 DEF Next, Fuzzer, Serve

\* The runs without a server.
LEMMA DirectStep ==
  ASSUME ControlInv, [Next]_vars
  PROVE  Direct'
<1> USE DEF ControlInv, TypeOK, FuzzerTypes, ServerTypes, OnlyLast, Direct, AllFree,
    Zombies, Pids, fuzzVars, srvVars, qemuVars, loopVars, memVars, tgtVars, vars
<1>1. CASE init_forkserver \/ init_disarm \/ run_target \/ request \/ read_pid \/
           fork_child \/ store_pid
  BY <1>1
  DEF init_forkserver, Eof, init_disarm, run_target, request, pipe_fails, read_pid,
      fork_child, store_pid
<1>2. CASE arm \/ read_status \/ wait_child \/ clear_pid \/ disarm \/ after_run
  BY <1>2
  DEF arm, read_status, pipe_fails, Eof, wait_child, clear_pid, disarm, Outcome,
      after_run
<1>3. CASE srv_hello \/ srv_read \/ srv_write_off \/ srv_reap \/ srv_fork
  BY <1>3 DEF srv_hello, srv_read, srv_write_off, srv_reap, srv_fork
<1>4. CASE srv_resume \/ srv_send_pid \/ afl_wait_tsl \/ srv_wait \/ srv_send_status
  BY <1>4
  DEF srv_resume, srv_send_pid, Send, afl_wait_tsl, Running, srv_wait, srv_send_status
<1>5. CASE handle_timeout \/ handle_stop_sig \/ stop_programmatically \/ fuzzer_dies
  BY <1>5
  DEF handle_timeout, Kill, handle_stop_sig, KillAll, stop_programmatically, fuzzer_dies
<1>6. CASE execv \/ trace \/ afl_persistent_loop \/ child_step \/ afl_request_tsl \/
           finished \/ UNCHANGED vars
  BY <1>6 DEF execv, trace, afl_persistent_loop, child_step, afl_request_tsl, finished
<1>7. QED
  BY <1>1, <1>2, <1>3, <1>4, <1>5, <1>6 DEF Next, Fuzzer, Serve

\* afl-fuzz reads the status of the child.
LEMMA ProtocolReadStatus ==
  ASSUME ControlInv, read_status
  PROVE  Protocol'
<1> SUFFICES ASSUME flavour # "direct", spc # "dead" PROVE Protocol'
  BY DEF Protocol, Reported, read_status, pipe_fails, tgtVars, qemuVars
<1>1. /\ st # <<>> /\ status' = Head(st).status /\ st' = Tail(st) /\ fpc' = "clear_pid"
      /\ UNCHANGED <<ctl, spc, srv_status, srv_child>>
  BY DEF read_status, Eof, srvVars
<1>2. spc = "read" /\ ctl = <<>> /\ st = <<StatusMsg(srv_status)>>
  BY <1>1 DEF ControlInv, Protocol, Reported, read_status, Gone
<1>3. status' = srv_status /\ st' = <<>>
  BY <1>1, <1>2, OneMessage, MessageTypes DEF ControlInv, TypeOK, ServerTypes
<1>4. QED
  BY <1>1, <1>2, <1>3 DEF Protocol, Reported, Quiet

\* afl-fuzz reads the pid of the child.
LEMMA ProtocolReadPid ==
  ASSUME ControlInv, read_pid
  PROVE  Protocol'
<1> SUFFICES ASSUME flavour # "direct", spc # "dead" PROVE Protocol'
  BY DEF Protocol, Reported, read_pid, pipe_fails, tgtVars, qemuVars
<1>1. /\ st # <<>> /\ child_pid' = Head(st).pid /\ st' = Tail(st)
      /\ fpc' = IF child_pid' > 0 THEN "arm" ELSE "fatal"
      /\ UNCHANGED <<ctl, spc, srv_status, srv_child>>
  BY DEF read_pid, Eof, srvVars
<1>2. /\ srv_child \in Pids /\ ctl = <<>>
      /\ \/ RunSent /\ st = <<PidMsg(srv_child)>>
         \/ spc = "read" /\ st = <<PidMsg(srv_child), StatusMsg(srv_status)>>
  BY <1>1 DEF ControlInv, Protocol, Reported, read_pid, Gone, RunSent
<1>3. PidMsg(srv_child) \in Messages /\ StatusMsg(srv_status) \in Messages
  BY <1>2, MessageTypes DEF ControlInv, TypeOK, ServerTypes
<1>4. /\ child_pid' = srv_child
      /\ \/ RunSent /\ st' = <<>>
         \/ spc = "read" /\ st' = <<StatusMsg(srv_status)>>
  <2>1. PidMsg(srv_child).pid = srv_child
    BY <1>2, MessageTypes
  <2>2. CASE RunSent /\ st = <<PidMsg(srv_child)>>
    BY <1>1, <2>1, <2>2, OneMessage
  <2>3. CASE spc = "read" /\ st = <<PidMsg(srv_child), StatusMsg(srv_status)>>
    BY <1>1, <1>3, <2>1, <2>3, TwoMessages
  <2>4. QED
    BY <1>2, <2>2, <2>3
<1>5. fpc' = "arm"
  BY <1>1, <1>2, <1>4, ConstantsAssumption DEF Pids
<1>6. spc \in {"send_status", "read"} => srv_status # "none"
  BY <1>2 DEF ControlInv, Protocol, Reported, read_pid, Gone
<1>7. QED
  BY <1>1, <1>2, <1>4, <1>5, <1>6 DEF Protocol, Reported, RunSent

\* The server sends the pid of the child.
LEMMA ProtocolSrvSendPid ==
  ASSUME ControlInv, srv_send_pid
  PROVE  Protocol'
<1> SUFFICES ASSUME flavour # "direct", ~Gone PROVE Protocol'
  BY DEF Protocol, Reported, srv_send_pid, Gone, tgtVars, qemuVars
<1>1. fpc = "read_pid" /\ ctl = <<>> /\ st = <<>> /\ srv_child \in Pids
  BY DEF ControlInv, Protocol, Reported, ServerKnows, srv_send_pid, RunSent, Quiet
<1>2. spc' \in {"tsl", "wait"} /\ st' = <<PidMsg(srv_child)>>
  BY <1>1, OneMessage DEF srv_send_pid, Send
<1>3. UNCHANGED <<fpc, ctl, srv_child>>
  BY DEF srv_send_pid, srvVars
<1>4. QED
  BY <1>1, <1>2, <1>3 DEF Protocol, Reported, RunSent

\* The server sends the status of the child, which may catch up with the pid.
LEMMA ProtocolSrvSendStatus ==
  ASSUME ControlInv, srv_send_status
  PROVE  Protocol'
<1> SUFFICES ASSUME flavour # "direct", ~Gone PROVE Protocol'
  BY DEF Protocol, Reported, srv_send_status, Gone, tgtVars, qemuVars
<1>1. spc' = "read" /\ st' = Append(st, StatusMsg(srv_status))
  BY DEF srv_send_status, Send
<1>2. UNCHANGED <<fpc, ctl, srv_child, srv_status, child_pid>>
  BY DEF srv_send_status, srvVars, fuzzVars
<1>3. /\ ctl = <<>> /\ srv_child \in Pids /\ srv_status # "none"
      /\ \/ fpc = "read_pid" /\ st = <<PidMsg(srv_child)>>
         \/ fpc \in {"arm", "read_status"} /\ st = <<>> /\ child_pid = srv_child
  BY OneMessage DEF ControlInv, Protocol, Reported, srv_send_status, RunSent, Quiet
<1>4. PidMsg(srv_child) \in Messages /\ StatusMsg(srv_status) \in Messages
  BY <1>3, MessageTypes DEF ControlInv, TypeOK, ServerTypes
<1>5. \/ fpc = "read_pid" /\ st' = <<PidMsg(srv_child), StatusMsg(srv_status)>>
      \/ fpc \in {"arm", "read_status"} /\ st' = <<StatusMsg(srv_status)>>
  BY <1>1, <1>3, <1>4, OneMessage, TwoMessages
<1>6. QED
  BY <1>1, <1>2, <1>3, <1>5 DEF Protocol, Reported, RunSent

\* Both sides keep to the protocol.
LEMMA ProtocolStep ==
  ASSUME ControlInv, [Next]_vars
  PROVE  Protocol'
<1> USE DEF ControlInv, TypeOK, FlagTypes, FuzzerTypes, ServerTypes, Direct, Protocol,
    Reported, Deaths, Gone, Quiet, RunSent, fuzzVars, srvVars, qemuVars, loopVars,
    memVars, tgtVars, vars
<1>1. CASE init_forkserver \/ init_disarm \/ run_target
  BY <1>1, OneMessage DEF init_forkserver, Eof, init_disarm, run_target
<1>2. CASE request
  BY <1>2, OneMessage DEF request, pipe_fails
<1>3. CASE fork_child \/ store_pid \/ arm
  BY <1>3, OneMessage DEF fork_child, store_pid, arm
<1>4. CASE wait_child
  BY <1>4, OneMessage DEF wait_child
<1>5. CASE clear_pid \/ disarm \/ after_run
  BY <1>5, OneMessage DEF clear_pid, disarm, Outcome, after_run
<1>6. CASE srv_hello
  BY <1>6, OneMessage DEF srv_hello, ServerKnows
<1>7. CASE srv_read
  BY <1>7, OneMessage DEF srv_read
<1>8. CASE srv_write_off \/ srv_reap \/ srv_fork
  BY <1>8, OneMessage DEF srv_write_off, srv_reap, srv_fork
<1>9. CASE srv_resume
  BY <1>9, OneMessage DEF srv_resume, ServerKnows
<1>10. CASE afl_wait_tsl
  BY <1>10, OneMessage DEF afl_wait_tsl, Running
<1>11. CASE srv_wait
  BY <1>11, OneMessage DEF srv_wait, ServerKnows, Zombies
<1>12. CASE handle_timeout \/ handle_stop_sig \/ stop_programmatically \/ fuzzer_dies
  BY <1>12, OneMessage
  DEF handle_timeout, Kill, handle_stop_sig, KillAll, stop_programmatically, fuzzer_dies
<1>13. CASE execv \/ trace \/ afl_persistent_loop \/ child_step \/ afl_request_tsl \/
           finished \/ UNCHANGED vars
  BY <1>13, OneMessage
  DEF execv, trace, afl_persistent_loop, child_step, afl_request_tsl, finished
<1>14. CASE read_pid
  BY <1>14, ProtocolReadPid
<1>15. CASE read_status
  BY <1>15, ProtocolReadStatus
<1>16. CASE srv_send_pid
  BY <1>16, ProtocolSrvSendPid
<1>17. CASE srv_send_status
  BY <1>17, ProtocolSrvSendStatus
<1>18. QED
  BY <1>1, <1>2, <1>3, <1>4, <1>5, <1>6, <1>7, <1>8, <1>9, <1>10, <1>11, <1>12, <1>13,
    <1>14, <1>15, <1>16, <1>17 DEF Next, Fuzzer, Serve

\* Why a server dies.
LEMMA DeathsStep ==
  ASSUME ControlInv, [Next]_vars
  PROVE  Deaths'
<1> USE DEF ControlInv, TypeOK, FlagTypes, FuzzerTypes, ServerTypes, ServerKnows,
    Direct, Protocol, Reported, Deaths, Begun, TimerRuns, NotBegun, AllFree, Gone,
    Quiet, fuzzVars, srvVars, qemuVars, loopVars, memVars, tgtVars, vars
<1>1. CASE init_forkserver \/ init_disarm \/ run_target \/ request \/ read_pid \/
           fork_child \/ store_pid
  BY <1>1, ServerFacts
  DEF init_forkserver, Eof, init_disarm, run_target, request, pipe_fails, read_pid,
      fork_child, store_pid
<1>2. CASE arm \/ read_status \/ wait_child \/ clear_pid \/ disarm \/ after_run
  BY <1>2, ServerFacts
  DEF arm, read_status, pipe_fails, Eof, wait_child, clear_pid, disarm, Outcome,
      after_run
<1>3. CASE srv_hello \/ srv_read \/ srv_write_off \/ srv_reap \/ srv_fork
  BY <1>3, ServerFacts DEF srv_hello, srv_read, srv_write_off, srv_reap, srv_fork
<1>4. CASE srv_resume \/ srv_send_pid \/ afl_wait_tsl \/ srv_wait \/ srv_send_status
  BY <1>4, ServerFacts
  DEF srv_resume, srv_send_pid, Send, afl_wait_tsl, Running, srv_wait, srv_send_status
<1>5. CASE handle_timeout \/ handle_stop_sig
  BY <1>5, ServerFacts DEF handle_timeout, Kill, handle_stop_sig, KillAll
<1>6. CASE stop_programmatically \/ fuzzer_dies
  BY <1>6, ServerFacts DEF stop_programmatically, KillAll, Kill, fuzzer_dies
<1>7. CASE execv \/ trace \/ afl_persistent_loop \/ child_step \/ afl_request_tsl \/
           finished \/ UNCHANGED vars
  BY <1>7, ServerFacts
  DEF execv, trace, afl_persistent_loop, child_step, afl_request_tsl, finished
<1>8. QED
  BY <1>1, <1>2, <1>3, <1>4, <1>5, <1>6, <1>7 DEF Next, Fuzzer, Serve

\* The first run.
LEMMA BegunStep ==
  ASSUME ControlInv, [Next]_vars
  PROVE  Begun'
<1> USE DEF ControlInv, TypeOK, FlagTypes, FuzzerTypes, ServerTypes, Direct, Protocol,
    Reported, Deaths, Begun, NotBegun, Gone, Zombies, Pids, fuzzVars, srvVars, qemuVars,
    loopVars, memVars, tgtVars, vars
<1>1. CASE init_forkserver \/ init_disarm \/ run_target \/ request \/ read_pid \/
           fork_child \/ store_pid
  BY <1>1, ConstantsAssumption, OneMessage, MessageTypes, TwoMessages
  DEF init_forkserver, Eof, init_disarm, run_target, request, pipe_fails, read_pid,
      fork_child, store_pid
<1>2. CASE arm \/ read_status \/ wait_child \/ clear_pid \/ disarm \/ after_run
  BY <1>2, ConstantsAssumption, OneMessage, MessageTypes
  DEF arm, read_status, pipe_fails, Eof, wait_child, clear_pid, disarm, Outcome,
      after_run
<1>3. CASE srv_hello \/ srv_read \/ srv_write_off \/ srv_reap \/ srv_fork
  BY <1>3, ConstantsAssumption
  DEF srv_hello, srv_read, srv_write_off, srv_reap, srv_fork
<1>4. CASE srv_resume \/ srv_send_pid \/ afl_wait_tsl \/ srv_wait \/ srv_send_status
  BY <1>4, ConstantsAssumption
  DEF srv_resume, srv_send_pid, Send, afl_wait_tsl, Running, srv_wait, srv_send_status
<1>5. CASE handle_timeout \/ handle_stop_sig \/ stop_programmatically \/ fuzzer_dies
  BY <1>5, ConstantsAssumption
  DEF handle_timeout, Kill, handle_stop_sig, KillAll, stop_programmatically, fuzzer_dies
<1>6. CASE execv \/ trace \/ afl_persistent_loop \/ child_step \/ afl_request_tsl \/
           finished \/ UNCHANGED vars
  BY <1>6, ConstantsAssumption
  DEF execv, trace, afl_persistent_loop, child_step, afl_request_tsl, finished
<1>7. QED
  BY <1>1, <1>2, <1>3, <1>4, <1>5, <1>6 DEF Next, Fuzzer, Serve

\* When the timer runs.
LEMMA TimerStep ==
  ASSUME ControlInv, [Next]_vars
  PROVE  TimerRuns'
<1> USE DEF ControlInv, TypeOK, FlagTypes, TimerRuns, Gone, fuzzVars, srvVars, qemuVars,
    loopVars, memVars, tgtVars, vars
<1>1. CASE init_forkserver \/ init_disarm \/ run_target \/ request \/ read_pid \/
           fork_child \/ store_pid
  BY <1>1
  DEF init_forkserver, Eof, init_disarm, run_target, request, pipe_fails, read_pid,
      fork_child, store_pid
<1>2. CASE arm \/ read_status \/ wait_child \/ clear_pid \/ disarm \/ after_run
  BY <1>2
  DEF arm, read_status, pipe_fails, Eof, wait_child, clear_pid, disarm, Outcome,
      after_run
<1>3. CASE srv_hello \/ srv_read \/ srv_write_off \/ srv_reap \/ srv_fork
  BY <1>3 DEF srv_hello, srv_read, srv_write_off, srv_reap, srv_fork
<1>4. CASE srv_resume \/ srv_send_pid \/ afl_wait_tsl \/ srv_wait \/ srv_send_status
  BY <1>4
  DEF srv_resume, srv_send_pid, Send, afl_wait_tsl, Running, srv_wait, srv_send_status
<1>5. CASE handle_timeout \/ handle_stop_sig \/ stop_programmatically \/ fuzzer_dies
  BY <1>5
  DEF handle_timeout, Kill, handle_stop_sig, KillAll, stop_programmatically, fuzzer_dies
<1>6. CASE execv \/ trace \/ afl_persistent_loop \/ child_step \/ afl_request_tsl \/
           finished \/ UNCHANGED vars
  BY <1>6 DEF execv, trace, afl_persistent_loop, child_step, afl_request_tsl, finished
<1>7. QED
  BY <1>1, <1>2, <1>3, <1>4, <1>5, <1>6 DEF Next, Fuzzer, Serve

\* The hits in the shared memory.
LEMMA HitsStep ==
  ASSUME ControlInv, Hits, [Next]_vars
  PROVE  Hits'
<1> USE DEF Hits, AllFree, fuzzVars, srvVars, qemuVars, loopVars, memVars, tgtVars, vars
<1>1. CASE init_forkserver \/ init_disarm \/ request \/ read_pid \/ store_pid \/ arm
  BY <1>1
  DEF init_forkserver, Eof, init_disarm, request, pipe_fails, read_pid, store_pid, arm
<1>2. CASE read_status \/ clear_pid \/ disarm \/ after_run
  BY <1>2 DEF read_status, pipe_fails, Eof, clear_pid, disarm, Outcome, after_run
<1>3. CASE srv_send_pid \/ afl_wait_tsl \/ srv_send_status \/ fuzzer_dies \/
           afl_request_tsl \/ finished \/ UNCHANGED vars
  BY <1>3
  DEF srv_send_pid, Send, afl_wait_tsl, Running, srv_send_status, fuzzer_dies,
      afl_request_tsl, finished
<1>4. CASE run_target
  BY <1>4
  DEF ControlInv, Direct, Protocol, Reported, Gone, TypeOK, ServerTypes, FuzzerTypes,
      Pids, OnlyLast, Zombies, run_target
<1>5. CASE fork_child
  BY <1>5
  DEF ControlInv, Direct, Protocol, Reported, Gone, TypeOK, ServerTypes, FuzzerTypes,
      Pids, OnlyLast, Zombies, fork_child
<1>6. CASE wait_child
  BY <1>6
  DEF ControlInv, Direct, Protocol, Reported, Gone, TypeOK, ServerTypes, FuzzerTypes,
      Pids, OnlyLast, Zombies, wait_child
<1>7. CASE srv_hello
  BY <1>7
  DEF ControlInv, TypeOK, ServerTypes, FuzzerTypes, TargetTypes, OnlyLast, ServerKnows,
      Zombies, Pids, srv_hello
<1>8. CASE srv_read
  BY <1>8
  DEF ControlInv, TypeOK, ServerTypes, FuzzerTypes, TargetTypes, OnlyLast, ServerKnows,
      Zombies, Pids, srv_read
<1>9. CASE srv_write_off
  BY <1>9
  DEF ControlInv, TypeOK, ServerTypes, FuzzerTypes, TargetTypes, OnlyLast, ServerKnows,
      Zombies, Pids, srv_write_off
<1>10. CASE srv_reap
  BY <1>10
  DEF ControlInv, TypeOK, ServerTypes, FuzzerTypes, TargetTypes, OnlyLast, ServerKnows,
      Zombies, Pids, srv_reap
<1>11. CASE srv_fork
  BY <1>11
  DEF ControlInv, TypeOK, ServerTypes, FuzzerTypes, TargetTypes, OnlyLast, ServerKnows,
      Zombies, Pids, srv_fork
<1>12. CASE srv_resume
  BY <1>12
  DEF ControlInv, TypeOK, ServerTypes, FuzzerTypes, TargetTypes, OnlyLast, ServerKnows,
      Zombies, Pids, srv_resume
<1>13. CASE srv_wait
  BY <1>13
  DEF ControlInv, TypeOK, ServerTypes, FuzzerTypes, TargetTypes, OnlyLast, ServerKnows,
      Zombies, Pids, srv_wait
<1>14. CASE handle_timeout
  BY <1>14
  DEF ControlInv, TypeOK, ServerTypes, FuzzerTypes, TargetTypes, OnlyLast, ServerKnows,
      Zombies, Pids, handle_timeout, Kill
<1>15. CASE handle_stop_sig
  BY <1>15
  DEF ControlInv, TypeOK, ServerTypes, FuzzerTypes, TargetTypes, OnlyLast, ServerKnows,
      Zombies, Pids, handle_stop_sig, KillAll, Kill
<1>16. CASE stop_programmatically
  BY <1>16
  DEF ControlInv, TypeOK, ServerTypes, FuzzerTypes, TargetTypes, OnlyLast, ServerKnows,
      Zombies, Pids, stop_programmatically, KillAll, Kill
<1>17. CASE execv
  BY <1>17
  DEF ControlInv, TypeOK, ServerTypes, FuzzerTypes, TargetTypes, OnlyLast, ServerKnows,
      Zombies, Pids, execv
<1>18. CASE trace
  BY <1>18
  DEF ControlInv, TypeOK, ServerTypes, FuzzerTypes, TargetTypes, OnlyLast, ServerKnows,
      Zombies, Pids, trace
<1>19. CASE afl_persistent_loop
  BY <1>19
  DEF ControlInv, TypeOK, ServerTypes, FuzzerTypes, TargetTypes, OnlyLast, ServerKnows,
      Zombies, Pids, afl_persistent_loop
<1>20. CASE child_step
  BY <1>20
  DEF ControlInv, TypeOK, ServerTypes, FuzzerTypes, TargetTypes, OnlyLast, ServerKnows,
      Zombies, Pids, child_step
<1>21. QED
  BY <1>1, <1>2, <1>3, <1>4, <1>5, <1>6, <1>7, <1>8, <1>9, <1>10, <1>11, <1>12, <1>13,
    <1>14, <1>15, <1>16, <1>17, <1>18, <1>19, <1>20 DEF Next, Fuzzer, Serve

\* Only the server in QEMU waits for translations.
LEMMA TranslationsSrvSendPid ==
  ASSUME ControlInv, Hits, Translations, srv_send_pid
  PROVE  Translations'
<1>1. flavour # "direct" /\ flavour \in Flavours
  BY DEF ControlInv, Direct, TypeOK, TargetTypes, srv_send_pid
<1>2. spc' = "dead" \/ spc' = IF flavour = "qemu" THEN "tsl" ELSE "wait"
  BY <1>1, ServerFacts DEF srv_send_pid, Send
<1>3. UNCHANGED <<flavour, tsl, srv_cache, child_cache>>
  BY DEF srv_send_pid, tgtVars, qemuVars
<1>4. QED
  BY <1>2, <1>3 DEF Translations, srv_send_pid

\* The server translates what its child has asked for, and is done when the child is.
LEMMA TranslationsAflWaitTsl ==
  ASSUME ControlInv, Hits, Translations, afl_wait_tsl
  PROVE  Translations'
<1>1. CASE tsl # <<>> /\ srv_cache' = srv_cache \cup {Head(tsl)} /\ tsl' = Tail(tsl)
                 /\ UNCHANGED spc
  <2>1. /\ Len(tsl) \in Nat \ {0} /\ Len(tsl') = Len(tsl) - 1 /\ Head(tsl) = tsl[1]
        /\ \A i \in 1 .. Len(tsl) - 1 : tsl'[i] = tsl[i + 1]
    BY <1>1 DEF ControlInv, TypeOK, TargetTypes
  <2>2. ASSUME NEW b \in child_cache \ srv_cache'
        PROVE  \E i \in 1 .. Len(tsl') : tsl'[i] = b
    <3>1. PICK i \in 1 .. Len(tsl) : tsl[i] = b
      BY <1>1 DEF Translations, afl_wait_tsl
    <3>2. i # 1
      BY <1>1, <2>1, <3>1
    <3>3. i - 1 \in 1 .. Len(tsl') /\ tsl'[i - 1] = b
      BY <2>1, <3>1, <3>2
    <3>4. QED
      BY <3>3
  <2>3. flavour = "qemu" /\ spc = "tsl"
    BY DEF Translations, afl_wait_tsl
  <2>4. QED
    BY <1>1, <2>2, <2>3 DEF Translations, afl_wait_tsl
<1>2. CASE tsl = <<>> /\ ~Running /\ spc' = "wait" /\ UNCHANGED <<srv_cache, tsl>>
  <2>1. child_cache \subseteq srv_cache
    BY <1>2 DEF Translations, afl_wait_tsl
  <2>2. child[srv_child] \in Zombies
    BY <1>2 DEF ControlInv, TypeOK, ServerTypes, ServerKnows, afl_wait_tsl, Running,
                      ChildStates
  <2>3. UNCHANGED <<flavour, child_cache, child, srv_child>>
    BY DEF afl_wait_tsl, srvVars
  <2>4. QED
    BY <1>2, <2>1, <2>2, <2>3 DEF Translations
<1>3. QED
  BY <1>1, <1>2 DEF afl_wait_tsl

\* The translations.
LEMMA TranslationsStep ==
  ASSUME ControlInv, Hits, Translations, [Next]_vars
  PROVE  Translations'
<1> USE DEF ControlInv, Translations, TypeOK, FuzzerTypes, ServerTypes, Pids, Zombies,
    fuzzVars, srvVars, qemuVars, loopVars, memVars, tgtVars, vars
<1>1. CASE init_forkserver \/ init_disarm \/ run_target
  BY <1>1
  DEF Direct, Protocol, Reported, Gone, init_forkserver, Eof, init_disarm, run_target
<1>2. CASE request \/ read_pid \/ fork_child \/ store_pid
  BY <1>2
  DEF Direct, Protocol, Reported, Gone, request, pipe_fails, read_pid, Eof, fork_child,
      store_pid
<1>3. CASE arm \/ read_status \/ wait_child
  BY <1>3
  DEF Direct, Protocol, Reported, Gone, arm, read_status, pipe_fails, Eof, wait_child
<1>4. CASE clear_pid \/ disarm \/ after_run
  BY <1>4 DEF Direct, Protocol, Reported, Gone, clear_pid, disarm, Outcome, after_run
<1>5. CASE srv_hello \/ srv_read \/ srv_write_off \/ srv_reap \/ srv_fork
  BY <1>5
  DEF TargetTypes, ServerKnows, OnlyLast, AllFree, Hits, srv_hello, srv_read,
      srv_write_off, srv_reap, srv_fork
<1>6. CASE srv_resume
  BY <1>6 DEF TargetTypes, ServerKnows, OnlyLast, AllFree, Hits, srv_resume
<1>7. CASE srv_send_pid
  BY <1>7, TranslationsSrvSendPid
<1>8. CASE afl_wait_tsl
  BY <1>8, TranslationsAflWaitTsl
<1>9. CASE srv_wait \/ srv_send_status
  BY <1>9, ServerFacts
  DEF TargetTypes, ServerKnows, OnlyLast, AllFree, Hits, srv_wait, srv_send_status, Send
<1>10. CASE handle_timeout
  BY <1>10 DEF TargetTypes, ServerKnows, OnlyLast, AllFree, Hits, handle_timeout, Kill
<1>11. CASE handle_stop_sig
  BY <1>11
  DEF TargetTypes, ServerKnows, OnlyLast, AllFree, Hits, handle_stop_sig, KillAll, Kill
<1>12. CASE stop_programmatically
  BY <1>12
  DEF TargetTypes, ServerKnows, OnlyLast, AllFree, Hits, stop_programmatically, KillAll,
      Kill
<1>13. CASE fuzzer_dies
  BY <1>13 DEF TargetTypes, ServerKnows, OnlyLast, AllFree, Hits, fuzzer_dies
<1>14. CASE execv \/ trace \/ afl_persistent_loop
  BY <1>14
  DEF TargetTypes, ServerKnows, OnlyLast, AllFree, Hits, execv, trace,
      afl_persistent_loop
<1>15. CASE child_step
  BY <1>15 DEF TargetTypes, ServerKnows, OnlyLast, AllFree, Hits, child_step
<1>16. CASE afl_request_tsl
  BY <1>16 DEF TargetTypes, ServerKnows, OnlyLast, AllFree, Hits, afl_request_tsl
<1>17. CASE finished
  BY <1>17 DEF TargetTypes, ServerKnows, OnlyLast, AllFree, Hits, finished
<1>18. CASE UNCHANGED vars
  BY <1>18 DEF TargetTypes, ServerKnows, OnlyLast, AllFree, Hits
<1>19. QED
  BY <1>1, <1>2, <1>3, <1>4, <1>5, <1>6, <1>7, <1>8, <1>9, <1>10, <1>11, <1>12, <1>13,
    <1>14, <1>15, <1>16, <1>17, <1>18 DEF Next, Fuzzer, Serve

\* The next run is asked for, and the server told whether its child was killed.
LEMMA TimingRequest ==
  ASSUME ControlInv, Timing, request
  PROVE  Timing'
<1> SUFFICES ASSUME ~stop_soon, spc # "dead" PROVE Timing'
  BY DEF Timing, Reported, request, pipe_fails, Gone
<1>1. /\ fpc' = "read_pid" /\ ctl' = Append(ctl, prev_timed_out)
      /\ UNCHANGED <<child, child_timed_out, prev_timed_out, spc>>
  BY DEF request, fuzzVars
<1>2. spc = "read" /\ ctl' = <<prev_timed_out>>
  BY <1>1, OneMessage DEF ControlInv, Protocol, Reported, Quiet, request, Gone
<1>3. ctl' # <<>>
  BY <1>2, OneMessage
<1>4. QED
  BY <1>1, <1>2, <1>3 DEF Timing, Reported, request, SomeKilled, Gone

\* The child of a new run has not been killed.
LEMMA TimingReadPid ==
  ASSUME ControlInv, Timing, read_pid
  PROVE  Timing'
<1> SUFFICES ASSUME ~stop_soon PROVE Timing'
  BY DEF Timing, Reported, read_pid, pipe_fails
<1>1. spc # "dead" /\ flavour # "direct"
  BY DEF ControlInv, Deaths, Direct, read_pid, Gone
<1>2. /\ st # <<>> /\ fpc' \in {"arm", "fatal"}
      /\ UNCHANGED <<child, child_timed_out, ctl, spc, srv_status>>
  BY <1>1 DEF read_pid, Eof, srvVars
<1>3. ctl = <<>> /\ (RunSent \/ spc = "read")
  BY <1>1, <1>2 DEF ControlInv, Protocol, Reported, read_pid, Gone, RunSent
<1>4. QED
  BY <1>2, <1>3 DEF Timing, Reported, read_pid, SomeKilled, Gone, RunSent

\* A run that was killed has timed out.
LEMMA TimingReadStatus ==
  ASSUME ControlInv, Timing, read_status
  PROVE  Timing'
<1> SUFFICES ASSUME ~stop_soon PROVE Timing'
  BY DEF Timing, Reported, read_status, pipe_fails
<1>1. spc # "dead" /\ flavour # "direct"
  BY DEF ControlInv, Deaths, Direct, read_status, Gone
<1>2. /\ st # <<>> /\ status' = Head(st).status /\ fpc' = "clear_pid"
      /\ UNCHANGED <<child, child_timed_out>>
  BY <1>1 DEF read_status, Eof
<1>3. spc = "read" /\ ctl = <<>> /\ st = <<StatusMsg(srv_status)>>
  BY <1>1, <1>2 DEF ControlInv, Protocol, Reported, read_status, Gone
<1>4. status' = srv_status
  BY <1>2, <1>3, OneMessage, MessageTypes DEF ControlInv, TypeOK, ServerTypes
<1>5. QED
  BY <1>2, <1>3, <1>4 DEF Timing, Reported, read_status, SomeKilled, Gone

\* The timer and the child it kills.
LEMMA TimingStep ==
  ASSUME ControlInv, Timing, [Next]_vars
  PROVE  Timing'
<1> USE DEF ControlInv, Timing, TypeOK, FlagTypes, ServerTypes, FuzzerTypes,
    ServerKnows, OnlyLast, Protocol, Reported, Direct, Deaths, Begun, TimerRuns, Gone,
    Quiet, RunSent, SomeKilled, AllFree, Zombies, Pids, fuzzVars, srvVars, qemuVars,
    loopVars, memVars, tgtVars, vars
<1>1. CASE init_forkserver \/ init_disarm \/ run_target
  BY <1>1 DEF init_forkserver, Eof, init_disarm, run_target
<1>2. CASE request
  BY <1>2, TimingRequest
<1>3. CASE read_pid
  BY <1>3, TimingReadPid
<1>4. CASE fork_child \/ store_pid
  BY <1>4 DEF fork_child, store_pid
<1>5. CASE arm
  BY <1>5 DEF arm
<1>6. CASE read_status
  BY <1>6, TimingReadStatus
<1>7. CASE wait_child
  BY <1>7 DEF wait_child
<1>8. CASE clear_pid \/ disarm \/ after_run
  BY <1>8 DEF clear_pid, disarm, Outcome, after_run
<1>9. CASE srv_hello \/ srv_read
  BY <1>9, OneMessage, TwoMessages, MessageTypes, ServerFacts DEF srv_hello, srv_read
<1>10. CASE srv_write_off \/ srv_reap \/ srv_fork
  BY <1>10 DEF srv_write_off, srv_reap, srv_fork
<1>11. CASE srv_resume
  BY <1>11 DEF srv_resume
<1>12. CASE srv_send_pid
  BY <1>12, OneMessage, TwoMessages, MessageTypes, ServerFacts DEF srv_send_pid, Send
<1>13. CASE afl_wait_tsl
  BY <1>13 DEF afl_wait_tsl, Running
<1>14. CASE srv_wait
  BY <1>14 DEF srv_wait
<1>15. CASE srv_send_status
  BY <1>15, OneMessage, TwoMessages, MessageTypes, ServerFacts DEF srv_send_status, Send
<1>16. CASE handle_timeout \/ handle_stop_sig \/ stop_programmatically \/ fuzzer_dies
  BY <1>16
  DEF handle_timeout, Kill, handle_stop_sig, KillAll, stop_programmatically, fuzzer_dies
<1>17. CASE execv \/ trace \/ afl_persistent_loop \/ child_step \/ afl_request_tsl \/
           finished \/ UNCHANGED vars
  BY <1>17 DEF execv, trace, afl_persistent_loop, child_step, afl_request_tsl, finished
<1>18. QED
  BY <1>1, <1>2, <1>3, <1>4, <1>5, <1>6, <1>7, <1>8, <1>9, <1>10, <1>11, <1>12, <1>13,
    <1>14, <1>15, <1>16, <1>17 DEF Next, Fuzzer, Serve

-----------------------------------------------------------------------------
(* The theorems.                                                           *)

\* The invariant is inductive.
LEMMA NextIInv == IInv /\ [Next]_vars => IInv'
<1> SUFFICES ASSUME IInv, [Next]_vars PROVE IInv'
  OBVIOUS
<1>1. ControlInv /\ Hits /\ Translations /\ Timing
  BY DEF IInv
<1>2. TypeOK'
  BY <1>1, FuzzerTypesStep, FlagTypesStep, PipeTypesStep, ServerTypesStep, TargetTypesStep
  DEF TypeOK
<1>3. ControlInv'
  BY <1>1, <1>2, OnlyLastStep, ServerKnowsStep, StopReportedStep, DirectStep, ProtocolStep,
    DeathsStep, BegunStep, TimerStep
  DEF ControlInv
<1>4. Hits' /\ Translations' /\ Timing'
  BY <1>1, HitsStep, TranslationsStep, TimingStep
<1>5. QED
  BY <1>3, <1>4 DEF IInv

\* It holds in every reachable state.
LEMMA AlwaysIInv == Spec => []IInv
BY InitIInv, NextIInv, PTL DEF Spec

\* Every variable keeps its type; above all, neither pipe ever holds more than what one
\* run of the target needs, so that no write of afl-fuzz or of the server can block.
THEOREM TypeCorrect == Spec => []TypeOK
<1>1. IInv => TypeOK
  BY DEF IInv, ControlInv
<1>2. QED
  BY <1>1, AlwaysIInv, PTL

\* The server never has two children, zombies included, for any number of pids, any of
\* the servers and any race of the timer and Ctrl-C with the end of a run.
THEOREM OneChildCorrect == Spec => []OneChild
<1>1. IInv => OneChild
  <2> SUFFICES ASSUME IInv PROVE Cardinality({p \in Pids : child[p] # "free"}) <= 1
    BY DEF OneChild
  <2>1. {p \in Pids : child[p] # "free"} \subseteq {srv_child}
    BY DEF IInv, ControlInv, OnlyLast
  <2>2. IsFiniteSet({srv_child}) /\ Cardinality({srv_child}) = 1
    BY FS_Singleton
  <2>3. QED
    BY <2>1, <2>2, FS_Subset
<1>2. QED
  BY <1>1, AlwaysIInv, PTL

\* What run_target() hands to its caller in trace_bits[] and dfg_bits[] is of the run
\* that was asked for, and nobody writes there any more.
THEOREM TraceCorrect == Spec => []TraceOfThisRun
<1>1. IInv => TraceOfThisRun
  <2> SUFFICES ASSUME IInv, ~stop_soon,
                      fpc \in {"clear_pid", "disarm", "returned", "idle", "request"}
               PROVE  /\ \A p \in Pids : child[p] # "running"
                      /\ \A h \in maps : h.round = round
                      /\ status = "stopped" /\ fpc # "request" =>
                           \A h \in maps : h.code = "body"
    BY DEF TraceOfThisRun
  <2>1. CASE flavour = "direct"
    BY <2>1 DEF IInv, ControlInv, Direct, AllFree, Hits
  <2>2. CASE flavour # "direct" /\ spc = "dead"
    BY <2>2 DEF IInv, ControlInv, Deaths, NotBegun, AllFree, Gone, Hits
  <2>3. CASE flavour # "direct" /\ spc # "dead"
    <3>1. spc = "read" /\ status = srv_status
      BY <2>3 DEF IInv, ControlInv, Protocol, Reported, Quiet, Gone
    <3>2. \A p \in Pids : child[p] # "running"
      BY <3>1 DEF IInv, ControlInv, ServerKnows, OnlyLast, AllFree
    <3>3. status = "stopped" => where = "body"
      BY <3>1 DEF IInv, ControlInv, StopReported, Hits
    <3>4. QED
      BY <3>2, <3>3 DEF IInv, Hits
  <2>4. QED
    BY <2>1, <2>2, <2>3
<1>2. QED
  BY <1>1, AlwaysIInv, PTL

\* In QEMU no child translates again what an earlier child has, however that one ended.
THEOREM TranslationsCorrect == Spec => []TranslationsMirrored
<1>1. IInv => TranslationsMirrored
  BY DEF IInv, Translations, TranslationsMirrored
<1>2. QED
  BY <1>1, AlwaysIInv, PTL

-----------------------------------------------------------------------------
(* The refinement of TargetRunner.                                         *)

Live == ~Over /\ ~Failed

\* How the child has ended, if it has.
ChildEnd == IF child[srv_child] = "running" THEN "none" ELSE child[srv_child]

\* The end of the run, without looking into the pipe: the protocol says what is in it.
RunEnd ==
  CASE fpc \in {"clear_pid", "disarm"} -> status
    [] fpc \in {"forked", "wait_child"} \/ (fpc = "arm" /\ flavour = "direct") -> ChildEnd
    [] fpc \in {"read_pid", "arm", "read_status"} /\ flavour # "direct" /\ ctl = <<>> ->
         IF spc \in {"send_status", "read"} THEN srv_status
         ELSE IF spc \in {"send_pid", "tsl", "wait"} THEN ChildEnd ELSE "none"
    [] OTHER -> "none"

Same == UNCHANGED <<Caller, HasBegun, End, Returned>>

\* Under the protocol the end of the run can be told without looking into the pipe.
LEMMA EndOfRunIs == ControlInv /\ Live => EndOfRun = RunEnd
<1> SUFFICES ASSUME ControlInv, Live PROVE EndOfRun = RunEnd
  OBVIOUS
<1>1. CASE fpc \in {"clear_pid", "disarm"}
  BY <1>1 DEF EndOfRun, RunEnd
<1>2. CASE flavour = "direct" /\ fpc \notin {"clear_pid", "disarm"}
  BY <1>2 DEF EndOfRun, RunEnd, ChildEnd, ControlInv, Direct
<1>3. CASE flavour # "direct" /\ fpc \in {"read_pid", "arm", "read_status"} /\ ctl = <<>>
  <2>1. spc # "dead" /\ ~Gone /\ ~stop_soon
    BY <1>3 DEF ControlInv, Deaths, Live, Over, Gone
  <2>2. StatusMsg(srv_status) \in Messages
    BY MessageTypes DEF ControlInv, TypeOK, ServerTypes
  <2>3. CASE spc = "send_status"
    BY <1>3, <2>3 DEF EndOfRun, RunEnd
  <2>4. CASE spc = "read"
    <3>1. \/ fpc = "read_pid" /\ srv_child \in Pids
                              /\ st = <<PidMsg(srv_child), StatusMsg(srv_status)>>
          \/ st = <<StatusMsg(srv_status)>>
      BY <1>3, <2>1, <2>4, OneMessage DEF ControlInv, Protocol, Reported, RunSent
    <3>2. st # <<>> /\ st[Len(st)] = StatusMsg(srv_status)
      BY <2>2, <3>1
    <3>3. StatusMsg(srv_status).kind = "status" /\ StatusMsg(srv_status).status = srv_status
      BY MessageTypes DEF ControlInv, TypeOK, ServerTypes
    <3>4. QED
      BY <1>3, <2>4, <3>2, <3>3 DEF EndOfRun, RunEnd
  <2>5. CASE spc \notin {"send_status", "read"}
    <3>1. st = <<>> \/ (srv_child \in Pids /\ st = <<PidMsg(srv_child)>>)
      BY <1>3, <2>1, <2>5 DEF ControlInv, Protocol, Reported, RunSent
    <3>2. st = <<>> \/ st[Len(st)].kind = "pid"
      BY <3>1, MessageTypes
    <3>3. QED
      BY <1>3, <2>5, <3>2 DEF EndOfRun, RunEnd, ChildEnd
  <2>6. QED
    BY <2>3, <2>4, <2>5
<1>4. CASE /\ flavour # "direct" /\ fpc \notin {"clear_pid", "disarm"}
           /\ ~(fpc \in {"read_pid", "arm", "read_status"} /\ ctl = <<>>)
  <2>1. fpc \notin {"forked", "wait_child"}
    BY <1>4 DEF ControlInv, Protocol, Reported, Deaths, Live, Over, Gone
  <2>2. QED
    BY <1>4, <2>1 DEF EndOfRun, RunEnd
<1>5. QED
  BY <1>1, <1>2, <1>3, <1>4

\* What is over stays over.
LEMMA OverStays ==
  ASSUME ~Live, [Next]_vars
  PROVE  (Over' <=> Over) /\ (Failed' <=> Failed)
<1> USE DEF Live, Over, Failed, Gone, fuzzVars, srvVars, qemuVars, loopVars, memVars,
    tgtVars, vars
<1>1. CASE init_forkserver \/ init_disarm \/ run_target \/ request \/ read_pid \/
           fork_child \/ store_pid
  BY <1>1
  DEF init_forkserver, Eof, init_disarm, run_target, request, pipe_fails, read_pid,
      fork_child, store_pid
<1>2. CASE arm \/ read_status \/ wait_child \/ clear_pid \/ disarm \/ after_run
  BY <1>2
  DEF arm, read_status, pipe_fails, Eof, wait_child, clear_pid, disarm, Outcome,
      after_run
<1>3. CASE srv_hello \/ srv_read \/ srv_write_off \/ srv_reap \/ srv_fork
  BY <1>3 DEF srv_hello, srv_read, srv_write_off, srv_reap, srv_fork
<1>4. CASE srv_resume \/ srv_send_pid \/ afl_wait_tsl \/ srv_wait \/ srv_send_status
  BY <1>4
  DEF srv_resume, srv_send_pid, Send, afl_wait_tsl, Running, srv_wait, srv_send_status
<1>5. CASE handle_timeout \/ handle_stop_sig \/ stop_programmatically \/ fuzzer_dies
  BY <1>5
  DEF handle_timeout, Kill, handle_stop_sig, KillAll, stop_programmatically, fuzzer_dies
<1>6. CASE execv \/ trace \/ afl_persistent_loop \/ child_step \/ afl_request_tsl \/
           finished \/ UNCHANGED vars
  BY <1>6 DEF execv, trace, afl_persistent_loop, child_step, afl_request_tsl, finished
<1>7. QED
  BY <1>1, <1>2, <1>3, <1>4, <1>5, <1>6 DEF Next, Fuzzer, Serve

\* Every step of run_target(), the server, the child and the signals is a step of
\* TargetRunner, or none that shows.
LEMMA RefinementStep ==
  ASSUME IInv, IInv', [Next]_vars
  PROVE  [Runner!Next]_(Runner!vars)
<1> SUFFICES Runner!Next \/ Same
  BY DEF Same, Runner!vars
<1>0. (ControlInv /\ Live => EndOfRun = RunEnd)'
  BY EndOfRunIs, PTL
<1>1. CASE ~Live
  BY <1>1, OverStays DEF Same, Caller, HasBegun, End, Returned, Live
<1>2. CASE Live
  <2> USE DEF IInv, ControlInv, TypeOK, FuzzerTypes, ServerTypes, FlagTypes, Deaths,
      Protocol, Reported, Direct, Begun, Live, Over, Failed, Gone, Caller, HasBegun,
      Returned, RunEnd, ChildEnd, fuzzVars, srvVars, qemuVars, loopVars, memVars,
      tgtVars, vars
  <2>1. End = RunEnd
    BY <1>2, EndOfRunIs DEF End, Live, IInv
  <2>2. (Live' => End' = RunEnd') /\ (~Live' => End' = "none")
    BY <1>0 DEF End, Live, IInv
  <2>3. CASE init_forkserver
    <3>1. Runner!fails \/ Same
      BY <1>2, <2>1, <2>2, <2>3
      DEF NotBegun, Eof, Runner!fails, Runner!give_up, Same, init_forkserver
    <3>2. QED
      BY <3>1 DEF Runner!Next
  <2>4. CASE init_disarm
    <3>1. Runner!ready
      BY <1>2, <2>1, <2>2, <2>4 DEF Runner!ready, init_disarm
    <3>2. QED
      BY <3>1 DEF Runner!Next
  <2>5. CASE run_target
    <3>1. Runner!call
      BY <1>2, <2>1, <2>2, <2>5 DEF Runner!call, run_target
    <3>2. QED
      BY <3>1 DEF Runner!Next
  <2>6. CASE request
    <3>1. Runner!fails \/ Same
      BY <1>2, <2>1, <2>2, <2>6, OneMessage
      DEF NotBegun, Quiet, pipe_fails, Runner!fails, Runner!give_up, Same, request
    <3>2. QED
      BY <3>1 DEF Runner!Next
  <2>7. CASE read_pid
    <3>1. Runner!begins
      BY <1>2, <2>1, <2>2, <2>7, OneMessage, TwoMessages, MessageTypes,
        ConstantsAssumption
      DEF RunSent, Pids, pipe_fails, Eof, Runner!begins, read_pid
    <3>2. QED
      BY <3>1 DEF Runner!Next
  <2>8. CASE fork_child \/ wait_child
    BY <1>2, <2>1, <2>2, <2>8 DEF Zombies, Same, fork_child, wait_child
  <2>9. CASE store_pid
    <3>1. Runner!begins
      BY <1>2, <2>1, <2>2, <2>9, ConstantsAssumption DEF Pids, Runner!begins, store_pid
    <3>2. QED
      BY <3>1 DEF Runner!Next
  <2>10. CASE read_status
    BY <1>2, <2>1, <2>2, <2>10, OneMessage, MessageTypes
    DEF RunSent, pipe_fails, Eof, Same, read_status
  <2>11. CASE arm \/ clear_pid \/ after_run
    BY <1>2, <2>1, <2>2, <2>11, ConstantsAssumption DEF Pids, Same, arm, clear_pid, after_run
  <2>12. CASE disarm
    <3>1. Runner!return
      BY <1>2, <2>1, <2>2, <2>12
      DEF Timing, Statuses, Zombies, Outcome, Runner!return, Runner!Verdict, disarm
    <3>2. QED
      BY <3>1 DEF Runner!Next
  <2>13. CASE srv_hello \/ srv_read \/ srv_write_off \/ afl_wait_tsl
    BY <1>2, <2>1, <2>2, <2>13, OneMessage
    DEF RunSent, Quiet, Same, srv_hello, srv_read, srv_write_off, afl_wait_tsl
  <2>14. CASE srv_reap \/ srv_fork
    BY <1>2, <2>1, <2>2, <2>14
    DEF RunSent, Quiet, ServerKnows, Pids, Same, srv_reap, srv_fork
  <2>15. CASE srv_resume
    BY <1>2, <2>1, <2>2, <2>15
    DEF RunSent, Quiet, ServerKnows, Pids, Timing, SomeKilled, Same, srv_resume
  <2>16. CASE srv_wait
    BY <1>2, <2>1, <2>2, <2>16
    DEF RunSent, Quiet, ServerKnows, Pids, Zombies, Same, srv_wait
  <2>17. CASE srv_send_pid \/ srv_send_status
    BY <1>2, <2>1, <2>2, <2>17
    DEF RunSent, Quiet, Send, Same, srv_send_pid, srv_send_status
  <2>18. CASE handle_stop_sig \/ stop_programmatically \/ fuzzer_dies
    <3>1. Runner!stops
      BY <1>2, <2>1, <2>2, <2>18
      DEF KillAll, Runner!stops, Runner!give_up, handle_stop_sig, stop_programmatically,
          fuzzer_dies
    <3>2. QED
      BY <3>1 DEF Runner!Next
  <2>19. CASE handle_timeout
    <3>1. CASE fpc \notin {"read_status", "wait_child"}
      <4>1. Same
        BY <1>2, <2>1, <2>2, <2>19, <3>1
        DEF Same, Live, Over, Failed, Gone, Caller, HasBegun, Returned, RunEnd, IInv,
          ControlInv, TimerRuns, Direct, handle_timeout, srvVars, qemuVars, tgtVars
      <4>2. QED
        BY <4>1
    <3>2. CASE fpc \in {"read_status", "wait_child"}
      <4>1. child_pid = srv_child /\ srv_child \in Pids /\ HasBegun /\ Caller = "running"
        BY <1>2, <2>19, <3>2, ConstantsAssumption
        DEF Live, Over, Failed, Gone, Caller, HasBegun, IInv, ControlInv, Direct, Deaths,
          Protocol, Pids
      <4>2. UNCHANGED <<Caller, HasBegun, Returned>> /\ child' = Kill(srv_child)
        BY <2>19, <3>2, <4>1, ConstantsAssumption
        DEF Live, Over, Failed, Caller, HasBegun, Returned, handle_timeout, Pids
      <4>3. Live' /\ UNCHANGED <<fpc, spc, srv_status, srv_child, ctl, flavour, status>>
        BY <1>2, <2>19, <4>1, ConstantsAssumption
        DEF Live, Over, Failed, handle_timeout, Pids, srvVars, qemuVars, tgtVars
      <4>4. End' = End \/ (End \in {"none", "stopped"} /\ End' = "killed")
        BY <2>1, <2>2, <3>2, <4>1, <4>2, <4>3
        DEF IInv, ControlInv, TypeOK, ServerTypes, RunEnd, ChildEnd, Kill
      <4>5. Runner!expires \/ Same
        BY <4>1, <4>2, <4>4 DEF Runner!expires, Same
      <4>6. QED
        BY <4>5 DEF Runner!Next
    <3>3. QED
      BY <3>1, <3>2
  <2>20. CASE child_step \/ execv
    <3>1. Runner!finishes \/ Same
      BY <1>2, <2>1, <2>2, <2>20
      DEF OnlyLast, AllFree, Quiet, Pids, RunSent, ServerKnows, Runner!finishes, Same,
          child_step, execv
    <3>2. QED
      BY <3>1 DEF Runner!Next
  <2>21. CASE afl_persistent_loop
    <3>1. Runner!finishes \/ Same
      BY <1>2, <2>1, <2>2, <2>21
      DEF OnlyLast, AllFree, Quiet, Pids, RunSent, ServerKnows, Runner!finishes, Same,
          afl_persistent_loop
    <3>2. QED
      BY <3>1 DEF Runner!Next
  <2>22. CASE trace \/ afl_request_tsl \/ finished \/ UNCHANGED vars
    BY <1>2, <2>1, <2>2, <2>22 DEF Same, trace, afl_request_tsl, finished
  <2>23. QED
    BY <2>3, <2>4, <2>5, <2>6, <2>7, <2>8, <2>9, <2>10, <2>11, <2>12, <2>13, <2>14,
      <2>15, <2>16, <2>17, <2>18, <2>19, <2>20, <2>21, <2>22
    DEF Next, Fuzzer, Serve
<1>3. QED
  BY <1>1, <1>2

\* Whatever the server, the pipes, the timer and Ctrl-C do, each call of run_target() is
\* one run of the target and returns how that run ended: the safety part of TargetRunner.
THEOREM RunnerCorrect == Spec => Runner!Spec
<1>1. Init => Runner!Init
  BY DEF Init, Runner!Init, Caller, HasBegun, End, EndOfRun, Returned, Over, Failed
<1>2. QED
  BY <1>1, AlwaysIInv, RefinementStep, PTL DEF Spec, Runner!Spec

=============================================================================
