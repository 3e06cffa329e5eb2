---------------------------- MODULE TargetRunner ----------------------------
(***************************************************************************)
(* What the rest of afl-fuzz may expect of run_target(): each call is one  *)
(* run of the target, the call returns how that run ended, and it does     *)
(* return.  Neither the fork server nor its pipes and signals show.        *)
(*                                                                         *)
(* ForkServer implements this.                                             *)
(***************************************************************************)

VARIABLES
  caller,   \* "starting", "idle" between calls, "running", "over" or "failed"
  begun,    \* the target has been seen to run
  end,      \* how the run of this call has ended, if it has
  verdict   \* what the last call returned

vars == <<caller, begun, end, verdict>>

\* There may be nothing to start.
Init == caller \in {"starting", "idle"} /\ begun = FALSE /\ end = "none" /\ verdict = "none"

\* The target can be run.
ready == caller = "starting" /\ caller' = "idle" /\ UNCHANGED <<begun, end, verdict>>

call ==
  /\ caller = "idle" /\ caller' = "running" /\ end' = "none"
  /\ UNCHANGED <<begun, verdict>>

begins == caller = "running" /\ begun' = TRUE /\ UNCHANGED <<caller, end, verdict>>

\* The run exits or crashes, stops to wait for the next input, or turns out to be
\* impossible.
finishes ==
  /\ caller = "running" /\ end = "none"
  /\ end' \in {"exited", "crashed", "stopped", "unexecuted"}
  /\ UNCHANGED <<caller, begun, verdict>>

\* It takes too long.  A run that has stopped may still be killed until that
\* has been noticed.
expires ==
  /\ caller = "running" /\ begun /\ end \in {"none", "stopped"}
  /\ end' = "killed"
  /\ UNCHANGED <<caller, begun, verdict>>

Verdict(e) ==
  CASE e = "crashed"    -> "crash"
    [] e = "killed"     -> "tmout"
    [] e = "unexecuted" -> "error"
    [] OTHER            -> "none"

return ==
  /\ caller = "running" /\ begun /\ end # "none"
  /\ caller' = "idle" /\ verdict' = Verdict(end) /\ end' = "none"
  /\ UNCHANGED begun

\* The user ends the session, or the target turns out not to work at all.
give_up(how) ==
  /\ caller \notin {"over", "failed"}
  /\ caller' = how /\ begun' = FALSE /\ end' = "none" /\ verdict' = "none"
stops == give_up("over")
fails == ~begun /\ give_up("failed")

Next == ready \/ call \/ begins \/ finishes \/ expires \/ return \/ stops \/ fails

Spec == Init /\ [][Next]_vars

\* A call returns, unless the session is over.
FairSpec == Spec /\ WF_vars(finishes \/ expires) /\ WF_vars(return)

=============================================================================
