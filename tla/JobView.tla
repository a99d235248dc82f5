------------------------------ MODULE JobView ------------------------------
(***************************************************************************)
(* What the job store promises the readers of its published snapshots,     *)
(* whatever its handlers interleave to: a job appears as queued; from then *)
(* on its snapshot changes only by publishing a different one; a snapshot  *)
(* that reports an outcome carries exactly that outcome's payload; and the *)
(* outcome it reports is the one ComfyUI reached, or a cancellation that   *)
(* was asked for.                                                          *)
(*                                                                         *)
(* What is NOT promised, because the code does not keep it, is that an     *)
(* outcome is final: StaleRefresh is the run that shows it.                *)
(***************************************************************************)
EXTENDS JobSnapshot

VARIABLES
  view,     \* the last published snapshot of every job
  outcome,  \* how each job's execution really ended, chosen once
  asked     \* the jobs somebody asked to cancel

viewVars == <<view, outcome, asked>>

Outcomes == {"none", "success", "error", "interrupted", "deleted", "lost"}

\* What a snapshot reports is what the execution justifies.  A job that a stale
\* reading reopened keeps its payload, so that is justified on its own.
Justified(s, o, cancelAsked) ==
  /\ s.state = "completed" \/ s.results => o = "success"
  /\ s.state = "failed" \/ s.error => o = "error"
  /\ s.state = "cancelled" => o = "interrupted" \/ cancelAsked

ViewInit ==
  /\ view = [j \in Jobs |-> NoSnapshot]
  /\ outcome = [j \in Jobs |-> "none"]
  /\ asked = {}

Appear(j) ==
  /\ view[j] = NoSnapshot
  /\ view' = [view EXCEPT ![j] = QueuedSnapshot]
  /\ UNCHANGED <<outcome, asked>>

\* Publishing a snapshot: a difference, never mere activity.
Publish(j, s) ==
  /\ view[j] # NoSnapshot
  /\ s \in Snapshots \ {view[j]}
  /\ Coherent(s)
  /\ Justified(s, outcome[j], j \in asked)
  /\ view' = [view EXCEPT ![j] = s]
  /\ UNCHANGED <<outcome, asked>>

AskToCancel(j) ==
  /\ view[j] # NoSnapshot
  /\ asked' = asked \cup {j}
  /\ UNCHANGED <<view, outcome>>

\* Executions end, each in one way.
End ==
  /\ outcome' \in [Jobs -> Outcomes]
  /\ \A j \in Jobs : outcome[j] = "none" \/ outcome'[j] = outcome[j]
  /\ UNCHANGED <<view, asked>>

ViewNext ==
  \/ \E j \in Jobs : Appear(j) \/ AskToCancel(j)
  \/ \E j \in Jobs : \E s \in Snapshots : Publish(j, s)
  \/ End

ViewSpec == ViewInit /\ [][ViewNext]_viewVars
=============================================================================
