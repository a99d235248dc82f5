---------------------------- MODULE JobSnapshot ----------------------------
(***************************************************************************)
(* The snapshot of a job: what GET /api/v1/jobs/{id} answers and what the  *)
(* event stream sends, without the ids.  Results and error are abstracted  *)
(* to whether the store recorded them; progress keeps its value because    *)
(* the store compares it.                                                  *)
(***************************************************************************)
CONSTANTS
  Jobs,        \* every job id
  Steps,       \* the step counts ComfyUI may report
  NoProgress   \* progress is null

ASSUME NoProgressAssumption == NoProgress \notin Steps

JobStates == {"queued", "running", "completed", "failed", "cancelled"}
Terminal  == {"completed", "failed", "cancelled"}

Progresses == Steps \cup {NoProgress}

Snapshots == [state : JobStates, progress : Progresses,
              results : BOOLEAN, error : BOOLEAN]

\* The store knows no such job: the route answers 404.
NoSnapshot == [state |-> "unknown", progress |-> NoProgress,
               results |-> FALSE, error |-> FALSE]

QueuedSnapshot == [state |-> "queued", progress |-> NoProgress,
                   results |-> FALSE, error |-> FALSE]

\* An outcome and its payload belong together: a completed job has results, a
\* failed one has an error, a cancelled one has neither, and none has progress.
Coherent(s) ==
  s.state \in Terminal =>
    /\ s.progress = NoProgress
    /\ s.results = (s.state = "completed")
    /\ s.error = (s.state = "failed")
=============================================================================
