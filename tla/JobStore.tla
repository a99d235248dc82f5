----------------------------- MODULE JobStore ------------------------------
(***************************************************************************)
(* The gateway's job store (gateway/localcanvas_gateway/jobs.py) and the   *)
(* routes that drive it (api/jobs.py, api/events.py).                      *)
(*                                                                         *)
(* Every request, every poll of an event stream and every lifecycle event  *)
(* of ComfyUI's socket runs refresh() in a thread of its own, and refresh  *)
(* makes two HTTP calls before it takes the store's lock.  A worker is one *)
(* such thread; its steps are the source's, cut wherever it calls ComfyUI  *)
(* or releases the lock, and at the one place where a reader without the   *)
(* lock can see a job half written.  A job and its prompt share one id.    *)
(***************************************************************************)
EXTENDS ComfyUI, JobSnapshot

CONSTANTS
  Workers,  \* the gateway's threads that may be inside the store at once
  Free      \* nobody holds the store's lock

ASSUME JobsAssumption == Jobs \subseteq Prompts
ASSUME FreeAssumption == Free \notin Workers

VARIABLES
  jobs,   \* the Job objects, as the store's threads mutate them
  view,   \* the last published snapshot of each job (_views)
  lock,   \* who holds the store's lock across two of these steps
  pc,     \* where each worker is
  op,     \* what each worker was asked to do
  job,    \* the job each worker handles
  read,   \* what the worker read last and has not acted on
  asked   \* the jobs a cancel request ever arrived for (an observation only)

storeVars  == <<jobs, view>>
workerVars == <<pc, op, job, read>>
vars == <<comfyVars, storeVars, lock, workerVars, asked>>

\* "change" is a refresh nobody is answered from: note_change and the poll of an
\* event stream.  After it acted, a cancel goes on as "snapshot": it refreshes
\* once more and answers.
Ops == {"submit", "snapshot", "change", "cancel"}

Labels == {"idle", "submit", "create",
           "check", "history", "apply", "settle", "publish",
           "queue", "applyQueue",
           "decide", "locate", "delete", "mark", "interrupt",
           "respond", "payload"}

Nothing == "nothing"
Entries == Ended \cup {"none", "unsettled"}
InQueue == {"pending", "running"}
Readings == Entries \cup InQueue \cup JobStates \cup {Nothing, "absent", "deleted"}

JobRecords == [state : JobStates, progress : Progresses, results : BOOLEAN,
               error : BOOLEAN, queueDeleted : BOOLEAN]

NewJob == [state |-> "queued", progress |-> NoProgress, results |-> FALSE,
           error |-> FALSE, queueDeleted |-> FALSE]

Known(j) == view[j] # NoSnapshot

\* Job.to_view, read under the lock.
Snapshot(r) == [state |-> r.state, progress |-> r.progress,
                results |-> r.results, error |-> r.error]

\* The state a finding stands for: what ComfyUI's history says, or that a
\* deletion the gateway asked for really kept the prompt from running.
StateOf(finding) ==
  CASE finding = "success"     -> "completed"
    [] finding = "error"       -> "failed"
    [] finding = "interrupted" -> "cancelled"
    [] finding = "deleted"     -> "cancelled"
    [] finding = "unsettled"   -> "running"
    [] finding = "running"     -> "running"
    [] finding = "pending"     -> "queued"

\* Mutant of Settled: the last step count is not cleared.
SettledWithProgress(r, finding) ==
  [state |-> r.state, progress |-> r.progress, results |-> finding = "success",
   error |-> finding = "error", queueDeleted |-> r.queueDeleted]

\* What an outcome writes besides the state.
Settled(r, finding) ==
  [state |-> r.state, progress |-> NoProgress, results |-> finding = "success",
   error |-> finding = "error", queueDeleted |-> r.queueDeleted]

Init ==
  /\ ComfyInit
  /\ jobs = [j \in Jobs |-> NewJob]
  /\ view = [j \in Jobs |-> NoSnapshot]
  /\ lock = Free
  /\ pc = [w \in Workers |-> "idle"]
  /\ op = [w \in Workers |-> "snapshot"]
  /\ job \in [Workers -> Jobs]
  /\ read = [w \in Workers |-> Nothing]
  /\ asked = {}

At(w, label) == pc[w] = label
Goto(w, label) == pc' = [pc EXCEPT ![w] = label]
Reads(w, value) == read' = [read EXCEPT ![w] = value]

\* Where refresh() returns to.
AfterRefresh(w) ==
  CASE op[w] = "snapshot" -> "respond"
    [] op[w] = "cancel"   -> "decide"
    [] OTHER              -> "idle"

(***************************************************************************)
(* Requests.                                                               *)
(***************************************************************************)

\* A request for a known job; JobStore.get takes the lock.  An unknown id is
\* answered 404 and nothing happens.
Ask(w, o, j) ==
  /\ At(w, "idle")
  /\ lock = Free
  /\ Known(j)
  /\ o \in {"snapshot", "change", "cancel"}
  /\ op' = [op EXCEPT ![w] = o]
  /\ job' = [job EXCEPT ![w] = j]
  /\ asked' = IF o = "cancel" THEN asked \cup {j} ELSE asked
  /\ Goto(w, "check")
  /\ UNCHANGED <<comfyVars, storeVars, lock, read>>

AskToSubmit(w, j) ==
  /\ At(w, "idle")
  /\ place[j] = "unsubmitted"
  /\ \A v \in Workers : pc[v] \in {"submit", "create"} => job[v] # j
  /\ op' = [op EXCEPT ![w] = "submit"]
  /\ job' = [job EXCEPT ![w] = j]
  /\ Goto(w, "submit")
  /\ UNCHANGED <<comfyVars, storeVars, lock, read, asked>>

\* ComfyUI accepts the prompt, and only then does the store learn of it.
Submit(w) ==
  /\ At(w, "submit")
  /\ AcceptPrompt(job[w])
  /\ Goto(w, "create")
  /\ UNCHANGED <<storeVars, lock, op, job, read, asked>>

\* The call fails.  When it failed after ComfyUI accepted the prompt, the
\* prompt runs and no job will ever stand for it.
SubmitFails(w) ==
  /\ At(w, "submit")
  /\ AcceptPrompt(job[w]) \/ UNCHANGED comfyVars
  /\ Goto(w, "idle")
  /\ UNCHANGED <<storeVars, lock, op, job, read, asked>>

Create(w) ==
  /\ At(w, "create")
  /\ lock = Free
  /\ view' = [view EXCEPT ![job[w]] = QueuedSnapshot]
  /\ Goto(w, "idle")
  /\ UNCHANGED <<comfyVars, jobs, lock, op, job, read, asked>>

(***************************************************************************)
(* refresh                                                                 *)
(***************************************************************************)

\* Mutant of Check: an outcome is read again.
CheckNothing(w) ==
  /\ At(w, "check")
  /\ Goto(w, "history")
  /\ UNCHANGED <<comfyVars, storeVars, lock, op, job, read, asked>>

\* The terminal check is made without the lock, and never made again.
Check(w) ==
  /\ At(w, "check")
  /\ Goto(w, IF jobs[job[w]].state \in Terminal THEN AfterRefresh(w)
             ELSE "history")
  /\ UNCHANGED <<comfyVars, storeVars, lock, op, job, read, asked>>

\* Mutant of ReadHistory: an entry that reports a failure is not recognised.
ReadHistorySuccesses(w) ==
  /\ At(w, "history")
  /\ \E entry \in HistoryAnswers(job[w]) :
       IF entry \in {"none", "error"}
       THEN Goto(w, "queue") /\ UNCHANGED read
       ELSE Goto(w, "apply") /\ Reads(w, entry)
  /\ UNCHANGED <<comfyVars, storeVars, lock, op, job, asked>>

ReadHistory(w) ==
  /\ At(w, "history")
  /\ \E entry \in HistoryAnswers(job[w]) :
       IF entry = "none"
       THEN Goto(w, "queue") /\ UNCHANGED read
       ELSE Goto(w, "apply") /\ Reads(w, entry)
  /\ UNCHANGED <<comfyVars, storeVars, lock, op, job, asked>>

ReadHistoryFails(w) ==
  /\ At(w, "history")
  /\ Goto(w, AfterRefresh(w))
  /\ UNCHANGED <<comfyVars, storeVars, lock, op, job, read, asked>>

\* _apply_history, first half: it takes the lock and writes the state.
ApplyHistory(w) ==
  /\ At(w, "apply")
  /\ lock = Free
  /\ jobs' = [jobs EXCEPT ![job[w]].state = StateOf(read[w])]
  /\ IF read[w] \in Ended
     THEN /\ lock' = w
          /\ Goto(w, "settle")
          /\ UNCHANGED read
     ELSE /\ Goto(w, "publish")
          /\ Reads(w, Nothing)
          /\ UNCHANGED lock
  /\ UNCHANGED <<comfyVars, view, op, job, asked>>

\* The second half: the payload, and the lock is released.  What was read from
\* history is published by a second acquisition of the lock; a cancellation
\* concluded from the queue is published in this one.
Settle(w) ==
  /\ At(w, "settle")
  /\ jobs' = [jobs EXCEPT ![job[w]] = Settled(@, read[w])]
  /\ lock' = Free
  /\ IF read[w] = "deleted"
     THEN /\ view' = [view EXCEPT ![job[w]] = Snapshot(jobs'[job[w]])]
          /\ Goto(w, AfterRefresh(w))
     ELSE /\ Goto(w, "publish")
          /\ UNCHANGED view
  /\ Reads(w, Nothing)
  /\ UNCHANGED <<comfyVars, op, job, asked>>

Publish(w) ==
  /\ At(w, "publish")
  /\ lock = Free
  /\ view' = [view EXCEPT ![job[w]] = Snapshot(jobs[job[w]])]
  /\ Goto(w, AfterRefresh(w))
  /\ UNCHANGED <<comfyVars, jobs, lock, op, job, read, asked>>

ReadQueue(w) ==
  /\ At(w, "queue")
  /\ Reads(w, QueueAnswer(job[w]))
  /\ Goto(w, "applyQueue")
  /\ UNCHANGED <<comfyVars, storeVars, lock, op, job, asked>>

ReadQueueFails(w) ==
  /\ At(w, "queue")
  /\ Goto(w, AfterRefresh(w))
  /\ UNCHANGED <<comfyVars, storeVars, lock, op, job, read, asked>>

\* Mutant of ApplySighting: the new state is not published.
ApplySightingSilently(w) ==
  /\ At(w, "applyQueue")
  /\ lock = Free
  /\ read[w] \in InQueue
  /\ jobs' = [jobs EXCEPT ![job[w]] =
                [@ EXCEPT !.queueDeleted = FALSE, !.state = StateOf(read[w])]]
  /\ Goto(w, AfterRefresh(w))
  /\ Reads(w, Nothing)
  /\ UNCHANGED <<comfyVars, view, lock, op, job, asked>>

\* A sighting in the queue retires the claim that the prompt was deleted.
ApplySighting(w) ==
  /\ At(w, "applyQueue")
  /\ lock = Free
  /\ read[w] \in InQueue
  /\ jobs' = [jobs EXCEPT ![job[w]] =
                [@ EXCEPT !.queueDeleted = FALSE, !.state = StateOf(read[w])]]
  /\ view' = [view EXCEPT ![job[w]] = Snapshot(jobs'[job[w]])]
  /\ Goto(w, AfterRefresh(w))
  /\ Reads(w, Nothing)
  /\ UNCHANGED <<comfyVars, lock, op, job, asked>>

\* Mutant of ApplyDeletion: every absence is read as a cancellation.
ApplyAbsence(w) ==
  /\ At(w, "applyQueue")
  /\ lock = Free
  /\ read[w] = "absent"
  /\ jobs' = [jobs EXCEPT ![job[w]].state = StateOf("deleted")]
  /\ lock' = w
  /\ Goto(w, "settle")
  /\ Reads(w, "deleted")
  /\ UNCHANGED <<comfyVars, view, op, job, asked>>

\* Mutant of ApplyDeletion: no absence is.
ApplyDeletionAsGap(w) ==
  /\ At(w, "applyQueue")
  /\ lock = Free
  /\ read[w] = "absent"
  /\ jobs[job[w]].queueDeleted
  /\ Goto(w, AfterRefresh(w))
  /\ Reads(w, Nothing)
  /\ UNCHANGED <<comfyVars, storeVars, lock, op, job, asked>>

\* In neither place, and deleted as far as the gateway knows: cancelled.
ApplyDeletion(w) ==
  /\ At(w, "applyQueue")
  /\ lock = Free
  /\ read[w] = "absent"
  /\ jobs[job[w]].queueDeleted
  /\ jobs' = [jobs EXCEPT ![job[w]].state = StateOf("deleted")]
  /\ lock' = w
  /\ Goto(w, "settle")
  /\ Reads(w, "deleted")
  /\ UNCHANGED <<comfyVars, view, op, job, asked>>

\* In neither place otherwise: the gap.  Nothing is known, nothing changes.
ApplyGap(w) ==
  /\ At(w, "applyQueue")
  /\ lock = Free
  /\ read[w] = "absent"
  /\ ~jobs[job[w]].queueDeleted
  /\ view' = [view EXCEPT ![job[w]] = Snapshot(jobs[job[w]])]
  /\ Goto(w, AfterRefresh(w))
  /\ Reads(w, Nothing)
  /\ UNCHANGED <<comfyVars, jobs, lock, op, job, asked>>

(***************************************************************************)
(* cancel, after its first refresh                                         *)
(***************************************************************************)

Decide(w) ==
  /\ At(w, "decide")
  /\ Goto(w, IF jobs[job[w]].state \in Terminal THEN "respond" ELSE "locate")
  /\ UNCHANGED <<comfyVars, storeVars, lock, op, job, read, asked>>

\* What is left of a cancel that has acted: refresh, then answer.
ReadBack(w) ==
  /\ op' = [op EXCEPT ![w] = "snapshot"]
  /\ Goto(w, "check")

Locate(w) ==
  /\ At(w, "locate")
  /\ CASE QueueAnswer(job[w]) = "pending" -> Goto(w, "delete") /\ UNCHANGED op
       [] QueueAnswer(job[w]) = "running" -> Goto(w, "interrupt") /\ UNCHANGED op
       [] OTHER                           -> ReadBack(w)
  /\ UNCHANGED <<comfyVars, storeVars, lock, job, read, asked>>

DeleteQueued(w) ==
  /\ At(w, "delete")
  /\ DeletePending(job[w])
  /\ Goto(w, "mark")
  /\ UNCHANGED <<storeVars, lock, op, job, read, asked>>

Mark(w) ==
  /\ At(w, "mark")
  /\ lock = Free
  /\ jobs' = [jobs EXCEPT ![job[w]].queueDeleted = TRUE]
  /\ ReadBack(w)
  /\ UNCHANGED <<comfyVars, view, lock, job, read, asked>>

Interrupt(w) ==
  /\ At(w, "interrupt")
  /\ InterruptExecuting
  /\ ReadBack(w)
  /\ UNCHANGED <<storeVars, lock, job, read, asked>>

\* ComfyError: the call was lost, or its answer was.
DeliveryFails(w) ==
  /\ \/ pc[w] \in {"locate", "delete", "interrupt"} /\ UNCHANGED comfyVars
     \/ At(w, "delete") /\ DeletePending(job[w])
     \/ At(w, "interrupt") /\ InterruptExecuting
  /\ Goto(w, "respond")
  /\ UNCHANGED <<storeVars, lock, op, job, read, asked>>

(***************************************************************************)
(* The answer: to_view is called by the route, without the lock, and reads *)
(* the state before it reads the rest.                                     *)
(***************************************************************************)

Respond(w) ==
  /\ At(w, "respond")
  /\ Reads(w, jobs[job[w]].state)
  /\ Goto(w, "payload")
  /\ UNCHANGED <<comfyVars, storeVars, lock, op, job, asked>>

RespondPayload(w) ==
  /\ At(w, "payload")
  /\ Reads(w, Nothing)
  /\ Goto(w, "idle")
  /\ UNCHANGED <<comfyVars, storeVars, lock, op, job, asked>>

\* The answer a worker would complete now.
Answer(w) == [Snapshot(jobs[job[w]]) EXCEPT !.state = read[w]]

(***************************************************************************)
(* note_progress: one hold of the lock, in ComfyUI's event thread.  The    *)
(* numbers may arrive late, but only of a prompt that executed.            *)
(***************************************************************************)
NoteProgress(j, step) ==
  /\ lock = Free
  /\ Known(j)
  /\ Started(j)
  /\ jobs[j].state \notin Terminal
  /\ jobs[j].progress # step
  /\ jobs' = [jobs EXCEPT ![j].progress = step]
  /\ view' = [view EXCEPT ![j] = Snapshot(jobs'[j])]
  /\ UNCHANGED <<comfyVars, lock, workerVars, asked>>

\* ComfyUI moves, or another client of it does.
Environment ==
  /\ \/ ComfyNext
     \/ \E p \in Prompts \ Jobs : AcceptPrompt(p)
  /\ UNCHANGED <<storeVars, lock, workerVars, asked>>

Request(w) ==
  \E j \in Jobs : AskToSubmit(w, j) \/ \E o \in Ops : Ask(w, o, j)

\* What a worker does next once it was asked; a failed call is not among them.
Step(w) ==
  \/ Submit(w) \/ Create(w)
  \/ Check(w) \/ ReadHistory(w) \/ ApplyHistory(w) \/ Settle(w) \/ Publish(w)
  \/ ReadQueue(w) \/ ApplySighting(w) \/ ApplyDeletion(w) \/ ApplyGap(w)
  \/ Decide(w) \/ Locate(w) \/ DeleteQueued(w) \/ Mark(w) \/ Interrupt(w)
  \/ Respond(w) \/ RespondPayload(w)

Failure(w) ==
  SubmitFails(w) \/ ReadHistoryFails(w) \/ ReadQueueFails(w) \/ DeliveryFails(w)

Next ==
  \/ \E w \in Workers : Request(w) \/ Step(w) \/ Failure(w)
  \/ \E j \in Jobs : \E step \in Steps : NoteProgress(j, step)
  \/ Environment

Spec == Init /\ [][Next]_vars

(***************************************************************************)
(* Fairness.  A thread that was started goes on; a call to ComfyUI that is *)
(* tried again and again is answered some time; and an open event stream,  *)
(* or an app that polls, keeps asking for every job.  Nothing is assumed   *)
(* of ComfyUI, nor that anybody ever cancels.                              *)
(***************************************************************************)
Watched(j) == \E w \in Workers : Ask(w, "change", j)

Fairness ==
  /\ \A w \in Workers : WF_vars(Step(w))
  /\ \A w \in Workers, j \in Jobs :
       /\ SF_vars(job[w] = j /\ ReadHistory(w))
       /\ SF_vars(job[w] = j /\ ReadQueue(w))
  /\ \A j \in Jobs : SF_vars(Watched(j))

FairSpec == Spec /\ Fairness

(***************************************************************************)
(* Properties.                                                             *)
(***************************************************************************)

\* Every variable has its type.
TypeOK ==
  /\ ComfyTypeOK
  /\ jobs \in [Jobs -> JobRecords]
  /\ view \in [Jobs -> Snapshots \cup {NoSnapshot}]
  /\ lock \in Workers \cup {Free}
  /\ pc \in [Workers -> Labels]
  /\ op \in [Workers -> Ops]
  /\ job \in [Workers -> Jobs]
  /\ read \in [Workers -> Readings]
  /\ asked \in SUBSET Jobs

\* Whatever the threads interleave to, a job is recorded as completed or failed
\* only when that is how its execution really ended, and as cancelled only when
\* it was really interrupted or somebody asked for it: refresh never carries one
\* prompt's outcome, or a stale reading, over into another outcome.
OutcomeIsComfys ==
  \A j \in Jobs :
    /\ jobs[j].state = "completed" => fate[j] = "success"
    /\ jobs[j].state = "failed" => fate[j] = "error"
    /\ jobs[j].state = "cancelled" => fate[j] = "interrupted" \/ j \in asked

\* What keeps OutcomeIsComfys true from step to step, part by part.

\* A fate is decided once, and history only ever holds prompts whose fate is.
ComfyConsistent ==
  \A p \in Prompts :
    /\ place[p] \in {"unsubmitted", "pending", "running"} => fate[p] = "none"
    /\ place[p] = "leaving" => fate[p] \in Ended
    /\ p \in history => fate[p] \in Ended

\* Where a worker stands says what it read; an outcome it carries is the real one,
\* and a deletion it carries was asked for.
ReadingsAreTrue ==
  \A w \in Workers :
    /\ At(w, "apply") => read[w] \in Ended \cup {"unsettled"}
    /\ At(w, "settle") => read[w] \in Ended \cup {"deleted"}
    /\ At(w, "applyQueue") => read[w] \in InQueue \cup {"absent"}
    /\ pc[w] \in {"apply", "settle"} /\ read[w] \in Ended =>
         fate[job[w]] = read[w]
    /\ At(w, "settle") => jobs[job[w]].state = StateOf(read[w])

\* Only a cancel acts on the queue, and what it leaves behind in a job is a trace
\* of having been asked.
CancelsWereAsked ==
  /\ \A w \in Workers :
       /\ op[w] = "cancel" => job[w] \in asked
       /\ pc[w] \in {"decide", "locate", "delete", "mark", "interrupt"} =>
            op[w] = "cancel"
       /\ At(w, "settle") /\ read[w] = "deleted" => job[w] \in asked
  /\ \A j \in Jobs : jobs[j].queueDeleted => j \in asked

\* The lock is held across two steps exactly while an outcome is half written, and
\* that job alone may then be incoherent.
LockGuardsOutcomes ==
  /\ \A w \in Workers : At(w, "settle") <=> lock = w
  /\ \A j \in Jobs :
       \/ Coherent(jobs[j])
       \/ \E w \in Workers : lock = w /\ job[w] = j

\* A payload belongs to the real outcome, also in a job that was reopened.
PayloadsAreReal ==
  \A j \in Jobs :
    /\ jobs[j].results => fate[j] = "success"
    /\ jobs[j].error => fate[j] = "error"

\* A job is created once, after its prompt was accepted, and handled after that.
CreatedOnce ==
  /\ \A j \in Jobs :
       /\ place[j] = "unsubmitted" => ~Known(j)
       /\ ~Known(j) => jobs[j] = NewJob
  /\ \A w \in Workers :
       /\ pc[w] \in {"submit", "create"} =>
            /\ ~Known(job[w])
            /\ \A v \in Workers \ {w} :
                 pc[v] \in {"submit", "create"} => job[v] # job[w]
       /\ At(w, "create") => place[job[w]] # "unsubmitted"
       /\ pc[w] \notin {"idle", "submit", "create"} =>
            Known(job[w]) /\ op[w] # "submit"

IInv ==
  /\ TypeOK
  /\ ComfyConsistent
  /\ ReadingsAreTrue
  /\ CancelsWereAsked
  /\ LockGuardsOutcomes
  /\ PayloadsAreReal
  /\ CreatedOnce
  /\ OutcomeIsComfys

\* The published snapshots are those of the abstract specification: an outcome is
\* published with its payload and never without, although _apply_history and
\* _publish take the lock separately and other threads write in between.
Promised == INSTANCE JobView WITH outcome <- [j \in Jobs |-> fate[j]]
PublishesWhatIsPromised == Promised!ViewSpec

\* A change of a job's view is published by whoever made it before it is done: a
\* job that nobody has left half handled is published as it stands.
BusyWith(w, j) == job[w] = j /\ pc[w] \in {"settle", "publish"}
NothingLeftUnpublished ==
  \A j \in Jobs :
    Known(j) /\ (\A w \in Workers : ~BusyWith(w, j))
      => view[j] = Snapshot(jobs[j])

\* A cancel interrupts only for a prompt that has started: it never answers a
\* waiting prompt with /interrupt, and never one it has itself deleted.
InterruptsOnlyTheStarted ==
  \A w \in Workers : At(w, "interrupt") => Started(job[w])

\* Once ComfyUI's history has the outcome, and keeps it, the watched job reaches
\* an outcome and stays there: threads with older readings may reopen it, but
\* not for ever.
RecordedOutcomeSticks ==
  \A j \in Jobs :
    <>[](j \in history /\ Known(j)) => <>[](view[j].state \in Terminal)

\* The worker read where the prompt was and has not written it down yet.
CarriesSighting(w, j) == job[w] = j /\ At(w, "applyQueue") /\ read[w] \in InQueue

\* Once a deletion that removed the prompt is marked, and no thread carries a
\* sighting from before it, the job is reported as cancelled for good: whatever
\* else the threads do, the claim survives until an absence confirms it (refresh).
\* A sighting read before the deletion and written after it does take the claim
\* back, and nothing restores it; nor is a deletion marked whose answer was lost.
DeletionIsNoticed ==
  \A j \in Jobs :
    (/\ fate[j] = "deleted"
     /\ jobs[j].queueDeleted
     /\ \A w \in Workers : ~CarriesSighting(w, j))
      ~> [](view[j].state = "cancelled")

\* An outcome, once recorded, is never revised.  It holds of one thread alone,
\* because refresh checks before it asks ComfyUI anything; with two it does not.
OutcomeIsFinal ==
  [][\A j \in Jobs :
       view[j].state \in Terminal => view'[j].state = view[j].state]_vars

=============================================================================
