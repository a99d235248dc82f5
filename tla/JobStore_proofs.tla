-------------------------- MODULE JobStore_proofs --------------------------
(***************************************************************************)
(* Theorems about JobStore for any number of jobs, threads and restarts.   *)
(***************************************************************************)
EXTENDS JobStore, TLAPS

LEMMA StateOfFacts ==
  /\ StateOf("success") = "completed"
  /\ StateOf("error") = "failed"
  /\ StateOf("interrupted") = "cancelled"
  /\ StateOf("deleted") = "cancelled"
  /\ StateOf("unsettled") = "running"
  /\ StateOf("running") = "running"
  /\ StateOf("pending") = "queued"
BY DEF StateOf

LEMMA AfterRefreshFacts ==
  ASSUME NEW w \in Workers
  PROVE  /\ AfterRefresh(w) \in {"respond", "decide", "idle"}
         /\ AfterRefresh(w) = "decide" <=> op[w] = "cancel"
         /\ op[w] = "submit" => AfterRefresh(w) = "idle"
BY DEF AfterRefresh

LEMMA SettledFacts ==
  ASSUME NEW r \in JobRecords, NEW f
  PROVE  /\ Settled(r, f) \in JobRecords
         /\ Settled(r, f).state = r.state
         /\ Settled(r, f).progress = NoProgress
         /\ Settled(r, f).results <=> f = "success"
         /\ Settled(r, f).error <=> f = "error"
         /\ Settled(r, f).queueDeleted = r.queueDeleted
BY DEF Settled, JobRecords, Progresses

LEMMA SnapshotFacts ==
  ASSUME NEW r \in JobRecords
  PROVE  /\ Snapshot(r) \in Snapshots
         /\ Snapshot(r) # NoSnapshot
         /\ Coherent(Snapshot(r)) <=> Coherent(r)
BY DEF Snapshot, JobRecords, Snapshots, NoSnapshot, JobStates, Coherent

LEMMA NewJobFacts ==
  /\ NewJob \in JobRecords
  /\ Snapshot(NewJob) = QueuedSnapshot
  /\ QueuedSnapshot \in Snapshots
  /\ QueuedSnapshot # NoSnapshot
BY DEF NewJob, JobRecords, JobStates, Progresses, Snapshot, QueuedSnapshot,
       NoSnapshot, Snapshots

LEMMA InitIInv == Init => IInv
<1> SUFFICES ASSUME Init PROVE IInv
  OBVIOUS
<1>1. TypeOK
  <2>1. ComfyTypeOK
    <3>1. restarts \in 0..MaxRestarts
      BY MaxRestartsAssumption DEF Init, ComfyInit
    <3> QED
      BY <3>1 DEF Init, ComfyInit, ComfyTypeOK, Places, Fates
  <2>2. jobs \in [Jobs -> JobRecords]
    BY NewJobFacts DEF Init
  <2> QED
    BY <2>1, <2>2 DEF Init, TypeOK, Labels, Ops, Readings
<1>2. ComfyConsistent /\ ReadingsAreTrue /\ CancelsWereAsked /\ OutcomeIsComfys
  BY DEF Init, ComfyInit, ComfyConsistent, ReadingsAreTrue, CancelsWereAsked,
         OutcomeIsComfys, At, NewJob
<1>3. LockGuardsOutcomes /\ PayloadsAreReal /\ CreatedOnce
  BY FreeAssumption
  DEF Init, ComfyInit, LockGuardsOutcomes, PayloadsAreReal, CreatedOnce, At, Known,
      NewJob, Coherent, Terminal
<1> QED
  BY <1>1, <1>2, <1>3 DEF IInv

(***************************************************************************)
(* What every step of ComfyUI, its own or one asked for, keeps.            *)
(***************************************************************************)
ComfyKeeps ==
  /\ ComfyTypeOK'
  /\ ComfyConsistent'
  /\ \A p \in Prompts :
       /\ fate[p] # "none" => fate'[p] = fate[p]
       /\ place[p] # "unsubmitted" => place'[p] # "unsubmitted"
       /\ Started(p) => Started(p)'

ComfySteps ==
  \/ ComfyNext
  \/ \E p \in Prompts : AcceptPrompt(p) \/ DeletePending(p)
  \/ InterruptExecuting
  \/ UNCHANGED comfyVars

LEMMA ComfyStepKeeps ==
  ASSUME ComfyTypeOK, ComfyConsistent, ComfySteps
  PROVE  ComfyKeeps
<1> USE DEF ComfyTypeOK, ComfyConsistent, ComfyKeeps, Places, Fates, Ended, Started,
            Executing
<1>1. ASSUME NEW p \in Prompts, StartNext(p) PROVE ComfyKeeps
  BY <1>1 DEF StartNext
<1>2. ASSUME NEW p \in Prompts, NEW outcome \in Ended, Finish(p, outcome)
      PROVE  ComfyKeeps
  BY <1>2 DEF Finish
<1>3. ASSUME NEW p \in Prompts, RecordHistory(p) PROVE ComfyKeeps
  BY <1>3 DEF RecordHistory
<1>4. CASE OutsideInterrupt
  BY <1>4 DEF OutsideInterrupt
<1>5. CASE ComfyRestart
  <2>1. restarts' \in 0..MaxRestarts
    BY <1>5, MaxRestartsAssumption DEF ComfyRestart
  <2> QED
    BY <1>5, <2>1 DEF ComfyRestart
<1>6. ASSUME NEW p \in Prompts, AcceptPrompt(p) PROVE ComfyKeeps
  BY <1>6 DEF AcceptPrompt
<1>7. ASSUME NEW p \in Prompts, DeletePending(p) PROVE ComfyKeeps
  BY <1>7 DEF DeletePending
<1>8. CASE InterruptExecuting
  BY <1>8 DEF InterruptExecuting
<1>9. CASE UNCHANGED comfyVars
  BY <1>9 DEF comfyVars
<1> QED
  BY <1>1, <1>2, <1>3, <1>4, <1>5, <1>6, <1>7, <1>8, <1>9 DEF ComfySteps, ComfyNext

(***************************************************************************)
(* One lemma for the steps of a kind, one step of its proof for the parts  *)
(* of IInv that are kept for the same reason.                              *)
(***************************************************************************)
\* A request is taken up.
LEMMA RequestStep ==
  ASSUME IInv, NEW w \in Workers, Request(w)
  PROVE  IInv'
<1> USE DEF IInv, TypeOK, At, Goto, Request, Ask, AskToSubmit, Ops, comfyVars,
        storeVars
<1>1. TypeOK'
  BY DEF ComfyTypeOK, Labels, Readings
<1>2. (ComfyConsistent /\ ReadingsAreTrue /\ CancelsWereAsked)'
  BY DEF ComfyConsistent, ReadingsAreTrue, CancelsWereAsked
<1>3. (LockGuardsOutcomes /\ PayloadsAreReal /\ CreatedOnce /\ OutcomeIsComfys)'
  BY DEF LockGuardsOutcomes, PayloadsAreReal, CreatedOnce, OutcomeIsComfys,
      Known
<1> QED
  BY <1>1, <1>2, <1>3

\* A worker goes on, having learnt nothing new.
LEMMA MoveStep ==
  ASSUME IInv, NEW w \in Workers,
         Check(w) \/ ReadHistoryFails(w) \/ ReadQueueFails(w) \/ Decide(w)
  PROVE  IInv'
<1> USE AfterRefreshFacts DEF IInv, TypeOK, At, Goto, Check, ReadHistoryFails,
        ReadQueueFails, Decide, comfyVars, storeVars
<1>1. TypeOK'
  BY DEF ComfyTypeOK, Labels, Readings
<1>2. (ComfyConsistent /\ ReadingsAreTrue /\ CancelsWereAsked)'
  BY DEF ComfyConsistent, ReadingsAreTrue, CancelsWereAsked
<1>3. (LockGuardsOutcomes /\ PayloadsAreReal /\ CreatedOnce /\ OutcomeIsComfys)'
  BY DEF LockGuardsOutcomes, PayloadsAreReal, CreatedOnce, OutcomeIsComfys,
      Known
<1> QED
  BY <1>1, <1>2, <1>3

\* The answer is put together.
LEMMA RespondStep ==
  ASSUME IInv, NEW w \in Workers, Respond(w) \/ RespondPayload(w)
  PROVE  IInv'
<1> USE DEF IInv, TypeOK, At, Goto, Respond, RespondPayload, Reads, Nothing,
        comfyVars, storeVars
<1>1. TypeOK'
  BY DEF ComfyTypeOK, Labels, Readings, JobRecords
<1>2. (ComfyConsistent /\ ReadingsAreTrue /\ CancelsWereAsked)'
  BY DEF ComfyConsistent, ReadingsAreTrue, CancelsWereAsked
<1>3. (LockGuardsOutcomes /\ PayloadsAreReal /\ CreatedOnce /\ OutcomeIsComfys)'
  BY DEF LockGuardsOutcomes, PayloadsAreReal, CreatedOnce, OutcomeIsComfys,
      Known
<1> QED
  BY <1>1, <1>2, <1>3

\* ComfyUI is asked something.
LEMMA ReadStep ==
  ASSUME IInv, NEW w \in Workers, ReadHistory(w) \/ ReadQueue(w)
  PROVE  IInv'
<1> USE JobsAssumption DEF IInv, TypeOK, At, Goto, ReadHistory, ReadQueue,
        HistoryAnswers, QueueAnswer, Reads, Ended, InQueue, comfyVars,
        storeVars
<1>1. TypeOK'
  BY DEF ComfyTypeOK, Labels, Readings, Entries, ComfyConsistent
<1>2. (ComfyConsistent /\ ReadingsAreTrue /\ CancelsWereAsked)'
  BY DEF ComfyConsistent, ReadingsAreTrue, CancelsWereAsked
<1>3. (LockGuardsOutcomes /\ PayloadsAreReal /\ CreatedOnce /\ OutcomeIsComfys)'
  BY DEF LockGuardsOutcomes, PayloadsAreReal, CreatedOnce, OutcomeIsComfys,
      Known
<1> QED
  BY <1>1, <1>2, <1>3

\* A cancel looks for its prompt.
LEMMA LocateStep ==
  ASSUME IInv, NEW w \in Workers, Locate(w)
  PROVE  IInv'
<1> USE DEF IInv, TypeOK, At, Goto, Locate, ReadBack, QueueAnswer, Ops,
        comfyVars, storeVars
<1>1. TypeOK'
  BY DEF ComfyTypeOK, Labels, Readings
<1>2. (ComfyConsistent /\ ReadingsAreTrue /\ CancelsWereAsked)'
  BY DEF ComfyConsistent, ReadingsAreTrue, CancelsWereAsked
<1>3. (LockGuardsOutcomes /\ PayloadsAreReal /\ CreatedOnce /\ OutcomeIsComfys)'
  BY DEF LockGuardsOutcomes, PayloadsAreReal, CreatedOnce, OutcomeIsComfys,
      Known
<1> QED
  BY <1>1, <1>2, <1>3

\* ComfyUI is told something, or fails to answer.
LEMMA TellStep ==
  ASSUME IInv, NEW w \in Workers,
         Submit(w) \/ SubmitFails(w) \/ DeleteQueued(w) \/ Interrupt(w)
           \/ DeliveryFails(w)
  PROVE  IInv'
<1> USE JobsAssumption DEF IInv, TypeOK, At, Goto, Submit, SubmitFails,
        DeleteQueued, Interrupt, DeliveryFails, ReadBack, storeVars
<1>0. ComfyKeeps
  BY ComfyStepKeeps DEF ComfySteps
<1>1. TypeOK'
  BY <1>0 DEF ComfyKeeps, Labels, Ops
<1>2. (ComfyConsistent /\ ReadingsAreTrue /\ CancelsWereAsked)'
  BY <1>0 DEF ComfyConsistent, ReadingsAreTrue, CancelsWereAsked, ComfyKeeps,
      Ended
<1>3. (LockGuardsOutcomes /\ PayloadsAreReal /\ CreatedOnce /\ OutcomeIsComfys)'
  BY <1>0 DEF LockGuardsOutcomes, PayloadsAreReal, CreatedOnce,
      OutcomeIsComfys, Known, ComfyKeeps, ComfyTypeOK, AcceptPrompt, Ended
<1> QED
  BY <1>1, <1>2, <1>3

\* ComfyUI moves on its own.
LEMMA EnvironmentStep ==
  ASSUME IInv, Environment
  PROVE  IInv'
<1> USE JobsAssumption DEF IInv, TypeOK, At, Goto, Environment, storeVars,
        workerVars
<1>0. ComfyKeeps
  BY ComfyStepKeeps DEF ComfySteps
<1>1. TypeOK'
  BY <1>0 DEF ComfyKeeps
<1>2. (ComfyConsistent /\ ReadingsAreTrue /\ CancelsWereAsked)'
  BY <1>0 DEF ComfyConsistent, ReadingsAreTrue, CancelsWereAsked, ComfyKeeps,
      Ended
<1>3. (LockGuardsOutcomes /\ PayloadsAreReal /\ CreatedOnce /\ OutcomeIsComfys)'
  BY <1>0 DEF LockGuardsOutcomes, PayloadsAreReal, CreatedOnce,
      OutcomeIsComfys, Known, ComfyKeeps, Ended
<1> QED
  BY <1>1, <1>2, <1>3

\* A job is created.
LEMMA CreateStep ==
  ASSUME IInv, NEW w \in Workers, Create(w)
  PROVE  IInv'
<1> USE NewJobFacts DEF IInv, TypeOK, At, Goto, Create, comfyVars
<1>1. TypeOK'
  BY DEF ComfyTypeOK, Labels, Readings
<1>2. (ComfyConsistent /\ ReadingsAreTrue /\ CancelsWereAsked)'
  BY DEF ComfyConsistent, ReadingsAreTrue, CancelsWereAsked
<1>3. (LockGuardsOutcomes /\ PayloadsAreReal /\ CreatedOnce /\ OutcomeIsComfys)'
  BY DEF LockGuardsOutcomes, PayloadsAreReal, CreatedOnce, OutcomeIsComfys,
      Known
<1> QED
  BY <1>1, <1>2, <1>3

(***************************************************************************)
(* The steps that write a job.  Whoever writes holds the lock, so no other *)
(* worker is half way through an outcome.                                  *)
(***************************************************************************)
LEMMA NobodySettles ==
  ASSUME IInv, lock = Free, NEW w \in Workers
  PROVE  ~At(w, "settle") /\ \A j \in Jobs : Coherent(jobs[j])
BY FreeAssumption DEF IInv, LockGuardsOutcomes

\* An outcome's state is written, or a job is found still to be running.
LEMMA ApplyHistoryStep ==
  ASSUME IInv, NEW w \in Workers, ApplyHistory(w)
  PROVE  IInv'
<1> USE StateOfFacts, FreeAssumption, NobodySettles
    DEF IInv, TypeOK, At, Goto, Reads, ApplyHistory, comfyVars
<1>1. TypeOK'
  <2>1. StateOf(read[w]) \in JobStates
    BY DEF ReadingsAreTrue, Ended, JobStates
  <2>2. jobs' \in [Jobs -> JobRecords]
    BY <2>1 DEF JobRecords
  <2> QED
    BY <2>2 DEF ComfyTypeOK, Labels, Readings
<1>2. (ComfyConsistent /\ CancelsWereAsked)'
  BY DEF ComfyConsistent, CancelsWereAsked, ReadingsAreTrue, JobRecords, Ended
<1>3. ReadingsAreTrue'
  BY DEF ReadingsAreTrue, JobRecords, Nothing, Ended
<1>4. LockGuardsOutcomes'
  BY DEF LockGuardsOutcomes, ReadingsAreTrue, JobRecords, Coherent, Terminal, Ended
<1>5. (PayloadsAreReal /\ CreatedOnce)'
  BY DEF PayloadsAreReal, CreatedOnce, Known, JobRecords
<1>6. OutcomeIsComfys'
  BY DEF OutcomeIsComfys, ReadingsAreTrue, JobRecords, Ended
<1> QED
  BY <1>1, <1>2, <1>3, <1>4, <1>5, <1>6

\* Its payload follows, and the lock is released.
LEMMA SettleStep ==
  ASSUME IInv, NEW w \in Workers, Settle(w)
  PROVE  IInv'
<1> USE AfterRefreshFacts DEF IInv, TypeOK, At, Goto, Reads, Settle, comfyVars
<1>1. TypeOK'
  <2>1. jobs' \in [Jobs -> JobRecords]
    BY SettledFacts
  <2>2. view' \in [Jobs -> Snapshots \cup {NoSnapshot}]
    BY SnapshotFacts, <2>1
  <2> QED
    BY <2>1, <2>2 DEF ComfyTypeOK, Labels, Readings
<1>2. (ComfyConsistent /\ ReadingsAreTrue /\ CancelsWereAsked /\ OutcomeIsComfys)'
  BY SMTT(30)
  DEF ComfyConsistent, ReadingsAreTrue, CancelsWereAsked, LockGuardsOutcomes,
         OutcomeIsComfys, Settled, JobRecords, Nothing
<1>3. LockGuardsOutcomes'
  BY StateOfFacts, FreeAssumption
  DEF ReadingsAreTrue, LockGuardsOutcomes, Settled, Coherent, Terminal, JobRecords,
      Ended
<1>4. PayloadsAreReal'
  BY DEF ReadingsAreTrue, PayloadsAreReal, Settled, JobRecords, Ended
<1>5. CreatedOnce'
  <2>1. Snapshot(jobs'[job[w]]) # NoSnapshot
    BY <1>1, SnapshotFacts
  <2> QED
    BY <2>1 DEF CreatedOnce, Known
<1> QED
  BY <1>1, <1>2, <1>3, <1>4, <1>5

\* A job is published as it stands.
LEMMA PublishStep ==
  ASSUME IInv, NEW w \in Workers, Publish(w) \/ ApplyGap(w)
  PROVE  IInv'
<1> USE AfterRefreshFacts, SnapshotFacts
    DEF IInv, TypeOK, At, Goto, Reads, Nothing, Publish, ApplyGap, comfyVars
<1>1. TypeOK'
  BY DEF ComfyTypeOK, Labels, Readings
<1>2. (ComfyConsistent /\ ReadingsAreTrue /\ CancelsWereAsked)'
  BY DEF ComfyConsistent, ReadingsAreTrue, CancelsWereAsked
<1>3. (LockGuardsOutcomes /\ PayloadsAreReal /\ CreatedOnce /\ OutcomeIsComfys)'
  BY DEF LockGuardsOutcomes, PayloadsAreReal, CreatedOnce, OutcomeIsComfys, Known
<1> QED
  BY <1>1, <1>2, <1>3

\* The prompt was seen in the queue.
LEMMA ApplySightingStep ==
  ASSUME IInv, NEW w \in Workers, ApplySighting(w)
  PROVE  IInv'
<1> USE AfterRefreshFacts, StateOfFacts, NobodySettles
    DEF IInv, TypeOK, At, Goto, Reads, ApplySighting, comfyVars
<1> DEFINE r == [jobs[job[w]] EXCEPT !.queueDeleted = FALSE,
                                     !.state = StateOf(read[w])]
<1>1. StateOf(read[w]) \in JobStates \ Terminal
  BY DEF InQueue, JobStates, Terminal
<1>2. TypeOK'
  <2>1. jobs[job[w]] \in JobRecords
    OBVIOUS
  <2>2. r \in JobRecords
    BY <1>1, <2>1 DEF JobRecords
  <2>3. jobs' = [jobs EXCEPT ![job[w]] = r]
    OBVIOUS
  <2>4. jobs' \in [Jobs -> JobRecords]
    BY <2>2, <2>3
  <2>5. view' \in [Jobs -> Snapshots \cup {NoSnapshot}]
    BY <2>4, SnapshotFacts
  <2> QED
    BY <2>4, <2>5 DEF ComfyTypeOK, Labels, Readings
<1>3. (ComfyConsistent /\ CancelsWereAsked)'
  BY DEF ComfyConsistent, CancelsWereAsked, JobRecords
<1>4. ReadingsAreTrue'
  BY FreeAssumption DEF ReadingsAreTrue, LockGuardsOutcomes, Nothing, Ended
<1>5. LockGuardsOutcomes'
  BY <1>1 DEF LockGuardsOutcomes, Coherent, JobRecords
<1>6. (PayloadsAreReal /\ OutcomeIsComfys)'
  BY DEF PayloadsAreReal, OutcomeIsComfys, JobRecords, InQueue
<1>7. CreatedOnce'
  <2>1. Snapshot(jobs'[job[w]]) # NoSnapshot
    BY <1>2, SnapshotFacts
  <2> QED
    BY <2>1 DEF CreatedOnce, Known
<1> QED
  BY <1>2, <1>3, <1>4, <1>5, <1>6, <1>7

\* A prompt that is nowhere, and whose deletion was asked for.
LEMMA ApplyDeletionStep ==
  ASSUME IInv, NEW w \in Workers, ApplyDeletion(w)
  PROVE  IInv'
<1> USE StateOfFacts, FreeAssumption, NobodySettles
    DEF IInv, TypeOK, At, Goto, Reads, ApplyDeletion, comfyVars, JobRecords
<1>1. TypeOK'
  BY DEF ComfyTypeOK, Labels, Readings, JobStates
<1>2. (ComfyConsistent /\ CancelsWereAsked)'
  BY DEF ComfyConsistent, CancelsWereAsked
<1>3. ReadingsAreTrue'
  BY DEF ReadingsAreTrue, LockGuardsOutcomes, Ended
<1>4. LockGuardsOutcomes'
  BY DEF LockGuardsOutcomes, Coherent, Terminal
<1>5. (PayloadsAreReal /\ CreatedOnce /\ OutcomeIsComfys)'
  BY DEF PayloadsAreReal, CreatedOnce, OutcomeIsComfys, CancelsWereAsked, Known
<1> QED
  BY <1>1, <1>2, <1>3, <1>4, <1>5

\* ComfyUI answered the deletion, and the job remembers that.
LEMMA MarkStep ==
  ASSUME IInv, NEW w \in Workers, Mark(w)
  PROVE  IInv'
<1> USE DEF IInv, TypeOK, At, Goto, ReadBack, Mark, comfyVars, JobRecords
<1>1. TypeOK'
  BY ZenonT(40) DEF ComfyTypeOK, Labels, Ops
<1>2. (ComfyConsistent /\ ReadingsAreTrue /\ CancelsWereAsked)'
  BY DEF ComfyConsistent, ReadingsAreTrue, CancelsWereAsked
<1>3. LockGuardsOutcomes'
  BY DEF LockGuardsOutcomes, Coherent
<1>4. (PayloadsAreReal /\ CreatedOnce /\ OutcomeIsComfys)'
  BY DEF PayloadsAreReal, CreatedOnce, OutcomeIsComfys, Known
<1> QED
  BY <1>1, <1>2, <1>3, <1>4

\* Progress is noted.
LEMMA NoteProgressStep ==
  ASSUME IInv, NEW j \in Jobs, NEW step \in Steps, NoteProgress(j, step)
  PROVE  IInv'
<1> USE DEF IInv, TypeOK, At, NoteProgress, workerVars, comfyVars, JobRecords
<1>1. TypeOK'
  <2>1. jobs' \in [Jobs -> JobRecords]
    BY DEF Progresses
  <2>2. view' \in [Jobs -> Snapshots \cup {NoSnapshot}]
    BY <2>1, SnapshotFacts
  <2> QED
    BY <2>1, <2>2 DEF ComfyTypeOK
<1>2. (ComfyConsistent /\ ReadingsAreTrue /\ CancelsWereAsked)'
  BY DEF ComfyConsistent, ReadingsAreTrue, CancelsWereAsked
<1>3. LockGuardsOutcomes'
  BY DEF LockGuardsOutcomes, Coherent
<1>4. (PayloadsAreReal /\ OutcomeIsComfys)'
  BY DEF PayloadsAreReal, OutcomeIsComfys
<1>5. CreatedOnce'
  BY <1>1, SnapshotFacts DEF CreatedOnce, Known
<1> QED
  BY <1>1, <1>2, <1>3, <1>4, <1>5

LEMMA StutterStep ==
  ASSUME IInv, UNCHANGED vars
  PROVE  IInv'
<1> USE DEF vars, comfyVars, storeVars, workerVars
<1>1. TypeOK'
  BY DEF IInv, TypeOK, ComfyTypeOK
<1>2. (ComfyConsistent /\ ReadingsAreTrue /\ CancelsWereAsked)'
  BY DEF IInv, ComfyConsistent, ReadingsAreTrue, CancelsWereAsked, At
<1>3. (LockGuardsOutcomes /\ PayloadsAreReal /\ CreatedOnce /\ OutcomeIsComfys)'
  BY DEF IInv, LockGuardsOutcomes, PayloadsAreReal, CreatedOnce, OutcomeIsComfys,
         At, Known
<1> QED
  BY <1>1, <1>2, <1>3 DEF IInv

LEMMA NextIInv == IInv /\ [Next]_vars => IInv'
<1> SUFFICES ASSUME IInv, [Next]_vars PROVE IInv'
  OBVIOUS
<1>1. ASSUME NEW w \in Workers, Request(w) PROVE IInv'
  BY <1>1, RequestStep
<1>2. ASSUME NEW w \in Workers, Step(w) PROVE IInv'
  <2>1. CASE Check(w) \/ Decide(w) \/ Respond(w) \/ RespondPayload(w)
    BY <2>1, MoveStep, RespondStep
  <2>2. CASE ReadHistory(w) \/ ReadQueue(w) \/ Locate(w)
    BY <2>2, ReadStep, LocateStep
  <2>3. CASE Submit(w) \/ DeleteQueued(w) \/ Interrupt(w)
    BY <2>3, TellStep
  <2>4. CASE Create(w) \/ Publish(w) \/ ApplyGap(w) \/ Mark(w)
    BY <2>4, CreateStep, PublishStep, MarkStep
  <2>5. CASE ApplyHistory(w) \/ Settle(w) \/ ApplySighting(w) \/ ApplyDeletion(w)
    BY <2>5, ApplyHistoryStep, SettleStep, ApplySightingStep, ApplyDeletionStep
  <2> QED
    BY <1>2, <2>1, <2>2, <2>3, <2>4, <2>5 DEF Step
<1>3. ASSUME NEW w \in Workers, Failure(w) PROVE IInv'
  BY <1>3, TellStep, MoveStep DEF Failure
<1>4. ASSUME NEW j \in Jobs, NEW step \in Steps, NoteProgress(j, step) PROVE IInv'
  BY <1>4, NoteProgressStep
<1>5. CASE Environment
  BY <1>5, EnvironmentStep
<1>6. CASE UNCHANGED vars
  BY <1>6, StutterStep
<1> QED
  BY <1>1, <1>2, <1>3, <1>4, <1>5, <1>6 DEF Next

\* The inductive invariant holds in every reachable state.
THEOREM Inductive == Spec => []IInv
  BY InitIInv, NextIInv, PTL DEF Spec

\* Every variable keeps its type.
THEOREM TypeCorrect == Spec => []TypeOK
<1>1. IInv => TypeOK
  BY DEF IInv
<1> QED
  BY Inductive, <1>1, PTL

\* However many threads refresh a job at once, the gateway never records it as
\* completed or failed when its execution ended otherwise, and as cancelled only
\* when it was interrupted or a cancel was asked for.
THEOREM OutcomesAreReal == Spec => []OutcomeIsComfys
<1>1. IInv => OutcomeIsComfys
  BY DEF IInv
<1> QED
  BY Inductive, <1>1, PTL

(***************************************************************************)
(* The job store implements JobView, and publishes every change it made.   *)
(***************************************************************************)

LEMMA InitPublished == Init => NothingLeftUnpublished /\ InterruptsOnlyTheStarted
  BY DEF Init, NothingLeftUnpublished, InterruptsOnlyTheStarted, Known, At

(***************************************************************************)
(* The steps that touch neither a job nor a view.                          *)
(***************************************************************************)
AnyRequest(w) == \E j \in Jobs : AskToSubmit(w, j) \/ \E o \in Ops : Ask(w, o, j)

QuietStep(w) ==
  \/ AnyRequest(w)
  \/ Submit(w) \/ Check(w) \/ ReadHistory(w) \/ ReadQueue(w) \/ Decide(w)
  \/ Locate(w) \/ DeleteQueued(w) \/ Interrupt(w) \/ Respond(w)
  \/ RespondPayload(w) \/ Failure(w)

\* What they have in common: w was not busy with a job and nobody else moved.
Quiet(w) ==
  /\ UNCHANGED storeVars
  /\ ComfySteps
  /\ UNCHANGED comfyVars \/ UNCHANGED asked
  /\ \E j \in Jobs : asked' \in {asked, asked \cup {j}} /\ (asked' # asked => Known(j))
  /\ pc[w] \notin {"settle", "publish"}
  /\ \A v \in Workers \ {w} : pc'[v] = pc[v] /\ job'[v] = job[v]
  /\ At(w, "interrupt")' => At(w, "locate") /\ Executing(job[w]) /\ job'[w] = job[w]

LEMMA QuietStepIsQuiet ==
  ASSUME IInv, NEW w \in Workers, QuietStep(w)
  PROVE  Quiet(w)
<1> USE JobsAssumption DEF IInv, TypeOK, Quiet, Goto, At, comfyVars, storeVars, ComfySteps
<1>1. CASE AnyRequest(w)
  BY <1>1 DEF AnyRequest, Ask, AskToSubmit
<1>2. CASE Submit(w) \/ DeleteQueued(w)
  BY <1>2 DEF Submit, DeleteQueued
<1>3. CASE Interrupt(w)
  BY <1>3 DEF Interrupt, ReadBack
<1>4. CASE Check(w) \/ ReadHistory(w) \/ ReadQueue(w)
  BY <1>4, AfterRefreshFacts DEF Check, ReadHistory, ReadQueue
<1>5. CASE Decide(w) \/ Respond(w) \/ RespondPayload(w)
  BY <1>5 DEF Decide, Respond, RespondPayload
<1>6. CASE Locate(w)
  BY <1>6 DEF Locate, ReadBack, QueueAnswer, Executing
<1>7. CASE Failure(w)
  BY <1>7, AfterRefreshFacts DEF Failure, SubmitFails, ReadHistoryFails,
     ReadQueueFails, DeliveryFails
<1> QED
  BY <1>1, <1>2, <1>3, <1>4, <1>5, <1>6, <1>7 DEF QuietStep

LEMMA QuietPublished ==
  ASSUME IInv, NothingLeftUnpublished, InterruptsOnlyTheStarted,
         NEW w \in Workers, Quiet(w)
  PROVE  (NothingLeftUnpublished /\ InterruptsOnlyTheStarted)'
<1>1. ComfyKeeps
  BY ComfyStepKeeps DEF IInv, TypeOK, Quiet
<1>2. NothingLeftUnpublished'
  BY DEF NothingLeftUnpublished, Quiet, storeVars, Known, BusyWith
<1>3. InterruptsOnlyTheStarted'
  BY <1>1, JobsAssumption
  DEF InterruptsOnlyTheStarted, Quiet, ComfyKeeps, At, IInv, TypeOK, Started
<1> QED
  BY <1>2, <1>3

LEMMA QuietImplements ==
  ASSUME IInv, NEW w \in Workers, Quiet(w)
  PROVE  [Promised!ViewNext]_(Promised!viewVars)
<1>1. ComfyKeeps
  BY ComfyStepKeeps DEF IInv, TypeOK, Quiet
<1>2. CASE UNCHANGED asked
  <2>1. Promised!End
    BY <1>1, <1>2, JobsAssumption DEF Promised!End, Promised!Outcomes, ComfyKeeps,
       ComfyTypeOK, Fates, Ended, Quiet, storeVars
  <2> QED
    BY <2>1 DEF Promised!ViewNext
<1>3. CASE asked' # asked
  <2>1. PICK j \in Jobs : asked' = asked \cup {j} /\ Known(j)
    BY <1>3 DEF Quiet
  <2>2. Promised!AskToCancel(j)
    BY <1>3, <2>1 DEF Promised!AskToCancel, Quiet, storeVars, comfyVars, Known,
       NoSnapshot, Promised!NoSnapshot
  <2> QED
    BY <2>2 DEF Promised!ViewNext
<1> QED
  BY <1>2, <1>3

(***************************************************************************)
(* The steps that publish.                                                 *)
(***************************************************************************)
\* What one step does to the views: nothing, or one job appears, or one job's view
\* becomes the snapshot of its record, which is coherent.
Published(j) ==
  /\ view[j] # NoSnapshot
  /\ jobs' \in [Jobs -> JobRecords]
  /\ Coherent(jobs'[j])
  /\ view' = [view EXCEPT ![j] = Snapshot(jobs'[j])]
  /\ UNCHANGED <<fate, asked>>

LEMMA PublishedImplements ==
  ASSUME IInv, NEW j \in Jobs, Published(j),
         jobs'[j].results => fate[j] = "success",
         jobs'[j].error => fate[j] = "error",
         jobs'[j].state = "completed" => fate[j] = "success",
         jobs'[j].state = "failed" => fate[j] = "error",
         jobs'[j].state = "cancelled" => fate[j] = "interrupted" \/ j \in asked
  PROVE  [Promised!ViewNext]_(Promised!viewVars)
<1> DEFINE s == Snapshot(jobs'[j])
<1>1. s \in Snapshots /\ Coherent(s)
  BY SnapshotFacts DEF Published
<1>2. Promised!Justified(s, fate[j], j \in asked)
  BY DEF Promised!Justified, Snapshot
<1>3. CASE s = view[j]
  <2>1. view' = view
    BY <1>3 DEF Published, IInv, TypeOK
  <2> QED
    BY <2>1 DEF Promised!viewVars, Published
<1>4. CASE s # view[j]
  <2>1. Promised!Publish(j, s)
    BY <1>1, <1>2, <1>4 DEF Promised!Publish, Published, Coherent,
       Promised!Coherent, Snapshots, Promised!Snapshots, NoSnapshot,
       Promised!NoSnapshot, Promised!Terminal, Terminal, Promised!JobStates,
       JobStates, Promised!Progresses, Progresses
  <2> QED
    BY <1>1, <2>1 DEF Promised!ViewNext, Snapshots, Promised!Snapshots,
       Promised!JobStates, JobStates, Promised!Progresses, Progresses
<1> QED
  BY <1>3, <1>4

\* Publishing steps: the lock is free or w's, jobs other than j are as they were,
\* and j is published as it now stands.
Publishes(j) ==
  /\ Published(j)
  /\ \A i \in Jobs \ {j} : jobs'[i] = jobs[i]
  /\ UNCHANGED comfyVars
  /\ \A v \in Workers : \A i \in Jobs : BusyWith(v, i) => BusyWith(v, i)' \/ i = j
  /\ \A v \in Workers : At(v, "interrupt")' => At(v, "interrupt") /\ UNCHANGED job

LEMMA SettlePublishes ==
  ASSUME IInv, IInv', NEW w \in Workers, Settle(w), read[w] = "deleted"
  PROVE  Publishes(job[w])
<1> USE AfterRefreshFacts DEF IInv, TypeOK, Settle, At, Goto, comfyVars
<1>1. Coherent(jobs'[job[w]])
  BY FreeAssumption DEF LockGuardsOutcomes
<1>2. Published(job[w])
  BY <1>1 DEF Published, CreatedOnce, Known
<1> QED
  BY <1>2 DEF Publishes, BusyWith

LEMMA PublishPublishes ==
  ASSUME IInv, IInv', NEW w \in Workers,
         Publish(w) \/ ApplySighting(w) \/ ApplyGap(w)
  PROVE  Publishes(job[w])
<1> USE AfterRefreshFacts
    DEF IInv, TypeOK, Publish, ApplySighting, ApplyGap, At, Goto, comfyVars
<1>1. Coherent(jobs'[job[w]])
  BY FreeAssumption DEF LockGuardsOutcomes
<1>2. Published(job[w])
  BY <1>1 DEF Published, CreatedOnce, Known
<1> QED
  BY <1>2 DEF Publishes, BusyWith

LEMMA NoteProgressPublishes ==
  ASSUME IInv, IInv', NEW j \in Jobs, NEW step \in Steps, NoteProgress(j, step)
  PROVE  Publishes(j)
<1> USE DEF IInv, TypeOK, NoteProgress, At, comfyVars, workerVars
<1>1. Coherent(jobs'[j])
  BY FreeAssumption DEF LockGuardsOutcomes
<1>2. Published(j)
  BY <1>1 DEF Published, Known
<1> QED
  BY <1>2 DEF Publishes, BusyWith

LEMMA PublishesKeeps ==
  ASSUME IInv, IInv', NothingLeftUnpublished, InterruptsOnlyTheStarted,
         NEW j \in Jobs, Publishes(j)
  PROVE  /\ (NothingLeftUnpublished /\ InterruptsOnlyTheStarted)'
         /\ [Promised!ViewNext]_(Promised!viewVars)
<1>1. NothingLeftUnpublished'
  BY DEF NothingLeftUnpublished, Publishes, Published, Known, IInv, TypeOK
<1>2. InterruptsOnlyTheStarted'
  BY DEF InterruptsOnlyTheStarted, Publishes, At, comfyVars, Started, Executing
<1>3. [Promised!ViewNext]_(Promised!viewVars)
  BY PublishedImplements
  DEF Publishes, Published, IInv, PayloadsAreReal, OutcomeIsComfys
<1> QED
  BY <1>1, <1>2, <1>3

(***************************************************************************)
(* The steps that change a job and publish it later, and creation.         *)
(***************************************************************************)
LEMMA LaterPublished ==
  ASSUME IInv, NothingLeftUnpublished, InterruptsOnlyTheStarted, NEW w \in Workers,
         ApplyHistory(w) \/ ApplyDeletion(w) \/ Mark(w)
           \/ (Settle(w) /\ read[w] # "deleted")
  PROVE  /\ (NothingLeftUnpublished /\ InterruptsOnlyTheStarted)'
         /\ UNCHANGED Promised!viewVars
<1> USE DEF IInv, TypeOK, ApplyHistory, ApplyDeletion, Mark, Settle, ReadBack, At,
            Goto, comfyVars
<1>1. NothingLeftUnpublished'
  BY DEF NothingLeftUnpublished, BusyWith, Known, Snapshot, JobRecords
<1>2. InterruptsOnlyTheStarted'
  BY DEF InterruptsOnlyTheStarted, Started, Executing
<1>3. UNCHANGED Promised!viewVars
  BY DEF Promised!viewVars
<1> QED
  BY <1>1, <1>2, <1>3

LEMMA CreatePublishes ==
  ASSUME IInv, NothingLeftUnpublished, InterruptsOnlyTheStarted, NEW w \in Workers,
         Create(w)
  PROVE  /\ (NothingLeftUnpublished /\ InterruptsOnlyTheStarted)'
         /\ Promised!ViewNext
<1> USE DEF IInv, TypeOK, Create, At, Goto, comfyVars
<1>1. view[job[w]] = NoSnapshot /\ jobs[job[w]] = NewJob
  BY DEF CreatedOnce, Known
<1>2. NothingLeftUnpublished'
  BY <1>1, NewJobFacts DEF NothingLeftUnpublished, BusyWith, Known
<1>3. InterruptsOnlyTheStarted'
  BY DEF InterruptsOnlyTheStarted, Started, Executing
<1>4. Promised!Appear(job[w])
  BY <1>1 DEF Promised!Appear, NoSnapshot, Promised!NoSnapshot, QueuedSnapshot,
     Promised!QueuedSnapshot
<1> QED
  BY <1>2, <1>3, <1>4 DEF Promised!ViewNext

LEMMA EnvironmentImplements ==
  ASSUME IInv, NothingLeftUnpublished, InterruptsOnlyTheStarted, Environment
  PROVE  /\ (NothingLeftUnpublished /\ InterruptsOnlyTheStarted)'
         /\ Promised!ViewNext
<1>1. ComfyKeeps
  BY ComfyStepKeeps DEF IInv, TypeOK, Environment, ComfySteps
<1>2. NothingLeftUnpublished'
  BY DEF Environment, NothingLeftUnpublished, storeVars, workerVars, Known, BusyWith
<1>3. InterruptsOnlyTheStarted'
  BY <1>1, JobsAssumption
  DEF Environment, InterruptsOnlyTheStarted, ComfyKeeps, workerVars, At, IInv, TypeOK,
      Started
<1>4. Promised!End
  BY <1>1, JobsAssumption DEF Environment, Promised!End, Promised!Outcomes, ComfyKeeps,
     ComfyTypeOK, Fates, Ended, storeVars
<1> QED
  BY <1>2, <1>3, <1>4 DEF Promised!ViewNext

LEMMA NextImplements ==
  ASSUME IInv, IInv', NothingLeftUnpublished, InterruptsOnlyTheStarted, [Next]_vars
  PROVE  /\ (NothingLeftUnpublished /\ InterruptsOnlyTheStarted)'
         /\ [Promised!ViewNext]_(Promised!viewVars)
<1>1. ASSUME NEW w \in Workers, QuietStep(w)
      PROVE  /\ (NothingLeftUnpublished /\ InterruptsOnlyTheStarted)'
             /\ [Promised!ViewNext]_(Promised!viewVars)
  BY <1>1, QuietStepIsQuiet, QuietPublished, QuietImplements
<1>2. ASSUME NEW w \in Workers, Request(w) \/ Failure(w) PROVE QuietStep(w)
  BY <1>2 DEF QuietStep, Request, AnyRequest
<1>3. ASSUME NEW w \in Workers, Step(w)
      PROVE  /\ (NothingLeftUnpublished /\ InterruptsOnlyTheStarted)'
             /\ [Promised!ViewNext]_(Promised!viewVars)
  <2>0. job[w] \in Jobs
    BY DEF IInv, TypeOK
  <2>1. CASE QuietStep(w)
    BY <1>1, <2>1
  <2>2. CASE Create(w)
    BY <2>2, CreatePublishes
  <2>3. CASE \/ ApplyHistory(w) \/ ApplyDeletion(w) \/ Mark(w)
             \/ Settle(w) /\ read[w] # "deleted"
    BY <2>3, LaterPublished
  <2>4. CASE Settle(w) /\ read[w] = "deleted"
    BY <2>0, <2>4, SettlePublishes, PublishesKeeps
  <2>5. CASE Publish(w) \/ ApplySighting(w) \/ ApplyGap(w)
    BY <2>0, <2>5, PublishPublishes, PublishesKeeps
  <2> QED
    BY <1>3, <2>1, <2>2, <2>3, <2>4, <2>5 DEF Step, QuietStep
<1>4. ASSUME NEW j \in Jobs, NEW step \in Steps, NoteProgress(j, step)
      PROVE  /\ (NothingLeftUnpublished /\ InterruptsOnlyTheStarted)'
             /\ [Promised!ViewNext]_(Promised!viewVars)
  BY <1>4, NoteProgressPublishes, PublishesKeeps
<1>5. CASE Environment
  BY <1>5, EnvironmentImplements
<1>6. CASE UNCHANGED vars
  <2>1. UNCHANGED Promised!viewVars
    BY <1>6 DEF vars, comfyVars, storeVars, Promised!viewVars
  <2>2. (NothingLeftUnpublished /\ InterruptsOnlyTheStarted)'
    BY <1>6 DEF vars, comfyVars, storeVars, workerVars, NothingLeftUnpublished,
       InterruptsOnlyTheStarted, BusyWith, Known, At, Started, Executing
  <2> QED
    BY <2>1, <2>2
<1> QED
  BY <1>1, <1>2, <1>3, <1>4, <1>5, <1>6 DEF Next

\* A job that no thread is in the middle of handling is published as it stands,
\* and a cancel interrupts only for a prompt that has started.
THEOREM PublishedInvariants ==
  Spec => [](NothingLeftUnpublished /\ InterruptsOnlyTheStarted)
  BY Inductive, InitPublished, NextImplements, PTL DEF Spec

\* The job store implements JobView: whatever the threads interleave to, every
\* snapshot it publishes is coherent and reports an outcome the execution justifies.
THEOREM JobStoreImplementsJobView == Spec => PublishesWhatIsPromised
<1>1. Init => Promised!ViewInit
  BY JobsAssumption
  DEF Init, ComfyInit, Promised!ViewInit, NoSnapshot, Promised!NoSnapshot
<1> QED
  BY <1>1, Inductive, PublishedInvariants, NextImplements, PTL
  DEF Spec, PublishesWhatIsPromised, Promised!ViewSpec

(***************************************************************************)
(* With one thread, an outcome is never revised: what a refresh is about   *)
(* to write was asked for after the check, and nobody wrote in between.    *)
(***************************************************************************)
OneThread == \A v, w \in Workers : v = w

\* A refresh past its check is of a job that shows no outcome.
RefreshesTheUnsettled ==
  \A w \in Workers :
    pc[w] \in {"history", "apply", "settle", "publish", "queue", "applyQueue"} =>
      view[job[w]].state \notin Terminal

OneInv == IInv /\ NothingLeftUnpublished /\ RefreshesTheUnsettled

LEMMA OneThreadStep ==
  ASSUME OneThread, OneInv, NEW w \in Workers, Request(w) \/ Step(w) \/ Failure(w)
  PROVE  /\ RefreshesTheUnsettled'
         /\ \A j \in Jobs :
              view[j].state \in Terminal => view'[j].state = view[j].state
<1> USE JobsAssumption, AfterRefreshFacts
    DEF OneInv, IInv, TypeOK, RefreshesTheUnsettled, At, Goto, storeVars
<1>1. CASE Request(w)
  BY <1>1 DEF Request, Ask, AskToSubmit
<1>2. CASE Check(w)
  <2>1. view[job[w]] = Snapshot(jobs[job[w]])
    BY <1>2 DEF Check, CreatedOnce, NothingLeftUnpublished, BusyWith, OneThread
  <2> QED
    BY <1>2, <2>1 DEF Check, Snapshot, OneThread
<1>3. CASE Create(w)
  BY <1>3 DEF Create, CreatedOnce, Known, NoSnapshot, QueuedSnapshot, Terminal
<1>4. CASE \/ Submit(w) \/ ReadHistory(w) \/ ApplyHistory(w) \/ ReadQueue(w)
           \/ Decide(w) \/ Locate(w) \/ DeleteQueued(w) \/ Mark(w) \/ Interrupt(w)
           \/ Respond(w) \/ RespondPayload(w) \/ ApplyDeletion(w) \/ Failure(w)
  BY <1>4 DEF Submit, ReadHistory, ApplyHistory, ReadQueue, Decide, Locate,
     DeleteQueued, Mark, Interrupt, Respond, RespondPayload, ApplyDeletion,
     Failure, SubmitFails, ReadHistoryFails, ReadQueueFails, DeliveryFails,
     ReadBack, OneThread
<1>5. CASE Settle(w) \/ Publish(w) \/ ApplySighting(w) \/ ApplyGap(w)
  BY <1>5 DEF Settle, Publish, ApplySighting, ApplyGap, OneThread
<1> QED
  BY <1>1, <1>2, <1>3, <1>4, <1>5 DEF Step

LEMMA OneThreadNext ==
  ASSUME OneThread, OneInv, [Next]_vars
  PROVE  /\ RefreshesTheUnsettled'
         /\ [\A j \in Jobs :
               view[j].state \in Terminal => view'[j].state = view[j].state]_vars
<1>1. CASE \E w \in Workers : Request(w) \/ Step(w) \/ Failure(w)
  BY <1>1, OneThreadStep
<1>2. ASSUME NEW j \in Jobs, NEW step \in Steps, NoteProgress(j, step)
      PROVE  /\ RefreshesTheUnsettled'
             /\ view[j].state \in Terminal => view'[j].state = view[j].state
             /\ \A i \in Jobs \ {j} : view'[i] = view[i]
  <2>1. view'[j].state = jobs[j].state /\ jobs[j].state \notin Terminal
    BY <1>2 DEF NoteProgress, Snapshot, OneInv, IInv, TypeOK, JobRecords
  <2>2. view[j].state \notin Terminal
    <3>1. CASE \E w \in Workers : BusyWith(w, j)
      BY <3>1 DEF BusyWith, OneInv, RefreshesTheUnsettled
    <3>2. CASE \A w \in Workers : ~BusyWith(w, j)
      <4>1. view[j] = Snapshot(jobs[j])
        BY <1>2, <3>2 DEF NoteProgress, NothingLeftUnpublished, OneInv
      <4> QED
        BY <2>1, <4>1 DEF Snapshot
    <3> QED
      BY <3>1, <3>2
  <2>3. \A i \in Jobs \ {j} : view'[i] = view[i]
    BY <1>2 DEF NoteProgress, OneInv, IInv, TypeOK
  <2>4. UNCHANGED <<pc, job>>
    BY <1>2 DEF NoteProgress, workerVars
  <2> QED
    BY <2>1, <2>2, <2>3, <2>4 DEF RefreshesTheUnsettled, OneInv, IInv, TypeOK
<1>3. CASE Environment \/ UNCHANGED vars
  BY <1>3 DEF Environment, vars, storeVars, workerVars, OneInv, RefreshesTheUnsettled
<1> QED
  BY <1>1, <1>2, <1>3 DEF Next

\* With one thread inside the store an outcome, once recorded, is never revised:
\* refresh checks before it asks, and only another thread could write in between.
THEOREM OutcomesStandAlone == OneThread => (Spec => OutcomeIsFinal)
<1> SUFFICES ASSUME OneThread PROVE Spec => OutcomeIsFinal
  OBVIOUS
<1>1. Init => RefreshesTheUnsettled
  BY DEF Init, RefreshesTheUnsettled
<1> QED
  BY <1>1, Inductive, PublishedInvariants, OneThreadNext, PTL
  DEF Spec, OneInv, OutcomeIsFinal
=============================================================================
