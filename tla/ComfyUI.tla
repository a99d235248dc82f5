------------------------------ MODULE ComfyUI ------------------------------
(***************************************************************************)
(* ComfyUI as the gateway sees it: the prompt queue, the history and the   *)
(* interrupt flag behind GET /queue, GET /history/{id}, POST /prompt,      *)
(* POST /queue and POST /interrupt.  ComfyUI is not part of the            *)
(* repository, so this module is an environment: it is written from how    *)
(* gateway/localcanvas_gateway/comfy/client.py reads it and from the notes *)
(* on fidelity in comfy/fake.py.                                           *)
(*                                                                         *)
(* Two facts about it make the gateway's job hard.  A prompt that left the *)
(* queue is in neither place until its history entry is written (the gap), *)
(* and /interrupt names no prompt: it stops whatever is executing.         *)
(***************************************************************************)
EXTENDS Naturals

CONSTANTS
  Prompts,      \* every prompt id ComfyUI may hold
  MaxRestarts   \* bound on how often ComfyUI restarts and forgets everything

ASSUME MaxRestartsAssumption == MaxRestarts \in Nat

VARIABLES
  place,        \* what GET /queue says of a prompt
  fate,         \* how its execution really ended, known to ComfyUI alone
  history,      \* the prompts that GET /history has an entry for
  interrupting, \* POST /interrupt was received and the executor has not acted on it
  restarts      \* how often ComfyUI has restarted

comfyVars == <<place, fate, history, interrupting, restarts>>

\* "leaving" is the gap: out of the queue, the history entry not yet written.
Places == {"unsubmitted", "pending", "running", "leaving", "absent"}
Ended  == {"success", "error", "interrupted"}
Fates  == Ended \cup {"none", "deleted", "lost"}

ComfyTypeOK ==
  /\ place \in [Prompts -> Places]
  /\ fate \in [Prompts -> Fates]
  /\ history \in SUBSET Prompts
  /\ interrupting \in BOOLEAN
  /\ restarts \in 0..MaxRestarts

ComfyInit ==
  /\ place = [p \in Prompts |-> "unsubmitted"]
  /\ fate = [p \in Prompts |-> "none"]
  /\ history = {}
  /\ interrupting = FALSE
  /\ restarts = 0

Executing(p) == place[p] = "running"

(***************************************************************************)
(* What ComfyUI does on its own.                                           *)
(***************************************************************************)

\* The executor picks up a waiting prompt; it executes one at a time.
StartNext(p) ==
  /\ place[p] = "pending"
  /\ \A q \in Prompts : ~Executing(q)
  /\ place' = [place EXCEPT ![p] = "running"]
  /\ UNCHANGED <<fate, history, interrupting, restarts>>

\* The execution ends and the prompt leaves the queue.  The flag is read
\* between nodes, so a prompt whose last node is done completes in spite of it.
Finish(p, outcome) ==
  /\ Executing(p)
  /\ outcome \in Ended
  /\ outcome = "interrupted" => interrupting
  /\ place' = [place EXCEPT ![p] = "leaving"]
  /\ fate' = [fate EXCEPT ![p] = outcome]
  /\ interrupting' = FALSE
  /\ UNCHANGED <<history, restarts>>

\* The end of the gap: the history entry appears.
RecordHistory(p) ==
  /\ place[p] = "leaving"
  /\ place' = [place EXCEPT ![p] = "absent"]
  /\ history' = history \cup {p}
  /\ UNCHANGED <<fate, interrupting, restarts>>

\* Somebody presses stop on ComfyUI's own screen.
OutsideInterrupt ==
  /\ \E p \in Prompts : Executing(p)
  /\ interrupting' = TRUE
  /\ UNCHANGED <<place, fate, history, restarts>>

\* ComfyUI is restarted: queue and history are held in memory and are gone.
ComfyRestart ==
  /\ restarts < MaxRestarts
  /\ restarts' = restarts + 1
  /\ place' = [p \in Prompts |->
                 IF place[p] = "unsubmitted" THEN "unsubmitted" ELSE "absent"]
  /\ fate' = [p \in Prompts |->
                IF place[p] \in {"pending", "running"} THEN "lost" ELSE fate[p]]
  /\ history' = {}
  /\ interrupting' = FALSE

(***************************************************************************)
(* What its HTTP interface does when the gateway calls it.                 *)
(***************************************************************************)

\* POST /prompt queues a prompt under a new id.
AcceptPrompt(p) ==
  /\ place[p] = "unsubmitted"
  /\ place' = [place EXCEPT ![p] = "pending"]
  /\ UNCHANGED <<fate, history, interrupting, restarts>>

\* POST /queue {"delete": [p]} answers 200 in every case and removes the
\* prompt only while it waits.
DeletePending(p) ==
  /\ place' = [place EXCEPT ![p] = IF @ = "pending" THEN "absent" ELSE @]
  /\ fate' = [fate EXCEPT ![p] = IF place[p] = "pending" THEN "deleted" ELSE @]
  /\ UNCHANGED <<history, interrupting, restarts>>

\* POST /interrupt stops whatever executes, and is forgotten when nothing does.
InterruptExecuting ==
  /\ interrupting' = (\E p \in Prompts : Executing(p))
  /\ UNCHANGED <<place, fate, history, restarts>>

\* What GET /history/{p} may say.  An entry that reports neither success nor
\* failure ("unsettled") is one the gateway must expect of a prompt that runs.
HistoryAnswers(p) ==
  IF p \in history THEN {fate[p]}
  ELSE IF Executing(p) THEN {"none", "unsettled"}
  ELSE {"none"}

\* What GET /queue says of p: nothing distinguishes the gap from absence.
QueueAnswer(p) ==
  IF place[p] \in {"pending", "running"} THEN place[p] ELSE "absent"

\* The prompt has been executing at some time.
Started(p) == Executing(p) \/ fate[p] \in Ended \cup {"lost"}

ComfyNext ==
  \/ \E p \in Prompts : StartNext(p)
  \/ \E p \in Prompts, outcome \in Ended : Finish(p, outcome)
  \/ \E p \in Prompts : RecordHistory(p)
  \/ OutsideInterrupt
  \/ ComfyRestart
=============================================================================
