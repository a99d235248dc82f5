------------------------- MODULE LauncherLifecycle -------------------------
(***************************************************************************)
(* The launcher: one queue of commands, each acting on the runtime only    *)
(* through a script; a monitor that queues health probes; a user who       *)
(* restarts, syncs, exits and answers questions; and a Windows session     *)
(* that may end at any moment.                                             *)
(*                                                                         *)
(* A script outlives the launcher's patience: a call that is given up goes *)
(* on, and starts or stops things later.                                   *)
(***************************************************************************)
EXTENDS Naturals, Sequences, FiniteSets

CONSTANTS
    FailuresBeforeDown, \* LifecycleOptions.FailuresBeforeDown
    MaxRequests,        \* bound: restarts, syncs and exits the user asks for
    MaxGivenUp,         \* bound: calls whose time is up
    MaxCrashes,         \* bound: Gateways that die
    None

Scripts == {"status", "startComfy", "check", "sync", "startGateway", "stopGateway", "stopAll"}

\* What waits for the user: questions, and messages that have to be dismissed.
Questions == {"askSetup", "showSetup", "askSync", "askRestart", "askExit", "showFailure",
              "showLeft"}

\* A work of the queue.  Its steps: the ones that call a script, the questions that
\* wait for the user, and the rest.
Names == {"startup", "restart", "sync", "health", "exit", "sessionEnd"}

Works == [name : Names, awaiting : BOOLEAN,
          step : {"setup", "setupAgain", "comfy", "check", "sync", "gateway", "stop",
                  "stopAll", "confirm"}
                 \cup Questions
                 \cup {"begin", "leave", "cancelled", "probeJobs", "retire", "probe"}]

ASSUME LauncherAssumption ==
    /\ FailuresBeforeDown \in Nat \ {0}
    /\ MaxRequests \in Nat /\ MaxGivenUp \in Nat /\ MaxCrashes \in Nat
    /\ None \notin Scripts \cup Works \cup {"exit"}

VARIABLES
    queue,          \* the names of the work that waits
    work,           \* the work the one consumer runs: its name, its step, and whether
                    \* its script has been started; or None
    state,          \* LauncherState
    gateway,        \* the Gateway as the launcher knows it: whether an instance is
                    \* expected, whether it is healthy, the failed probes in a row
    commandClaimed, exitClaimed, tickQueued,
    sessionEnding,
    exited, finish, \* whether and how the launcher ended: "exit", "setup", "disposed"
    leaving,        \* an exit: its mode, and whether it says that something may be left
    scripts,        \* the scripts that run
    abandoned,      \* the script of _abandoned while it runs, or None
    anyAbandoned,
    up,             \* what LocalCanvas started and runs: "comfy", "gateway"
    ui,             \* the UI thread: "free"; in EndSession "ending", "waiting"; "gone"
    bounds          \* history: what the bounds count

shown == <<state, gateway>>
claims == <<commandClaimed, exitClaimed, tickQueued>>
ended == <<exited, finish>>
calls == <<abandoned, anyAbandoned>>
world == <<scripts, up>>
vars == <<queue, work, shown, claims, sessionEnding, ended, leaving, calls, world, ui, bounds>>

-----------------------------------------------------------------------------

\* The steps of a command that call a script, and the script.
ScriptOf ==
    [setup |-> "status", setupAgain |-> "status", comfy |-> "startComfy",
     check |-> "check", sync |-> "sync",
     gateway |-> "startGateway", stop |-> "stopGateway",
     stopAll |-> "stopAll", confirm |-> "status"]

Monitored == {"Ready", "Attention", "GatewayDown"}

Aborting == sessionEnding \/ exited

At(step) == work # None /\ work.step = step

AtScript == work # None /\ work.step \in DOMAIN ScriptOf

Awaited == IF AtScript /\ work.awaiting THEN {ScriptOf[work.step]} ELSE {}

\* The calls of an exit (RunExitAsync), which do not go through RunAsync.
OfExit == work.step \in {"stopAll", "confirm"}

\* The same work goes on with another step.
Goto(step) ==
    /\ work' = [work EXCEPT !.step = step, !.awaiting = FALSE]
    /\ UNCHANGED <<commandClaimed, tickQueued>>

\* The consumer is done with this work; a command gives its claim back (finally).
Done ==
    /\ work' = None
    /\ commandClaimed' = (commandClaimed /\ work.name \notin {"startup", "restart", "sync"})
    /\ tickQueued' = (tickQueued /\ work.name # "health")

-----------------------------------------------------------------------------
(* The queue's consumer *)

FirstStep(name) ==
    CASE name = "startup" -> "setup"
      [] name = "restart" -> "probeJobs"
      [] name = "sync" -> "sync"
      [] name = "health" -> "probe"
      [] OTHER -> "begin"

Leaving(mode) == [mode |-> mode, said |-> FALSE]

Take ==
    /\ work = None /\ queue # <<>> /\ ~exited
    /\ queue' = Tail(queue)
    /\ work' = [name |-> Head(queue), step |-> FirstStep(Head(queue)), awaiting |-> FALSE]
    /\ state' = IF Head(queue) = "sync" THEN "Syncing" ELSE state
    /\ leaving' = IF Head(queue) \in {"exit", "sessionEnd"} THEN Leaving(Head(queue))
                  ELSE leaving
    /\ UNCHANGED <<gateway, claims, sessionEnding, ended, calls, world, ui, bounds>>

\* WorkerLoopAsync after the end: what is queued is cancelled.
Abandon ==
    /\ work = None /\ queue # <<>> /\ exited
    /\ queue' = Tail(queue)
    /\ tickQueued' = (tickQueued /\ Head(queue) # "health")
    /\ UNCHANGED <<work, shown, commandClaimed, exitClaimed, sessionEnding, ended, leaving,
                   calls, world, ui, bounds>>

\* Mutant of MayRun: nobody looks whether the last call has ended.
MayRunBeside == TRUE

\* RunAsync: nothing is run beside a call that was given up and still runs.
MayRun == OfExit \/ abandoned = None

Call ==
    /\ AtScript /\ ~work.awaiting
    /\ MayRun
    /\ work' = [work EXCEPT !.awaiting = TRUE]
    /\ scripts' = scripts \cup {ScriptOf[work.step]}
    /\ UNCHANGED <<queue, shown, claims, sessionEnding, ended, leaving, calls, up, ui, bounds>>

\* What runs after a script: what it is for, or, if it failed, any part of that.
Effects(script, ok) ==
    LET wanted == CASE script = "startComfy" -> up \cup {"comfy"}
                    [] script = "startGateway" -> up \cup {"gateway"}
                    [] script = "stopGateway" -> up \ {"gateway"}
                    [] script = "stopAll" -> {}
                    [] OTHER -> up
    IN  IF ok THEN {wanted} ELSE {up \cap some : some \in SUBSET up} \cup {up, wanted}

-----------------------------------------------------------------------------
(* What a command makes of a call: "ok", a document that says no ("bad"), or no
   document ("none").  While the session ends it makes nothing of it. *)

\* EnterHealthyAsync
Healthy ==
    /\ state' \in {"Ready", "Attention"}
    /\ gateway' = [expected |-> TRUE, healthy |-> TRUE, failures |-> 0]
    /\ Done

\* RestartFailedAsync
RestartFails ==
    /\ state' = "GatewayDown"
    /\ gateway' = [gateway EXCEPT !.expected = FALSE, !.healthy = FALSE]
    /\ Done

\* FailStartupAsync: shown first, then the exit is run in this same work.
FailStartup ==
    /\ state' = "Failed"
    /\ gateway' = [gateway EXCEPT !.healthy = FALSE]
    /\ Goto("showFailure")

GatewayFails == IF work.name = "startup" THEN FailStartup ELSE RestartFails

Proceed(step) == UNCHANGED shown /\ Goto(step)

\* RestoreHealthState
Restore ==
    /\ state' \in IF gateway.healthy THEN {"Ready", "Attention"} ELSE {"GatewayDown"}
    /\ UNCHANGED gateway
    /\ Done

\* FailSetupAsync: shown first, then the launcher ends, as nothing was started.
FailSetup == state' = "Failed" /\ UNCHANGED gateway /\ Goto("showSetup")

AfterSetup(outcome) ==
    IF outcome = "none" /\ ~Aborting THEN FailStartup
    ELSE IF outcome # "ok" THEN Proceed("askSetup")
    ELSE IF Aborting THEN UNCHANGED shown /\ Done
    ELSE Proceed("comfy")

\* EnsureSetupAsync after setup was run: not set up now is the end (FailSetupAsync).
AfterSetupAgain(outcome) ==
    IF outcome # "ok" THEN FailSetup
    ELSE IF Aborting THEN UNCHANGED shown /\ Done
    ELSE Proceed("comfy")

\* The workflow check is left out when no folder is configured.
AfterComfy(outcome) ==
    IF outcome # "ok" THEN FailStartup
    ELSE \/ Proceed("check")
         \/ Proceed("gateway")

\* Nothing a check finds, and no failure of it, is fatal.
AfterCheck(outcome) ==
    \/ Proceed("gateway")
    \/ outcome = "ok" /\ Proceed("askSync")

\* Of a sync that was asked for, one that wrote a definition restarts the Gateway.
AfterSync(outcome) ==
    IF work.name = "startup"
    THEN state' = "Starting" /\ UNCHANGED gateway /\ Goto("gateway")
    ELSE \/ Restore
         \/ outcome = "ok" /\ Proceed("probeJobs")

AfterStop(outcome) ==
    IF outcome = "ok" THEN Proceed("gateway") ELSE RestartFails

\* StartGatewayAsync: the script, and a first probe that has to pass.
AfterGateway(outcome) ==
    \/ outcome = "ok" /\ Healthy
    \/ GatewayFails

AfterCommandCall(outcome) ==
    /\ CASE work.step = "setup" -> AfterSetup(outcome)
         [] work.step = "setupAgain" -> AfterSetupAgain(outcome)
         [] work.step \notin {"setup", "setupAgain"} /\ Aborting -> UNCHANGED shown /\ Done
         [] work.step = "comfy" /\ ~Aborting -> AfterComfy(outcome)
         [] work.step = "check" /\ ~Aborting -> AfterCheck(outcome)
         [] work.step = "sync" /\ ~Aborting -> AfterSync(outcome)
         [] work.step = "stop" /\ ~Aborting -> AfterStop(outcome)
         [] work.step = "gateway" /\ ~Aborting -> AfterGateway(outcome)
    /\ UNCHANGED <<leaving, ended, exitClaimed>>

-----------------------------------------------------------------------------
(* The exit *)

FinishExit(how) ==
    /\ exited' = TRUE
    /\ finish' = IF exited THEN finish ELSE how
    /\ exitClaimed' = TRUE
    /\ Done

\* A session's end, a call that was given up, and whatever stop.ps1 could not
\* account for, are confirmed with status.ps1.
AfterStopAll(outcome) ==
    IF leaving.mode = "sessionEnd" \/ anyAbandoned \/ outcome # "ok"
    THEN Goto("confirm") /\ UNCHANGED <<leaving, ended, exitClaimed>>
    ELSE FinishExit("exit") /\ UNCHANGED leaving

\* What stop.ps1 said stands unless status.ps1 finds everything gone.  What may be
\* left is shown (StopIncomplete) before the launcher ends, except to a session that
\* ends.
AfterConfirm(outcome, left) ==
    /\ leaving' = [leaving EXCEPT !.said = @ \/ outcome # "ok" \/ left # {}]
    /\ IF leaving'.said /\ leaving.mode # "sessionEnd" /\ ~sessionEnding
       THEN Goto("showLeft") /\ UNCHANGED <<ended, exitClaimed>>
       ELSE FinishExit("exit")

After(outcome, left) ==
    IF OfExit
    THEN /\ IF work.step = "stopAll" THEN AfterStopAll(outcome) ELSE AfterConfirm(outcome, left)
         /\ UNCHANGED shown
    ELSE AfterCommandCall(outcome)

\* The awaited script ends, well or badly, with or without a document.
ScriptReturns(outcome) ==
    /\ AtScript /\ work.awaiting
    /\ up' \in Effects(ScriptOf[work.step], outcome = "ok")
    /\ scripts' = scripts \ {ScriptOf[work.step]}
    /\ After(outcome, up)
    /\ UNCHANGED <<queue, sessionEnding, calls, ui, bounds>>

\* The session's end cancels the wait for a command's script, not for an exit's;
\* and any call may outlast its time and its grace.
GiveUp ==
    /\ AtScript /\ work.awaiting
    /\ IF sessionEnding /\ ~OfExit THEN UNCHANGED bounds
       ELSE /\ bounds.givenUp < MaxGivenUp
            /\ bounds' = [bounds EXCEPT !.givenUp = @ + 1]
    /\ IF OfExit THEN UNCHANGED calls
       ELSE abandoned' = ScriptOf[work.step] /\ anyAbandoned' = TRUE
    /\ After("none", up)
    /\ UNCHANGED <<queue, sessionEnding, world, ui>>

NotRun ==
    /\ AtScript /\ ~work.awaiting
    /\ ~MayRun
    /\ After("none", up)
    /\ UNCHANGED <<queue, sessionEnding, calls, world, ui, bounds>>

\* A script nobody waits for ends in its own time.
ScriptEndsAlone(script) ==
    /\ script \in scripts \ Awaited
    /\ scripts' = scripts \ {script}
    /\ \E ok \in BOOLEAN : up' \in Effects(script, ok)
    /\ abandoned' = IF abandoned = script THEN None ELSE abandoned
    /\ UNCHANGED <<queue, work, shown, claims, sessionEnding, ended, leaving, anyAbandoned,
                   ui, bounds>>

\* RunExitAsync up to the question whether to interrupt a generation.
BeginExit ==
    /\ At("begin")
    /\ leaving' = [leaving EXCEPT !.mode = IF sessionEnding THEN "sessionEnd" ELSE @]
    /\ \/ exited /\ Done
       \/ ~exited /\ Goto("leave")
       \/ /\ ~exited /\ leaving'.mode = "exit" /\ gateway.expected /\ "gateway" \in up
          /\ Goto("askExit")
    /\ UNCHANGED <<queue, shown, exitClaimed, sessionEnding, ended, calls, world, ui, bounds>>

\* Mutant of CancelExit: the claim is not given back.
CancelExitKept ==
    /\ At("cancelled")
    /\ Done
    /\ UNCHANGED <<queue, shown, exitClaimed, sessionEnding, ended, leaving, calls, world, ui,
                   bounds>>

\* RequestExitAsync after an exit that was called off.
CancelExit ==
    /\ At("cancelled")
    /\ exitClaimed' = FALSE
    /\ Done
    /\ UNCHANGED <<queue, shown, sessionEnding, ended, leaving, calls, world, ui, bounds>>

\* Mutant of MayStop: a start that is still running is forgotten.
MayStopBeside == TRUE

\* WaitForAbandonedAsync: stop.ps1 is never run beside a call that still runs.
MayStop == abandoned = None

Leave ==
    /\ At("leave")
    /\ state' = "Stopping"
    /\ gateway' = [gateway EXCEPT !.healthy = FALSE]
    /\ leaving' = [leaving EXCEPT !.said = ~MayStop]
    /\ Goto(IF MayStop THEN "stopAll" ELSE "confirm")
    /\ UNCHANGED <<queue, exitClaimed, sessionEnding, ended, calls, world, ui, bounds>>

-----------------------------------------------------------------------------
(* Restart, and the questions *)

\* ConfirmIfJobsActiveAsync asks only when the expected Gateway reports jobs.
ProbeJobs ==
    /\ At("probeJobs")
    /\ \/ Goto("retire")
       \/ gateway.expected /\ "gateway" \in up /\ ~sessionEnding /\ Goto("askRestart")
    /\ UNCHANGED <<queue, shown, exitClaimed, sessionEnding, ended, leaving, calls, world, ui,
                   bounds>>

\* RestartStepsAsync: from here on nothing that answers is the expected instance.
Retire ==
    /\ At("retire")
    /\ state' = "Restarting"
    /\ gateway' = [expected |-> FALSE, healthy |-> FALSE, failures |-> 0]
    /\ Goto("stop")
    /\ UNCHANGED <<queue, exitClaimed, sessionEnding, ended, leaving, calls, world, ui, bounds>>

\* The answer, yes or no.
Answered(yes) ==
    LET Only == UNCHANGED <<ended, exitClaimed, leaving>> IN
    \/ /\ At("askSetup") /\ yes /\ ~Aborting /\ Only
       /\ Proceed("setupAgain") \/ FailSetup
    \/ /\ \/ At("askSetup") /\ (~yes \/ Aborting)
          \/ At("showSetup")
       /\ FinishExit("setup") /\ UNCHANGED <<shown, leaving>>
    \/ At("showLeft") /\ FinishExit("exit") /\ UNCHANGED <<shown, leaving>>
    \/ /\ At("askSync") /\ Aborting /\ Only
       /\ UNCHANGED shown /\ Done
    \/ /\ At("askSync") /\ ~Aborting /\ Only
       /\ state' = IF yes THEN "Syncing" ELSE "Starting"
       /\ UNCHANGED gateway
       /\ Goto(IF yes THEN "sync" ELSE "gateway")
    \/ /\ At("askRestart") /\ Only
       /\ IF yes THEN Proceed("retire")
          ELSE IF work.name = "sync" THEN Restore
          ELSE UNCHANGED shown /\ Done
    \/ /\ At("askExit") /\ Only
       /\ Proceed(IF yes THEN "leave" ELSE "cancelled")
    \/ /\ At("showFailure")
       /\ exitClaimed' = TRUE /\ leaving' = Leaving("failure")
       /\ Proceed("begin") /\ UNCHANGED ended

UserAnswers(yes) ==
    /\ ui = "free"
    /\ Answered(yes)
    /\ UNCHANGED <<queue, sessionEnding, calls, world, ui, bounds>>

\* The end of the session cancels a question: no, except to whether to exit.
QuestionCancelled ==
    /\ sessionEnding
    /\ Answered(At("askExit"))
    /\ UNCHANGED <<queue, sessionEnding, calls, world, ui, bounds>>

-----------------------------------------------------------------------------
(* Health *)

\* MonitorLoopAsync
Tick ==
    /\ ~exited /\ ~commandClaimed /\ ~exitClaimed /\ ~tickQueued
    /\ tickQueued' = TRUE
    /\ queue' = Append(queue, "health")
    /\ UNCHANGED <<work, shown, commandClaimed, exitClaimed, sessionEnding, ended, leaving,
                   calls, world, ui, bounds>>

\* Mutant of Failures: failures are not counted in a row.
FailuresForgotten == 1

\* _consecutiveFailures, counted as far as it matters.
Failures == IF gateway.failures < FailuresBeforeDown THEN gateway.failures + 1
            ELSE gateway.failures

\* ReadHealthAsync and ApplyHealthAsync, in one item of the queue.
Probe ==
    /\ At("probe")
    /\ Done
    /\ IF state \notin Monitored THEN UNCHANGED shown
       ELSE IF gateway.expected /\ "gateway" \in up
       THEN /\ gateway' = [gateway EXCEPT !.failures = 0,
                                          !.healthy = @ \/ state = "GatewayDown"]
            /\ state' \in IF state = "GatewayDown" THEN {"Ready", "Attention"} ELSE {state}
       ELSE IF Failures < FailuresBeforeDown
       THEN /\ gateway' = [gateway EXCEPT !.failures = Failures]
            /\ UNCHANGED state
       ELSE /\ gateway' = [gateway EXCEPT !.failures = Failures, !.healthy = FALSE]
            /\ state' = "GatewayDown"
    /\ UNCHANGED <<queue, exitClaimed, sessionEnding, ended, leaving, calls, world, ui, bounds>>

GatewayDies ==
    /\ "gateway" \in up /\ bounds.crashes < MaxCrashes
    /\ up' = up \ {"gateway"}
    /\ bounds' = [bounds EXCEPT !.crashes = @ + 1]
    /\ UNCHANGED <<queue, work, shown, claims, sessionEnding, ended, leaving, calls, scripts, ui>>

-----------------------------------------------------------------------------
(* The UI thread *)

Request ==
    /\ ui = "free"
    /\ bounds.requests < MaxRequests
    /\ bounds' = [bounds EXCEPT !.requests = @ + 1]

\* RequestCommandAsync
RequestCommand(name) ==
    /\ Request
    /\ ~exited /\ ~exitClaimed /\ ~commandClaimed /\ state \in Monitored
    /\ commandClaimed' = TRUE
    /\ queue' = Append(queue, name)
    /\ UNCHANGED <<work, shown, exitClaimed, tickQueued, sessionEnding, ended, leaving, calls,
                   world, ui>>

\* RequestExitAsync
RequestExit ==
    /\ Request
    /\ ~exited /\ ~exitClaimed
    /\ exitClaimed' = TRUE
    /\ queue' = Append(queue, "exit")
    /\ UNCHANGED <<work, shown, commandClaimed, tickQueued, sessionEnding, ended, leaving, calls,
                   world, ui>>

\* EndSession: the flag and the cancellation, then the claim, then the wait.
SessionEnds ==
    /\ ui = "free"
    /\ ui' = "ending" /\ sessionEnding' = TRUE
    /\ UNCHANGED <<queue, work, shown, claims, ended, leaving, calls, world, bounds>>

ClaimSessionEnd ==
    /\ ui = "ending"
    /\ ui' = "waiting"
    /\ IF ~exited /\ ~exitClaimed
       THEN exitClaimed' = TRUE /\ queue' = Append(queue, "sessionEnd")
       ELSE UNCHANGED <<exitClaimed, queue>>
    /\ UNCHANGED <<work, shown, commandClaimed, tickQueued, sessionEnding, ended, leaving, calls,
                   world, bounds>>

\* ExitCompleted, or the bound of EndSession; then DisposeAsync.
UiEnds ==
    /\ (ui = "free" /\ exited) \/ ui = "waiting"
    /\ ui' = "gone"
    /\ exited' = TRUE /\ finish' = IF exited THEN finish ELSE "disposed"
    /\ UNCHANGED <<queue, work, shown, claims, sessionEnding, leaving, calls, world, bounds>>

-----------------------------------------------------------------------------

Init ==
    /\ queue = <<"startup">> /\ work = None
    /\ state = "Starting"
    /\ gateway = [expected |-> FALSE, healthy |-> FALSE, failures |-> 0]
    /\ commandClaimed = TRUE /\ exitClaimed = FALSE /\ tickQueued = FALSE
    /\ sessionEnding = FALSE
    /\ exited = FALSE /\ finish = None /\ leaving = None
    /\ abandoned = None /\ anyAbandoned = FALSE
    /\ scripts = {} /\ up = {}
    /\ ui = "free"
    /\ bounds = [requests |-> 0, givenUp |-> 0, crashes |-> 0]

ConsumerStep ==
    \/ Take \/ Abandon \/ Call \/ NotRun \/ GiveUp
    \/ \E outcome \in {"ok", "bad", "none"} : ScriptReturns(outcome)
    \/ ProbeJobs \/ Retire \/ BeginExit \/ CancelExit \/ Leave \/ Probe
    \/ QuestionCancelled

UserStep ==
    \/ \E yes \in BOOLEAN : UserAnswers(yes)
    \/ \E name \in {"restart", "sync"} : RequestCommand(name)
    \/ RequestExit \/ SessionEnds

AloneStep == \E script \in scripts : ScriptEndsAlone(script)

Next ==
    \/ ConsumerStep \/ UserStep \/ AloneStep
    \/ Tick \/ GatewayDies
    \/ ClaimSessionEnd \/ UiEnds

Spec == Init /\ [][Next]_vars

\* The consumer and the monitor go on, every script ends, and EndSession does not
\* stop half way.  Nothing is assumed of the user.
FairSpec ==
    /\ Spec
    /\ WF_vars(ConsumerStep) /\ WF_vars(Tick) /\ WF_vars(AloneStep)
    /\ WF_vars(ClaimSessionEnd)

-----------------------------------------------------------------------------
(* Properties *)

\* "Nothing is run beside it" (RunAsync, WaitForAbandonedAsync): of the scripts that
\* start or stop anything, or sync, no two ever run at once.
OneScriptActs ==
    Cardinality(scripts \ {"status", "check"}) <= 1

\* An exit that reports nothing has left nothing: neither a process nor a script
\* that could still start one (RunExitAsync).
NothingLeftUnsaid ==
    finish = "exit" /\ ~leaving.said =>
        /\ up = {}
        /\ scripts \cap {"startComfy", "startGateway"} = {}

\* A claimed exit ends the launcher or is called off by the user, who may take for
\* ever to answer a question or to dismiss a message on the way.
ExitIsDealtWith ==
    exitClaimed ~> (exited \/ ~exitClaimed \/ (work # None /\ work.step \in Questions))

\* A Gateway that has died is shown to be down (ApplyHealthAsync), unless a command,
\* an exit or another Gateway comes in between: the monitor never stops.
DownIsNoticed ==
    (state \in {"Ready", "Attention"} /\ "gateway" \notin up)
        ~> \/ state \notin {"Ready", "Attention"}
           \/ "gateway" \in up
           \/ commandClaimed \/ exitClaimed \/ exited

=============================================================================
