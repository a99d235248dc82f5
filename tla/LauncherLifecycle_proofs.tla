---------------------- MODULE LauncherLifecycle_proofs ----------------------
(***************************************************************************)
(* Theorems about LauncherLifecycle for any number of requests, of calls   *)
(* that are given up, of Gateways that die, and any threshold of failures. *)
(***************************************************************************)
EXTENDS LauncherLifecycle, FiniteSetTheorems, TLAPS

\* The scripts that start or stop something, or sync.
Acting == scripts \ {"status", "check"}

\* The work of an exit that has passed the point of no return.
Ending == At("stopAll") \/ At("confirm") \/ At("showLeft")

\* The work that looks at what the exit says, or will.
Exiting == Ending \/ At("begin") \/ At("askExit") \/ At("cancelled") \/ At("leave")

Leavings == [mode : {"exit", "sessionEnd", "failure"}, said : BOOLEAN]

TypeOK ==
  /\ work \in Works \cup {None}
  /\ queue \in Seq(Names)
  /\ scripts \subseteq Scripts
  /\ exited \in BOOLEAN
  /\ Exiting \/ finish = "exit" => leaving \in Leavings

\* Whoever acts is waited for, or has been given up and is remembered.  An exit
\* does not remember its own stop.ps1, but calls nothing that acts after it.
EachIsKnown ==
  Acting \subseteq Awaited \cup {abandoned, "stopAll"}

AwaitedAlone ==
  work # None /\ work.awaiting => AtScript /\ (OfExit \/ abandoned = None)

StopAllIsAlone ==
  /\ At("stopAll") => abandoned = None
  /\ "stopAll" \in scripts /\ ~(At("stopAll") /\ work.awaiting) =>
       abandoned = None /\ (At("confirm") \/ At("showLeft") \/ (exited /\ work = None))

\* What a launcher that has left without a word can still have running.
LeftForGood ==
  /\ Ending /\ ~leaving.said => abandoned = None
  /\ At("showLeft") => leaving.said
  /\ finish = "exit" =>
       /\ exited /\ work = None
       /\ ~leaving.said => up = {} /\ Acting \subseteq {"stopAll"}

IInv ==
  /\ TypeOK /\ EachIsKnown /\ AwaitedAlone /\ StopAllIsAlone /\ LeftForGood

LEMMA ScriptsOfSteps ==
  /\ DOMAIN ScriptOf = {"setup", "setupAgain", "comfy", "check", "sync", "gateway", "stop",
                        "stopAll", "confirm"}
  /\ \A step \in DOMAIN ScriptOf :
       /\ ScriptOf[step] \in Scripts
       /\ ScriptOf[step] = "stopAll" <=> step = "stopAll"
  /\ ScriptOf["stopAll"] = "stopAll" /\ ScriptOf["confirm"] = "status"
<1>1. DOMAIN ScriptOf = {"setup", "setupAgain", "comfy", "check", "sync", "gateway", "stop",
                        "stopAll", "confirm"}
  BY DEF ScriptOf
<1>2. /\ ScriptOf["setup"] = "status" /\ ScriptOf["setupAgain"] = "status"
      /\ ScriptOf["comfy"] = "startComfy" /\ ScriptOf["check"] = "check"
      /\ ScriptOf["sync"] = "sync" /\ ScriptOf["gateway"] = "startGateway"
      /\ ScriptOf["stop"] = "stopGateway" /\ ScriptOf["stopAll"] = "stopAll"
      /\ ScriptOf["confirm"] = "status"
  BY DEF ScriptOf
<1> QED
  BY <1>1, <1>2 DEF Scripts

LEMMA InitIInv == Init => IInv
<1> SUFFICES ASSUME Init PROVE IInv
  OBVIOUS
<1>1. work = None /\ scripts = {} /\ finish = None /\ exited = FALSE /\ queue = <<"startup">>
  BY DEF Init
<1>2. queue \in Seq(Names)
  BY <1>1 DEF Names
<1>3. None # "exit"
  BY LauncherAssumption
<1> QED
  BY <1>1, <1>2, <1>3 DEF Init, IInv, TypeOK, EachIsKnown, AwaitedAlone, StopAllIsAlone,
                    LeftForGood, Acting, Exiting, Ending, At

(***************************************************************************)
(* Steps of a work that waits for no script.                               *)
(***************************************************************************)

\* Nothing is known of the scripts but that they are the ones given up.
LEMMA OnTheWay ==
  ASSUME IInv, work # None, ~work.awaiting, ~Ending
  PROVE  /\ Awaited = {} /\ Acting \subseteq {abandoned} /\ "stopAll" \notin scripts
         /\ finish # "exit"
<1>1. Awaited = {}
  BY DEF Awaited
<1>2. "stopAll" \notin scripts
  BY DEF IInv, StopAllIsAlone, Ending
<1> QED
  BY <1>1, <1>2 DEF IInv, EachIsKnown, LeftForGood, Acting

\* A work goes on to a step that is not yet the exit's calls, or is done.
MovesOn ==
  /\ work' \in Works \cup {None} /\ queue' \in Seq(Names)
  /\ work' # None => ~work'.awaiting /\ work'.step \notin {"stopAll", "confirm", "showLeft"}
  /\ Exiting' => leaving' \in Leavings
  /\ exited' \in {exited, TRUE} /\ finish' # "exit"

LEMMA MovingOn ==
  ASSUME IInv, work # None, ~work.awaiting, ~Ending, MovesOn, UNCHANGED <<scripts, calls, up>>
  PROVE  IInv'
<1>1. /\ Acting \subseteq {abandoned} /\ "stopAll" \notin scripts
      /\ scripts' = scripts /\ abandoned' = abandoned /\ Acting' = Acting
  BY OnTheWay DEF calls, Acting
<1>2. ~Ending' /\ ~At("stopAll")' /\ ~At("showLeft")'
  BY DEF MovesOn, Ending, At
<1>3. TypeOK'
  BY <1>1 DEF IInv, TypeOK, MovesOn
<1>4. EachIsKnown' /\ AwaitedAlone' /\ StopAllIsAlone'
  BY <1>1, <1>2 DEF MovesOn, EachIsKnown, AwaitedAlone, StopAllIsAlone
<1>5. LeftForGood'
  BY <1>2 DEF MovesOn, LeftForGood
<1> QED
  BY <1>3, <1>4, <1>5 DEF IInv

\* A command or the startup goes on: it is nothing of an exit's.
Idles ==
  \/ work' = None
  \/ /\ work' \in Works /\ ~work'.awaiting
     /\ work'.step \notin {"stopAll", "confirm", "showLeft", "begin", "askExit", "cancelled",
                            "leave"}

LEMMA GotoFacts ==
  ASSUME work \in Works, NEW step, Goto(step),
         step \in {"setup", "setupAgain", "comfy", "check", "sync", "gateway", "stop",
                  "stopAll", "confirm"} \cup Questions
                 \cup {"begin", "leave", "cancelled", "probeJobs", "retire", "probe"}
  PROVE  /\ work' \in Works /\ work'.step = step /\ work'.awaiting = FALSE
         /\ work'.name = work.name /\ work' # None
<1>1. work' \in Works /\ work'.step = step /\ work'.awaiting = FALSE /\ work'.name = work.name
  BY DEF Goto, Works
<1> QED
  BY <1>1, LauncherAssumption

LEMMA CommandCallFacts ==
  ASSUME work \in Works, AtScript, ~OfExit, NEW outcome, AfterCommandCall(outcome)
  PROVE  Idles /\ leaving' = leaving /\ exited' = exited /\ finish' = finish
<1>1. leaving' = leaving /\ exited' = exited /\ finish' = finish
  BY DEF AfterCommandCall, ended
<1> DEFINE Next5 == {"showFailure", "showSetup", "askSetup", "comfy", "check", "gateway",
                     "askSync", "probeJobs"}
<1>2. Done \/ \E step \in Next5 : Goto(step)
  <2> USE DEF Proceed, FailStartup, FailSetup, Healthy, RestartFails, GatewayFails, Restore
  <2>1. CASE work.step = "setup"
    BY <2>1 DEF AfterCommandCall, AfterSetup
  <2>2. CASE work.step = "setupAgain"
    BY <2>2 DEF AfterCommandCall, AfterSetupAgain
  <2>3. CASE work.step \notin {"setup", "setupAgain"} /\ Aborting
    BY <2>3 DEF AfterCommandCall
  <2>4. CASE work.step = "comfy" /\ ~Aborting
    BY <2>4 DEF AfterCommandCall, AfterComfy
  <2>5. CASE work.step = "check" /\ ~Aborting
    BY <2>5 DEF AfterCommandCall, AfterCheck
  <2>6. CASE work.step = "sync" /\ ~Aborting
    BY <2>6 DEF AfterCommandCall, AfterSync
  <2>7. CASE work.step = "stop" /\ ~Aborting
    BY <2>7 DEF AfterCommandCall, AfterStop
  <2>8. CASE work.step = "gateway" /\ ~Aborting
    BY <2>8 DEF AfterCommandCall, AfterGateway
  <2> QED
    BY <2>1, <2>2, <2>3, <2>4, <2>5, <2>6, <2>7, <2>8, ScriptsOfSteps DEF AtScript, OfExit
<1>3. CASE Done
  BY <1>1, <1>3 DEF Done, Idles
<1>4. ASSUME NEW step \in Next5, Goto(step) PROVE Idles
  BY <1>4, GotoFacts DEF Idles, Questions
<1> QED
  BY <1>1, <1>2, <1>3, <1>4

LEMMA IdlesMovesOn ==
  ASSUME IInv, work # None, ~work.awaiting, ~Ending, Idles,
         leaving' = leaving, exited' \in {exited, TRUE}, finish' # "exit", queue' = queue
  PROVE  MovesOn
  BY LauncherAssumption DEF MovesOn, Idles, IInv, TypeOK, Exiting, Ending, At

LEMMA NotRunStep == ASSUME IInv, NotRun PROVE IInv'
<1>1. /\ AtScript /\ ~work.awaiting /\ ~OfExit /\ work \in Works /\ work # None
      /\ UNCHANGED <<queue, scripts, calls, up>> /\ AfterCommandCall("none")
  BY DEF NotRun, MayRun, After, AtScript, IInv, TypeOK, world
<1>2. ~Ending
  BY <1>1, ScriptsOfSteps DEF OfExit, Ending, At, AtScript
<1>3. Idles /\ leaving' = leaving /\ exited' = exited /\ finish' = finish
  BY <1>1, CommandCallFacts
<1>4. finish # "exit"
  BY <1>1, <1>2, OnTheWay
<1> QED
  BY <1>1, <1>2, <1>3, <1>4, IdlesMovesOn, MovingOn

LEMMA BeginExitStep == ASSUME IInv, BeginExit PROVE IInv'
<1>1. /\ At("begin") /\ work # None /\ work \in Works /\ ~work.awaiting /\ ~Ending
      /\ leaving \in Leavings
  BY ScriptsOfSteps DEF BeginExit, At, Ending, Exiting, IInv, TypeOK, AwaitedAlone, AtScript
<1>2. UNCHANGED <<queue, scripts, calls, up>> /\ exited' = exited /\ finish' = finish
  BY DEF BeginExit, world, ended
<1>3. leaving' \in Leavings
  BY <1>1 DEF BeginExit, Leavings
<1>4. \/ work' = None
      \/ work' \in Works /\ work'.awaiting = FALSE /\ work'.step \in {"leave", "askExit"}
  BY <1>1, GotoFacts DEF BeginExit, Done, Questions
<1>5. MovesOn
  BY <1>1, <1>2, <1>3, <1>4, OnTheWay DEF MovesOn, IInv, TypeOK
<1> QED
  BY <1>1, <1>2, <1>5, MovingOn

LEMMA CancelExitStep == ASSUME IInv, CancelExit PROVE IInv'
<1>1. /\ At("cancelled") /\ work # None /\ work \in Works /\ ~work.awaiting /\ ~Ending
  BY ScriptsOfSteps DEF CancelExit, At, Ending, IInv, TypeOK, AwaitedAlone, AtScript
<1>2. /\ UNCHANGED <<queue, scripts, calls, up>> /\ exited' = exited /\ finish' = finish
      /\ leaving' = leaving /\ work' = None
  BY DEF CancelExit, world, ended, Done
<1> QED
  BY <1>1, <1>2, OnTheWay, IdlesMovesOn, MovingOn DEF Idles

LEMMA LeaveStep == ASSUME IInv, Leave PROVE IInv'
<1>1. /\ At("leave") /\ work # None /\ work \in Works /\ ~work.awaiting /\ ~Ending
      /\ leaving \in Leavings
  BY ScriptsOfSteps DEF Leave, At, Ending, Exiting, IInv, TypeOK, AwaitedAlone, AtScript
<1>2. /\ UNCHANGED <<queue, scripts, abandoned, up>> /\ exited' = exited /\ finish' = finish
      /\ leaving' = [leaving EXCEPT !.said = ~MayStop]
      /\ Goto(IF MayStop THEN "stopAll" ELSE "confirm")
  BY DEF Leave, world, ended, calls
<1>3. /\ work' \in Works /\ work' # None /\ work'.awaiting = FALSE
      /\ work'.step = IF MayStop THEN "stopAll" ELSE "confirm"
  BY <1>1, <1>2, GotoFacts
<1>4. leaving' \in Leavings /\ leaving'.said = ~MayStop
  BY <1>1, <1>2 DEF Leavings, MayStop
<1>5. Acting \subseteq {abandoned} /\ "stopAll" \notin scripts /\ finish # "exit"
  BY <1>1, OnTheWay
<1>6. TypeOK'
  BY <1>2, <1>3, <1>4 DEF IInv, TypeOK
<1>7. EachIsKnown' /\ AwaitedAlone' /\ StopAllIsAlone'
  BY <1>2, <1>3, <1>5 DEF EachIsKnown, AwaitedAlone, StopAllIsAlone, Acting, At, MayStop
<1>8. LeftForGood'
  BY <1>2, <1>3, <1>4, <1>5 DEF LeftForGood, Ending, At, MayStop
<1> QED
  BY <1>6, <1>7, <1>8 DEF IInv

\* ProbeJobs, Retire and Probe go on with a command, or are done.
LEMMA CommandStep == ASSUME IInv, ProbeJobs \/ Retire \/ Probe PROVE IInv'
<1>1. /\ work # None /\ work \in Works /\ ~work.awaiting /\ ~Ending
  BY ScriptsOfSteps
  DEF ProbeJobs, Retire, Probe, At, Ending, IInv, TypeOK, AwaitedAlone, AtScript
<1>2. /\ UNCHANGED <<queue, scripts, calls, up>> /\ exited' = exited /\ finish' = finish
      /\ leaving' = leaving
  BY DEF ProbeJobs, Retire, Probe, world, ended
<1>3. Done \/ \E step \in {"retire", "askRestart", "stop"} : Goto(step)
  BY DEF ProbeJobs, Retire, Probe
<1>4. Idles
  <2>1. ASSUME NEW step \in {"retire", "askRestart", "stop"}, Goto(step) PROVE Idles
    BY <1>1, <2>1, GotoFacts DEF Idles, Questions
  <2> QED
    BY <1>3, <2>1 DEF Done, Idles
<1> QED
  BY <1>1, <1>2, <1>4, OnTheWay, IdlesMovesOn, MovingOn

LEMMA AnsweredStep ==
  ASSUME IInv, NEW yes \in BOOLEAN, Answered(yes), ~At("showLeft"),
         UNCHANGED <<queue, calls, world>>
  PROVE  IInv'
<1>1. /\ work # None /\ work \in Works /\ ~work.awaiting /\ ~Ending
  BY ScriptsOfSteps DEF Answered, At, Ending, IInv, TypeOK, AwaitedAlone, AtScript
<1>2. finish # "exit" /\ UNCHANGED <<queue, scripts, calls, up>>
  BY <1>1, OnTheWay DEF world
<1>3. \/ Done
      \/ \E step \in {"setupAgain", "showSetup", "sync", "gateway", "retire"} : Goto(step)
      \/ \E step \in {"leave", "cancelled"} : Goto(step) /\ At("askExit") /\ leaving' = leaving
      \/ Goto("begin") /\ leaving' = Leaving("failure")
  BY DEF Answered, Proceed, FailSetup, Restore, FinishExit
<1>4. /\ exited' \in {exited, TRUE} /\ finish' \in {finish, "setup"}
      /\ leaving' \in {leaving, Leaving("failure")}
  BY DEF Answered, ended, FinishExit
<1>5. Leaving("failure") \in Leavings
  BY DEF Leaving, Leavings
<1>6. At("askExit") => leaving \in Leavings
  BY DEF IInv, TypeOK, Exiting
<1>7. \/ work' = None
      \/ /\ work' \in Works /\ work'.awaiting = FALSE
         /\ work'.step \notin {"stopAll", "confirm", "showLeft"}
         /\ work'.step \in {"leave", "cancelled", "begin", "askExit"} => leaving' \in Leavings
  <2>1. CASE Done
    BY <2>1 DEF Done
  <2>2. ASSUME NEW step \in {"setupAgain", "showSetup", "sync", "gateway", "retire"}, Goto(step)
        PROVE  work' \in Works /\ work'.awaiting = FALSE /\ work'.step = step
    BY <1>1, <2>2, GotoFacts DEF Questions
  <2>3. ASSUME NEW step \in {"leave", "cancelled"}, Goto(step)
        PROVE  work' \in Works /\ work'.awaiting = FALSE /\ work'.step = step
    BY <1>1, <2>3, GotoFacts
  <2>4. CASE Goto("begin") /\ leaving' = Leaving("failure")
    <3>1. work' \in Works /\ work'.awaiting = FALSE /\ work'.step = "begin"
      BY <1>1, <2>4, GotoFacts
    <3> QED
      BY <1>5, <2>4, <3>1
  <2> QED
    BY <1>3, <1>6, <2>1, <2>2, <2>3, <2>4
<1>8. MovesOn
  BY <1>2, <1>4, <1>7 DEF MovesOn, Exiting, Ending, At, IInv, TypeOK
<1> QED
  BY <1>1, <1>2, <1>8, MovingOn

\* The user has seen what may be left, and the exit ends.
LEMMA LeftShownStep ==
  ASSUME IInv, NEW yes, Answered(yes), At("showLeft"), UNCHANGED <<queue, calls, world>>
  PROVE  IInv'
<1>1. /\ work # None /\ work.step = "showLeft" /\ ~work.awaiting /\ Ending /\ Exiting
      /\ leaving \in Leavings /\ leaving.said
  BY ScriptsOfSteps
  DEF At, Ending, Exiting, IInv, TypeOK, AwaitedAlone, AtScript, LeftForGood
<1>2. /\ work' = None /\ exited' = TRUE /\ leaving' = leaving
      /\ UNCHANGED <<queue, scripts, abandoned>>
  BY <1>1 DEF Answered, At, FinishExit, Done, calls, world
<1>3. Acting \subseteq {abandoned, "stopAll"} /\ Acting' = Acting
  BY <1>1, <1>2 DEF IInv, EachIsKnown, Awaited, Acting
<1>4. TypeOK'
  BY <1>1, <1>2 DEF IInv, TypeOK
<1>5. EachIsKnown' /\ AwaitedAlone' /\ StopAllIsAlone' /\ LeftForGood'
  BY <1>1, <1>2, <1>3
  DEF IInv, EachIsKnown, AwaitedAlone, StopAllIsAlone, LeftForGood, Ending, At
<1> QED
  BY <1>4, <1>5 DEF IInv

(***************************************************************************)
(* Scripts are called, return, are given up, and end alone.                *)
(***************************************************************************)

LEMMA TakeStep == ASSUME IInv, Take PROVE IInv'
<1>1. /\ work = None /\ queue \in Seq(Names) /\ queue # <<>> /\ ~exited /\ exited' = exited
      /\ finish' = finish /\ UNCHANGED <<scripts, calls, up>> /\ queue' = Tail(queue)
      /\ work' = [name |-> Head(queue), step |-> FirstStep(Head(queue)), awaiting |-> FALSE]
      /\ leaving' = IF Head(queue) \in {"exit", "sessionEnd"} THEN Leaving(Head(queue))
                    ELSE leaving
  BY DEF Take, ended, world, IInv, TypeOK
<1>2. Head(queue) \in Names /\ Tail(queue) \in Seq(Names)
  BY <1>1
<1>3. /\ FirstStep(Head(queue)) \in {"setup", "probeJobs", "sync", "probe", "begin"}
      /\ FirstStep(Head(queue)) = "begin" => Head(queue) \in {"exit", "sessionEnd"}
  BY <1>2 DEF FirstStep, Names
<1>4. work' \in Works /\ work'.step = FirstStep(Head(queue)) /\ work'.awaiting = FALSE
  BY <1>1, <1>2, <1>3 DEF Works
<1>5. "stopAll" \notin scripts /\ Awaited = {} /\ finish # "exit"
  BY <1>1 DEF IInv, StopAllIsAlone, At, Awaited, AtScript, LeftForGood
<1>6. Exiting' => leaving' \in Leavings
  BY <1>1, <1>3, <1>4 DEF Exiting, Ending, At, Leaving, Leavings
<1>7. TypeOK'
  BY <1>1, <1>2, <1>4, <1>5, <1>6 DEF IInv, TypeOK
<1>8. EachIsKnown' /\ AwaitedAlone' /\ StopAllIsAlone' /\ LeftForGood'
  BY <1>1, <1>3, <1>4, <1>5
  DEF IInv, EachIsKnown, AwaitedAlone, StopAllIsAlone, LeftForGood, Acting, Ending, At, calls
<1> QED
  BY <1>7, <1>8 DEF IInv

LEMMA CallStep == ASSUME IInv, Call PROVE IInv'
<1>1. /\ AtScript /\ work # None /\ work \in Works /\ ~work.awaiting /\ MayRun
      /\ work' = [work EXCEPT !.awaiting = TRUE]
      /\ scripts' = scripts \cup {ScriptOf[work.step]}
      /\ UNCHANGED <<queue, leaving, calls, up>> /\ exited' = exited /\ finish' = finish
  BY DEF Call, ended, AtScript, IInv, TypeOK
<1>2. /\ work' \in Works /\ work' # None /\ work'.awaiting = TRUE /\ work'.step = work.step
  BY <1>1, LauncherAssumption DEF Works
<1>3. AtScript' /\ Awaited' = {ScriptOf[work.step]} /\ OfExit' = OfExit
  BY <1>1, <1>2 DEF AtScript, Awaited, OfExit
<1>4. \A step : At(step)' <=> At(step)
  BY <1>1, <1>2 DEF At
<1>5. ScriptOf[work.step] \in Scripts /\ (ScriptOf[work.step] = "stopAll" <=> At("stopAll"))
  BY <1>1, ScriptsOfSteps DEF AtScript, At
<1>6. TypeOK'
  BY <1>1, <1>2, <1>4, <1>5 DEF IInv, TypeOK, Exiting, Ending
<1>7. EachIsKnown'
  BY <1>1, <1>3 DEF IInv, EachIsKnown, Acting, Awaited, calls
<1>8. AwaitedAlone'
  BY <1>1, <1>3 DEF AwaitedAlone, MayRun, calls
<1>9. StopAllIsAlone'
  BY <1>1, <1>2, <1>4, <1>5 DEF IInv, StopAllIsAlone, calls
<1>10. LeftForGood'
  BY <1>1, <1>4 DEF IInv, LeftForGood, Ending, calls
<1> QED
  BY <1>6, <1>7, <1>8, <1>9, <1>10 DEF IInv

\* What follows a call of the exit, stop.ps1 first and then status.ps1.
LEMMA ExitCallFacts ==
  ASSUME work \in Works, leaving \in Leavings, OfExit, NEW outcome, NEW left,
         After(outcome, left)
  PROVE  /\ leaving' \in Leavings /\ leaving'.mode = leaving.mode
         /\ \/ /\ work.step = "stopAll" /\ work' \in Works /\ work'.step = "confirm"
               /\ work'.awaiting = FALSE /\ work' # None
               /\ UNCHANGED <<leaving, exited, finish>>
            \/ /\ work.step = "confirm" /\ work' \in Works /\ work'.step = "showLeft"
               /\ work'.awaiting = FALSE /\ work' # None /\ leaving'.said
               /\ UNCHANGED <<exited, finish>>
            \/ /\ work' = None /\ exited' = TRUE
               /\ finish' \in {finish, "exit"}
               /\ leaving.said => leaving'.said
               /\ ~leaving'.said /\ work.step # "stopAll" => left = {}
               /\ work.step = "stopAll" => outcome = "ok" /\ leaving' = leaving
<1>1. CASE work.step = "stopAll" /\ AfterStopAll(outcome)
  <2>1. CASE Goto("confirm") /\ UNCHANGED <<leaving, ended, exitClaimed>>
    BY <1>1, <2>1, GotoFacts DEF ended
  <2>2. CASE FinishExit("exit") /\ UNCHANGED leaving /\ outcome = "ok"
    BY <1>1, <2>2 DEF FinishExit, Done
  <2> QED
    BY <1>1, <2>1, <2>2 DEF AfterStopAll
<1>2. CASE work.step # "stopAll" /\ AfterConfirm(outcome, left)
  <2>1. leaving' \in Leavings /\ leaving'.mode = leaving.mode
        /\ leaving'.said = (leaving.said \/ outcome # "ok" \/ left # {})
    BY <1>2 DEF AfterConfirm, Leavings
  <2>2. CASE Goto("showLeft") /\ leaving'.said /\ UNCHANGED <<ended, exitClaimed>>
    <3>1. work' \in Works /\ work'.step = "showLeft" /\ work'.awaiting = FALSE /\ work' # None
      BY <2>2, GotoFacts DEF Questions
    <3> QED
      BY <1>2, <2>1, <2>2, <3>1 DEF ended, OfExit
  <2>3. CASE FinishExit("exit")
    BY <1>2, <2>1, <2>3 DEF FinishExit, Done
  <2> QED
    BY <1>2, <2>2, <2>3 DEF AfterConfirm
<1> QED
  BY <1>1, <1>2 DEF After, OfExit

\* Where a call that acts is waited for, nothing else acts.
LEMMA AtACall ==
  ASSUME IInv, AtScript, work.awaiting
  PROVE  /\ work # None /\ work \in Works /\ Awaited = {ScriptOf[work.step]}
         /\ finish # "exit"
         /\ ~OfExit => abandoned = None /\ "stopAll" \notin scripts
         /\ OfExit => Ending /\ leaving \in Leavings
         /\ work.step = "stopAll" => abandoned = None
  BY ScriptsOfSteps
  DEF IInv, AtScript, Awaited, AwaitedAlone, StopAllIsAlone, TypeOK, OfExit, Ending, Exiting,
      At, LeftForGood

LEMMA CommandReturns ==
  ASSUME IInv, NEW outcome \in {"ok", "bad", "none"}, ScriptReturns(outcome), ~OfExit
  PROVE  IInv'
<1>1. /\ AtScript /\ work.awaiting /\ AfterCommandCall(outcome)
      /\ scripts' = scripts \ {ScriptOf[work.step]} /\ UNCHANGED <<queue, calls>>
  BY DEF ScriptReturns, After
<1>2. /\ work # None /\ work \in Works /\ Awaited = {ScriptOf[work.step]}
      /\ finish # "exit" /\ abandoned = None /\ "stopAll" \notin scripts
  BY <1>1, AtACall
<1>3. Idles /\ leaving' = leaving /\ exited' = exited /\ finish' = finish
  BY <1>1, <1>2, CommandCallFacts
<1>4. Acting' \subseteq {abandoned}
  BY <1>1, <1>2 DEF IInv, EachIsKnown, Acting
<1>5. TypeOK'
  BY <1>1, <1>2, <1>3 DEF IInv, TypeOK, Idles, Exiting, Ending, At
<1>6. EachIsKnown' /\ AwaitedAlone' /\ StopAllIsAlone' /\ LeftForGood'
  BY <1>1, <1>2, <1>3, <1>4
  DEF EachIsKnown, AwaitedAlone, StopAllIsAlone, LeftForGood, Idles, Ending, At, calls
<1> QED
  BY <1>5, <1>6 DEF IInv

LEMMA EffectsFacts ==
  /\ Effects("stopAll", TRUE) = {{}}
  /\ Effects("status", TRUE) = {up}
  /\ \A script \in {"status", "check", "stopAll"}, ok \in BOOLEAN :
       up = {} => \A new \in Effects(script, ok) : new = {}
<1>1. Effects("stopAll", TRUE) = {{}} /\ Effects("status", TRUE) = {up}
  BY DEF Effects
<1>2. ASSUME NEW script \in {"status", "check", "stopAll"}, NEW ok \in BOOLEAN,
             NEW new \in Effects(script, ok), up = {}
      PROVE  new = {}
  <2>1. (CASE script = "startComfy" -> up \cup {"comfy"}
           [] script = "startGateway" -> up \cup {"gateway"}
           [] script = "stopGateway" -> up \ {"gateway"}
           [] script = "stopAll" -> {}
           [] OTHER -> up) = {}
    BY <1>2
  <2> QED
    BY <1>2, <2>1 DEF Effects
<1> QED
  BY <1>1, <1>2

\* A failed status.ps1 is said, so that what it did to the world is not promised.
LEMMA ExitCallReturns ==
  ASSUME IInv, NEW outcome \in {"ok", "bad", "none"}, ScriptReturns(outcome), OfExit
  PROVE  IInv'
<1>1. /\ AtScript /\ work.awaiting /\ After(outcome, up)
      /\ scripts' = scripts \ {ScriptOf[work.step]} /\ UNCHANGED <<queue, calls>>
      /\ up' \in Effects(ScriptOf[work.step], outcome = "ok")
  BY DEF ScriptReturns
<1>2. /\ work # None /\ work \in Works /\ Awaited = {ScriptOf[work.step]}
      /\ finish # "exit" /\ Ending /\ leaving \in Leavings
      /\ work.step = "stopAll" => abandoned = None
  BY <1>1, AtACall
<1>3. work.step \in {"stopAll", "confirm"}
  BY DEF OfExit
<1>4. Acting \subseteq {ScriptOf[work.step], abandoned, "stopAll"}
  BY <1>2 DEF IInv, EachIsKnown
<1>5. ~leaving.said => abandoned = None
  BY <1>2 DEF IInv, LeftForGood
<1>6. CASE work.step = "stopAll"
  <2>1. Acting' = {} /\ "stopAll" \notin scripts'
    BY <1>1, <1>2, <1>4, <1>6, ScriptsOfSteps, LauncherAssumption DEF Acting, IInv, TypeOK
  <2>2. CASE /\ work' \in Works /\ work'.step = "confirm" /\ work'.awaiting = FALSE
             /\ work' # None /\ UNCHANGED <<leaving, exited, finish>>
    <3>1. TypeOK'
      BY <1>1, <1>2, <2>2 DEF IInv, TypeOK
    <3>2. EachIsKnown' /\ AwaitedAlone' /\ StopAllIsAlone' /\ LeftForGood'
      BY <1>1, <1>2, <1>5, <2>1, <2>2
      DEF EachIsKnown, AwaitedAlone, StopAllIsAlone, LeftForGood, Ending, At, calls
    <3> QED
      BY <3>1, <3>2 DEF IInv
  <2>3. CASE /\ work' = None /\ exited' = TRUE /\ outcome = "ok" /\ leaving' = leaving
    <3>1. up' = {}
      BY <1>1, <1>6, <2>3, ScriptsOfSteps, EffectsFacts
    <3>2. TypeOK'
      BY <1>1, <1>2, <2>3 DEF IInv, TypeOK
    <3>3. EachIsKnown' /\ AwaitedAlone' /\ StopAllIsAlone' /\ LeftForGood'
      BY <2>1, <2>3, <3>1
      DEF EachIsKnown, AwaitedAlone, StopAllIsAlone, LeftForGood, Ending, At
    <3> QED
      BY <3>2, <3>3 DEF IInv
  <2> QED
    BY <1>1, <1>2, <1>6, <2>2, <2>3, ExitCallFacts
<1>7. CASE work.step = "confirm"
  <2>1. /\ leaving' \in Leavings
        /\ leaving.said => leaving'.said
        /\ ~leaving'.said => up = {}
        /\ \/ work' = None /\ exited' = TRUE
           \/ /\ work' \in Works /\ work' # None /\ work'.step = "showLeft"
              /\ work'.awaiting = FALSE /\ leaving'.said /\ UNCHANGED <<exited, finish>>
    BY <1>1, <1>2, <1>7, ExitCallFacts
  <2>2. Acting' \subseteq {abandoned, "stopAll"} /\ scripts' \subseteq scripts
    BY <1>1, <1>4, <1>7, ScriptsOfSteps DEF Acting
  <2>3. ~leaving'.said => up' = {}
    BY <1>1, <1>7, <2>1, ScriptsOfSteps, EffectsFacts
  <2>4. TypeOK'
    BY <1>1, <1>2, <2>1 DEF IInv, TypeOK
  <2>5. "stopAll" \in scripts => abandoned = None
    BY <1>7, ScriptsOfSteps DEF IInv, StopAllIsAlone, At
  <2>6. ~leaving'.said => Acting' \subseteq {"stopAll"}
    BY <1>1, <1>5, <2>1, <2>2, LauncherAssumption DEF Acting, IInv, TypeOK
  <2>7. EachIsKnown' /\ AwaitedAlone' /\ StopAllIsAlone'
    BY <1>1, <2>1, <2>2, <2>5
    DEF EachIsKnown, AwaitedAlone, StopAllIsAlone, At, calls
  <2>8. LeftForGood'
    BY <1>2, <2>1, <2>3, <2>6 DEF LeftForGood, Ending, At
  <2> QED
    BY <2>4, <2>7, <2>8 DEF IInv
<1> QED
  BY <1>3, <1>6, <1>7

LEMMA GiveUpStep == ASSUME IInv, GiveUp PROVE IInv'
<1>1. /\ AtScript /\ work.awaiting /\ After("none", up) /\ UNCHANGED <<queue, scripts, up>>
      /\ OfExit => abandoned' = abandoned
      /\ ~OfExit => abandoned' = ScriptOf[work.step]
  BY DEF GiveUp, world, calls
<1>2. /\ work # None /\ work \in Works /\ Awaited = {ScriptOf[work.step]}
      /\ finish # "exit"
      /\ ~OfExit => abandoned = None /\ "stopAll" \notin scripts
      /\ OfExit => Ending /\ leaving \in Leavings
      /\ work.step = "stopAll" => abandoned = None
  BY <1>1, AtACall
<1>3. Acting \subseteq {ScriptOf[work.step], abandoned, "stopAll"} /\ Acting' = Acting
  BY <1>1, <1>2 DEF IInv, EachIsKnown, Acting
<1>4. CASE ~OfExit
  <2>1. Idles /\ leaving' = leaving /\ exited' = exited /\ finish' = finish
    BY <1>1, <1>2, <1>4, CommandCallFacts DEF After
  <2>2. Acting' \subseteq {abandoned'}
    BY <1>1, <1>2, <1>3, <1>4, LauncherAssumption DEF Acting, IInv, TypeOK
  <2>3. TypeOK'
    BY <1>1, <1>2, <2>1 DEF IInv, TypeOK, Idles, Exiting, Ending, At
  <2>4. EachIsKnown' /\ AwaitedAlone' /\ StopAllIsAlone' /\ LeftForGood'
    BY <1>1, <1>2, <1>4, <2>1, <2>2
    DEF EachIsKnown, AwaitedAlone, StopAllIsAlone, LeftForGood, Idles, Ending, At
  <2> QED
    BY <2>3, <2>4 DEF IInv
<1>5. CASE work.step = "stopAll"
  <2>1. /\ work' \in Works /\ work'.step = "confirm" /\ work'.awaiting = FALSE
        /\ work' # None /\ UNCHANGED <<leaving, exited, finish>>
    <3>1. OfExit
      BY <1>5 DEF OfExit
    <3>2. ~(work.step = "stopAll" => "none" = "ok" /\ leaving' = leaving)
      BY <1>5
    <3> QED
      BY <1>1, <1>2, <3>1, <3>2, ExitCallFacts
  <2>2. Acting' \subseteq {"stopAll"} /\ abandoned' = None
    BY <1>1, <1>2, <1>3, <1>5, ScriptsOfSteps, LauncherAssumption DEF Acting, IInv, TypeOK, OfExit
  <2>3. TypeOK'
    BY <1>1, <1>2, <1>5, <2>1 DEF IInv, TypeOK, OfExit
  <2>4. EachIsKnown' /\ AwaitedAlone' /\ StopAllIsAlone' /\ LeftForGood'
    BY <1>2, <2>1, <2>2
    DEF EachIsKnown, AwaitedAlone, StopAllIsAlone, LeftForGood, Ending, At
  <2> QED
    BY <2>3, <2>4 DEF IInv
<1>6. CASE work.step = "confirm"
  <2>1. /\ leaving' \in Leavings
        /\ leaving.said => leaving'.said
        /\ ~leaving'.said => up = {}
        /\ \/ work' = None /\ exited' = TRUE
           \/ /\ work' \in Works /\ work' # None /\ work'.step = "showLeft"
              /\ work'.awaiting = FALSE /\ leaving'.said /\ UNCHANGED <<exited, finish>>
    BY <1>1, <1>2, <1>6, ExitCallFacts DEF OfExit
  <2>2. Acting \subseteq {abandoned, "stopAll"} /\ abandoned' = abandoned
    BY <1>1, <1>3, <1>6, ScriptsOfSteps DEF Acting, OfExit
  <2>3. /\ "stopAll" \in scripts => abandoned = None
        /\ ~leaving.said => abandoned = None
    BY <1>2, <1>6 DEF IInv, StopAllIsAlone, LeftForGood, At, OfExit
  <2>4. ~leaving'.said => Acting' \subseteq {"stopAll"}
    BY <1>1, <1>3, <2>1, <2>2, <2>3, LauncherAssumption DEF Acting, IInv, TypeOK
  <2>5. TypeOK'
    BY <1>1, <1>2, <2>1 DEF IInv, TypeOK
  <2>6. EachIsKnown' /\ AwaitedAlone' /\ StopAllIsAlone'
    BY <1>1, <1>3, <2>1, <2>2, <2>3 DEF EachIsKnown, AwaitedAlone, StopAllIsAlone, At
  <2>7. LeftForGood'
    BY <1>1, <1>2, <2>1, <2>4 DEF LeftForGood, Ending, At
  <2> QED
    BY <2>5, <2>6, <2>7 DEF IInv
<1> QED
  BY <1>4, <1>5, <1>6 DEF OfExit

\* A script that ends alone acts no more, and what it leaves is not promised unless
\* nothing is left already.
LEMMA ScriptEndsAloneStep ==
  ASSUME IInv, NEW script \in scripts, ScriptEndsAlone(script)
  PROVE  IInv'
<1>1. /\ script \in scripts \ Awaited /\ scripts' = scripts \ {script}
      /\ UNCHANGED <<queue, work, leaving>> /\ exited' = exited /\ finish' = finish
      /\ abandoned' = IF abandoned = script THEN None ELSE abandoned
  BY DEF ScriptEndsAlone, ended
<1>2. PICK ok \in BOOLEAN : up' \in Effects(script, ok)
  BY DEF ScriptEndsAlone
<1>3. Awaited' = Awaited /\ (\A step : At(step)' <=> At(step)) /\ AtScript' = AtScript
      /\ OfExit' = OfExit
  BY <1>1 DEF Awaited, At, AtScript, OfExit
<1>4. Acting' = Acting \ {script} /\ script \in Scripts /\ script # None
  BY <1>1, LauncherAssumption DEF Acting, IInv, TypeOK
<1>5. TypeOK'
  BY <1>1, <1>3 DEF IInv, TypeOK, Exiting, Ending
<1>6. EachIsKnown'
  BY <1>1, <1>3, <1>4 DEF IInv, EachIsKnown
<1>7. AwaitedAlone' /\ StopAllIsAlone'
  BY <1>1, <1>3, <1>4 DEF IInv, AwaitedAlone, StopAllIsAlone
<1>8. ASSUME finish = "exit", ~leaving.said PROVE up' = {} /\ Acting' \subseteq {"stopAll"}
  <2>1. up = {} /\ Acting \subseteq {"stopAll"}
    BY <1>8 DEF IInv, LeftForGood
  <2>2. script \in {"status", "check", "stopAll"}
    BY <1>1, <2>1 DEF Acting
  <2> QED
    BY <1>2, <1>4, <2>1, <2>2, EffectsFacts
<1>9. LeftForGood'
  BY <1>1, <1>3, <1>4, <1>8 DEF IInv, LeftForGood, Ending
<1> QED
  BY <1>5, <1>6, <1>7, <1>9 DEF IInv

(***************************************************************************)
(* The steps that are not the consumer's, nor a script's.                  *)
(***************************************************************************)

\* The work, the scripts and the calls are as they were, and nothing more runs.
LEMMA Elsewhere ==
  ASSUME IInv, UNCHANGED <<work, scripts, leaving, abandoned>>, queue' \in Seq(Names),
         up' \subseteq up, exited' \in {exited, TRUE},
         finish' = finish \/ (finish # "exit" /\ finish' = "disposed")
  PROVE  IInv'
<1>1. Awaited' = Awaited /\ (\A step : At(step)' <=> At(step)) /\ AtScript' = AtScript
      /\ OfExit' = OfExit /\ Acting' = Acting
  BY DEF Awaited, At, AtScript, OfExit, Acting
<1>2. TypeOK'
  BY <1>1 DEF IInv, TypeOK, Exiting, Ending
<1>3. EachIsKnown' /\ AwaitedAlone' /\ StopAllIsAlone'
  BY <1>1 DEF IInv, EachIsKnown, AwaitedAlone, StopAllIsAlone, TypeOK
<1>4. LeftForGood'
  BY <1>1 DEF IInv, LeftForGood, Ending
<1> QED
  BY <1>2, <1>3, <1>4 DEF IInv

LEMMA ElsewhereSteps ==
  ASSUME IInv, \/ Abandon \/ Tick \/ GatewayDies \/ RequestExit \/ SessionEnds
               \/ ClaimSessionEnd \/ UiEnds \/ UNCHANGED vars
               \/ \E name \in {"restart", "sync"} : RequestCommand(name)
  PROVE  IInv'
<1>1. queue \in Seq(Names) /\ exited \in BOOLEAN /\ (finish = "exit" => exited)
  BY DEF IInv, TypeOK, LeftForGood
<1>2. UNCHANGED <<work, scripts, leaving, abandoned>>
  BY DEF Abandon, Tick, GatewayDies, RequestExit, SessionEnds, ClaimSessionEnd, UiEnds, vars,
         RequestCommand, calls, world
<1>3. queue' \in Seq(Names)
  <2>1. CASE Abandon
    BY <1>1, <2>1 DEF Abandon
  <2>2. ASSUME NEW name \in {"health", "exit", "sessionEnd", "restart", "sync"},
               queue' = Append(queue, name)
        PROVE  queue' \in Seq(Names)
    BY <1>1, <2>2 DEF Names
  <2>3. CASE queue' = queue
    BY <1>1, <2>3
  <2> QED
    BY <2>1, <2>2, <2>3
    DEF Tick, GatewayDies, RequestExit, SessionEnds, ClaimSessionEnd, UiEnds, vars,
        RequestCommand
<1>4. up' \subseteq up
  BY DEF Abandon, Tick, GatewayDies, RequestExit, SessionEnds, ClaimSessionEnd, UiEnds, vars,
         RequestCommand, world
<1>5. /\ exited' \in {exited, TRUE}
      /\ finish' = finish \/ (finish # "exit" /\ finish' = "disposed")
  BY <1>1 DEF Abandon, Tick, GatewayDies, RequestExit, SessionEnds, ClaimSessionEnd, UiEnds, vars,
         RequestCommand, ended
<1> QED
  BY <1>2, <1>3, <1>4, <1>5, Elsewhere

LEMMA ConsumerSteps == ASSUME IInv, ConsumerStep PROVE IInv'
<1>1. CASE Take \/ Call \/ NotRun \/ GiveUp
  BY <1>1, TakeStep, CallStep, NotRunStep, GiveUpStep
<1>2. CASE \E outcome \in {"ok", "bad", "none"} : ScriptReturns(outcome)
  BY <1>2, CommandReturns, ExitCallReturns
<1>3. CASE ProbeJobs \/ Retire \/ Probe
  BY <1>3, CommandStep
<1>4. CASE BeginExit \/ CancelExit \/ Leave
  BY <1>4, BeginExitStep, CancelExitStep, LeaveStep
<1>5. CASE QuestionCancelled
  <2>1. At("askExit") \in BOOLEAN
    BY DEF At
  <2> QED
    BY <1>5, <2>1, AnsweredStep, LeftShownStep DEF QuestionCancelled
<1>6. CASE Abandon
  BY <1>6, ElsewhereSteps
<1> QED
  BY <1>1, <1>2, <1>3, <1>4, <1>5, <1>6 DEF ConsumerStep

\* The invariant: every script that acts is waited for or remembered, stop.ps1 and
\* the exit's calls run beside none of them, and what an exit promises holds.
THEOREM Invariant == Spec => []IInv
<1>1. Init => IInv
  BY InitIInv
<1>2. ASSUME IInv, [Next]_vars PROVE IInv'
  <2>1. CASE ConsumerStep
    BY <1>2, <2>1, ConsumerSteps
  <2>2. CASE \E yes \in BOOLEAN : UserAnswers(yes)
    BY <1>2, <2>2, AnsweredStep, LeftShownStep DEF UserAnswers
  <2>3. CASE AloneStep
    BY <1>2, <2>3, ScriptEndsAloneStep DEF AloneStep
  <2>4. CASE \/ Tick \/ GatewayDies \/ RequestExit \/ SessionEnds
             \/ ClaimSessionEnd \/ UiEnds \/ UNCHANGED vars
             \/ \E name \in {"restart", "sync"} : RequestCommand(name)
    BY <1>2, <2>4, ElsewhereSteps
  <2> QED
    BY <1>2, <2>1, <2>2, <2>3, <2>4 DEF Next, UserStep
<1> QED
  BY <1>1, <1>2, PTL DEF Spec

(***************************************************************************)
(* What the invariant gives.                                               *)
(***************************************************************************)

\* Of the scripts that start or stop anything, or sync, no two run at once: RunAsync
\* runs nothing beside a call that was given up, and an exit waits for it or does
\* not run stop.ps1.
THEOREM NoTwoAct == Spec => []OneScriptActs
<1>1. ASSUME IInv PROVE OneScriptActs
  <2>1. None \notin Acting /\ Acting \subseteq Awaited \cup {abandoned, "stopAll"}
    BY <1>1, LauncherAssumption DEF IInv, TypeOK, EachIsKnown, Acting
  <2>2. PICK one : Acting \subseteq {one}
    <3>1. CASE "stopAll" \in scripts /\ ~(At("stopAll") /\ work.awaiting)
      <4>1. abandoned = None /\ Awaited \subseteq {"status"}
        BY <1>1, <3>1, ScriptsOfSteps DEF IInv, StopAllIsAlone, Awaited, AtScript, At
      <4> QED
        BY <2>1, <4>1 DEF Acting
    <3>2. CASE At("stopAll") /\ work.awaiting
      BY <1>1, <2>1, <3>2, ScriptsOfSteps DEF IInv, StopAllIsAlone, Awaited, AtScript, At
    <3>3. CASE "stopAll" \notin scripts /\ work # None /\ work.awaiting
      <4>1. CASE abandoned = None
        BY <2>1, <3>3, <4>1 DEF Acting, Awaited
      <4>2. CASE OfExit
        <5>1. Awaited \subseteq {"status", "stopAll"}
          BY <4>2, ScriptsOfSteps DEF OfExit, Awaited
        <5>2. Acting \subseteq {abandoned}
          BY <2>1, <3>3, <5>1 DEF Acting
        <5> QED
          BY <5>2
      <4> QED
        BY <1>1, <3>3, <4>1, <4>2 DEF IInv, AwaitedAlone
    <3>4. CASE "stopAll" \notin scripts /\ ~(work # None /\ work.awaiting)
      BY <2>1, <3>4 DEF Acting, Awaited, AtScript
    <3> QED
      BY <3>1, <3>2, <3>3, <3>4 DEF At
  <2>3. IsFiniteSet({one}) /\ Cardinality({one}) = 1
    BY FS_Singleton
  <2>4. Cardinality(Acting) <= Cardinality({one})
    BY <2>2, <2>3, FS_Subset
  <2> QED
    BY <2>3, <2>4 DEF OneScriptActs, Acting
<1> QED
  BY <1>1, Invariant, PTL

\* An exit that reports nothing has left nothing: stop.ps1 accounted for everything
\* or status.ps1 found nothing, and no call that was given up could start it again.
THEOREM NothingIsLeftUnsaid == Spec => []NothingLeftUnsaid
<1>1. ASSUME IInv PROVE NothingLeftUnsaid
  BY <1>1 DEF IInv, LeftForGood, NothingLeftUnsaid, Acting
<1> QED
  BY <1>1, Invariant, PTL

=============================================================================
