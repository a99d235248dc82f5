----------------------------- MODULE AppSession -----------------------------
(***************************************************************************)
(* The app's connection (app/lib/connection/connection_controller.dart),   *)
(* its session (app/lib/generation/session_controller.dart) and the        *)
(* generation controller they drive, over gateways that may be out of      *)
(* reach, restart, and answer late.                                        *)
(*                                                                         *)
(* A step is what the app's one thread does between two awaits.  The       *)
(* connection tells the session of its changes (notifyListeners), and the  *)
(* session tells the generation, all in the same step.                     *)
(***************************************************************************)
EXTENDS GenerationController

CONSTANTS
  LaunchAttempts, \* kLaunchAttempts
  Attempts        \* the session's attempts: handshakes of one reconnect

ASSUME LaunchAssumption == LaunchAttempts \in Nat \ {0}
ASSUME AttemptsAssumption == Attempts \in Nat \ {0}

VARIABLES
  gen,     \* the generation controller
  conn,    \* the connection controller: its phase ("idle", "connecting",
           \* "needsServer", "connected"), its endpoint, the operation that holds
           \* isBusy ("none", "start", "connect", "refresh", "probe"; an overtaken
           \* one records nothing and is forgotten), whether that operation's success
           \* is recorded and being remembered, and the tries of a launch
  session, \* the session controller: where a reconnect waits ("probe", "backoff",
           \* "reload", "recover", or "none" when none runs), the attempts it made,
           \* the failure shown, and the phase it last acted on
  gateway  \* each job: its state, "absent" or "gone", and the server that has it

vars == <<gen, conn, session, gateway>>

Init ==
  /\ gen = NewController
  /\ conn = [phase |-> "idle", endpoint |-> NoServer, operation |-> "none",
             accepted |-> FALSE, tries |-> 0]
  /\ session = [waits |-> "none", made |-> 0, failure |-> FALSE,
                attached |-> "idle"]
  /\ gateway = [j \in Jobs |-> [state |-> "absent", server |-> NoServer]]

Busy == conn.operation # "none"
IsReconnecting == session.waits # "none"

\* The bound on what is out at once.
Within == Cardinality(gen'.requests) <= MaxRequests

(***************************************************************************)
(* Notifications.                                                          *)
(***************************************************************************)

\* Mutant of Told: arriving at a gateway is not told apart from staying at one.
ToldNeverArriving(g, c) ==
  CASE c.phase = "connecting"  -> MarkConnecting(g)
    [] c.phase = "needsServer" -> ConnectionLost(g)
    [] c.phase = "connected"   -> Attach(g, c.endpoint)
    [] OTHER                   -> g

\* _onConnectionChanged, as far as the generation goes.
Told(g, c) ==
  CASE c.phase = "connecting"  -> MarkConnecting(g)
    [] c.phase = "needsServer" -> ConnectionLost(g)
    [] c.phase = "connected"   ->
         LET here == Attach(g, c.endpoint)
         IN  IF session.attached = "connected" THEN here
             ELSE RecoverJob(here, "recover")
    [] OTHER                   -> g

\* The connection becomes c and says so; the generation was g before it heard.
Notify(c, g) ==
  /\ conn' = c
  /\ gen' = Told(g, c)

(***************************************************************************)
(* The reconnect.                                                          *)
(***************************************************************************)
Probing(c) == [c EXCEPT !.operation = "probe", !.accepted = FALSE, !.tries = 0]

\* A reconnect begins: up to the first handshake's await.
Begin(g) ==
  /\ session' = [session EXCEPT !.waits = "probe", !.made = 1, !.failure = FALSE,
                                !.attached = conn.phase]
  /\ Notify(Probing(conn), BeginReconnect(g))

\* The user asks for it, from the recovery panel.
Reconnect ==
  /\ session.attached = "connected"
  /\ session.failure
  /\ ~IsReconnecting
  /\ Begin(gen)
  /\ Within
  /\ UNCHANGED gateway

\* The backoff is over.
ProbeAgain ==
  /\ session.waits = "backoff"
  /\ session' = [session EXCEPT !.waits = "probe", !.made = @ + 1,
                                !.attached = conn.phase]
  /\ Notify(Probing(conn), gen)
  /\ Within
  /\ UNCHANGED gateway

Reloaded ==
  /\ session.waits = "reload"
  /\ IF Asks(gen)
     THEN /\ session' = [session EXCEPT !.waits = "recover"]
          /\ gen' = RecoverJob(gen, "lastStep")
     ELSE /\ session' = [session EXCEPT !.waits = "none"]
          /\ gen' = EndReconnect(RecoverJob(gen, "lastStep"), TRUE)
  /\ Within
  /\ UNCHANGED <<conn, gateway>>

(***************************************************************************)
(* The connection's operations.                                            *)
(***************************************************************************)

\* start, with a server remembered or without.
Start ==
  /\ conn.phase = "idle"
  /\ \/ Notify([conn EXCEPT !.phase = "needsServer"], gen)
     \/ \E s \in Servers :
          Notify([conn EXCEPT !.phase = "connecting", !.endpoint = s,
                              !.operation = "start", !.tries = 1], gen)
  /\ session' = [session EXCEPT !.attached = conn'.phase]
  /\ UNCHANGED gateway

\* connectTo and retry, from the connect screen.
ConnectTo(s) ==
  /\ session.attached = "needsServer"
  /\ ~Busy
  /\ Notify([conn EXCEPT !.phase = "connecting", !.endpoint = s,
                         !.operation = "connect"], gen)
  /\ session' = [session EXCEPT !.attached = "connecting"]
  /\ UNCHANGED gateway

RefreshIdentity ==
  /\ session.attached = "connected"
  /\ ~Busy
  /\ Notify([conn EXCEPT !.operation = "refresh"], gen)
  /\ UNCHANGED <<session, gateway>>

\* _accept: recorded at once, told when the server was remembered.
Accept ==
  /\ Busy /\ ~conn.accepted
  /\ conn' = [conn EXCEPT !.phase = "connected", !.accepted = TRUE, !.tries = 0]
  /\ UNCHANGED <<gen, session, gateway>>

Accepted ==
  /\ Busy /\ conn.accepted
  /\ Notify([conn EXCEPT !.operation = "none", !.accepted = FALSE], gen)
  /\ session' = [session EXCEPT
       !.attached = "connected",
       !.waits = IF conn.operation = "probe" THEN "reload" ELSE @]
  /\ Within
  /\ UNCHANGED gateway

\* A launch attempt that nothing answered is worth one more.
StartAgain ==
  /\ conn.operation = "start" /\ ~conn.accepted
  /\ conn.tries < LaunchAttempts
  /\ conn' = [conn EXCEPT !.tries = @ + 1]
  /\ UNCHANGED <<gen, session, gateway>>

\* A handshake fails for good: the connect screen, or the reconnect's decision.
HandshakeFails ==
  /\ conn.operation \in {"start", "connect", "refresh"} /\ ~conn.accepted
  /\ Notify([conn EXCEPT !.phase = "needsServer", !.operation = "none",
                         !.tries = 0], gen)
  /\ session' = [session EXCEPT !.attached = "needsServer"]
  /\ UNCHANGED gateway

\* Mutant of ProbeFails: attempts are not counted.
ProbeFailsForever ==
  /\ conn.operation = "probe" /\ ~conn.accepted
  /\ conn' = [conn EXCEPT !.operation = "none"]
  /\ gen' = Told(gen, conn')
  /\ session' = [session EXCEPT !.waits = "backoff", !.made = 0,
                                !.attached = conn.phase]
  /\ Within
  /\ UNCHANGED gateway

\* Only "nothing answered" is worth another attempt, and only inside the bound.
ProbeFails ==
  /\ conn.operation = "probe" /\ ~conn.accepted
  /\ conn' = [conn EXCEPT !.operation = "none"]
  /\ \/ /\ session.made < Attempts
        /\ gen' = Told(gen, conn')
        /\ session' = [session EXCEPT !.waits = "backoff",
                                      !.attached = conn.phase]
     \/ /\ gen' = EndReconnect(Told(gen, conn'), FALSE)
        /\ session' = [session EXCEPT !.waits = "none", !.failure = TRUE,
                                      !.attached = conn.phase]
  /\ Within
  /\ UNCHANGED gateway

\* Mutant of ChooseAnotherServer: the reconnect it ends keeps its mark.
ChooseWithoutEnding ==
  /\ session.attached = "connected"
  /\ session' = [session EXCEPT !.failure = FALSE, !.waits = "none",
                                !.attached = "needsServer"]
  /\ Notify([conn EXCEPT !.phase = "needsServer", !.operation = "none",
                         !.accepted = FALSE, !.tries = 0], gen)
  /\ UNCHANGED gateway

\* It ends the reconnect that runs, and whatever handshake is out.
ChooseAnotherServer ==
  /\ session.attached = "connected"
  /\ session' = [session EXCEPT !.failure = FALSE, !.waits = "none",
                                !.attached = "needsServer"]
  /\ Notify([conn EXCEPT !.phase = "needsServer", !.operation = "none",
                         !.accepted = FALSE, !.tries = 0],
            LET g == IF IsReconnecting THEN EndReconnect(gen, FALSE) ELSE gen
            IN  [g EXCEPT !.requests =
                   {[r EXCEPT !.kind = IF @ = "lastStep" THEN "recover" ELSE @] :
                      r \in {q \in @ : q.mine \/ q.kind = "poll"}}])
  /\ UNCHANGED gateway

(***************************************************************************)
(* The user, in the connected shell.                                       *)
(***************************************************************************)
Generate ==
  /\ session.attached = "connected"
  /\ gen.endpoint # NoServer /\ gen.state \notin Progressing
  /\ gen' = Submit(gen)
  /\ Within
  /\ UNCHANGED <<conn, session, gateway>>

CancelJob ==
  /\ session.attached = "connected"
  /\ CanCancel(gen)
  /\ gen' = Cancel(gen)
  /\ Within
  /\ UNCHANGED <<conn, session, gateway>>

BackToTheForm ==
  /\ session.attached = "connected"
  /\ gen.state \in IsOutcome \cup {"interrupted"}
  /\ gen' = GenerateAgain(gen)
  /\ UNCHANGED <<conn, session, gateway>>

PollTick ==
  /\ gen.timer
  /\ PollOnce(gen) # gen
  /\ gen' = PollOnce(gen)
  /\ Within
  /\ UNCHANGED <<conn, session, gateway>>

(***************************************************************************)
(* The gateways.                                                           *)
(***************************************************************************)
JobMoves(j) ==
  /\ \E s \in {"running"} \cup Outcomes :
       /\ gateway[j].state \in {"queued", "running"} \ {s}
       /\ gateway' = [gateway EXCEPT ![j].state = s]
  /\ UNCHANGED <<gen, conn, session>>

GatewayRestarts(s) ==
  /\ \E j \in Jobs : gateway[j].server = s /\ gateway[j].state # "gone"
  /\ gateway' = [j \in Jobs |-> IF gateway[j].server = s
                                THEN [gateway[j] EXCEPT !.state = "gone"]
                                ELSE gateway[j]]
  /\ UNCHANGED <<gen, conn, session>>

Answering(r, answer) ==
  gen' = [gen EXCEPT !.requests = (@ \ {r}) \cup {[r EXCEPT !.answer = answer]}]

\* A submission creates a job, and its answer carries the id.
ServeSubmit(r) ==
  /\ r.kind = "submit" /\ r.answer = NoAnswer
  /\ \E j \in Jobs :
       /\ gateway[j].state = "absent"
       /\ gateway' = [gateway EXCEPT ![j] = [state |-> "queued", server |-> r.server]]
       /\ gen' = [gen EXCEPT !.requests = (@ \ {r}) \cup
                    {[r EXCEPT !.job = j, !.answer = "queued"]}]
  /\ UNCHANGED <<conn, session>>

\* A cancel deletes a waiting job, or asks for an interrupt that takes its time.
ServeCancel(r) ==
  /\ r.kind = "cancel" /\ r.answer = NoAnswer
  /\ gateway[r.job].state # "gone"
  /\ \E s \in {gateway[r.job].state} \cup (Outcomes \cap {"cancelled"}) :
       /\ gateway[r.job].state \in Outcomes => s = gateway[r.job].state
       /\ gateway' = [gateway EXCEPT ![r.job].state = s]
       /\ Answering(r, s)
  /\ UNCHANGED <<conn, session>>

\* A snapshot, or the next message of a socket.
ServeSnapshot(r) ==
  /\ r.kind \in Recoveries \cup {"poll", "refresh", "socket"}
  /\ r.mine
  /\ r.answer = NoAnswer
  /\ r.kind = "socket" => gateway[r.job].state # "gone"
  /\ Answering(r, gateway[r.job].state)
  /\ UNCHANGED <<conn, session, gateway>>

(***************************************************************************)
(* Answers and failures reach the app.                                     *)
(***************************************************************************)
Quietly(g) ==
  /\ gen' = g
  /\ Within
  /\ UNCHANGED <<conn, session, gateway>>

SubmitAnswered(r) ==
  r.kind = "submit" /\ r.answer # NoAnswer /\ Quietly(Submitted(Without(gen, r), r))

SubmitLost(r) == r.kind = "submit" /\ Quietly(SubmitFailed(Without(gen, r), r))

CancelAnswered(r) ==
  r.kind = "cancel" /\ r.answer # NoAnswer /\ Quietly(Cancelled(Without(gen, r), r))

CancelLost(r) == r.kind = "cancel" /\ Quietly(CancelFailed(Without(gen, r)))

PollAnswered(r) ==
  r.kind = "poll" /\ r.answer # NoAnswer /\ Quietly(Polled(Without(gen, r), r))

\* The failure that spends the budget starts a reconnect, if none runs.
PollLost(r) ==
  /\ r.kind = "poll"
  /\ IF SpendsBudget(gen, r) /\ ~IsReconnecting
     THEN /\ Begin(PollFailed(Without(gen, r), r))
          /\ Within
          /\ UNCHANGED gateway
     ELSE Quietly(PollFailed(Without(gen, r), r))

RecoverAnswered(r) ==
  /\ r.kind = "recover" /\ r.answer # NoAnswer
  /\ Quietly(Recovered(Without(gen, r), r))

RecoverLost(r) == r.kind = "recover" /\ Quietly(RecoverFailed(Without(gen, r), r))

\* A reconnect's last step is over, whatever it found.
LastStepOver(r) ==
  /\ r.kind = "lastStep"
  /\ \/ /\ ~r.mine \/ r.answer # NoAnswer
        /\ gen' = EndReconnect(Recovered(Without(gen, r), r), TRUE)
     \/ gen' = EndReconnect(RecoverFailed(Without(gen, r), r), TRUE)
  /\ session' = [session EXCEPT !.waits = "none"]
  /\ Within
  /\ UNCHANGED <<conn, gateway>>

RefreshOver(r) ==
  /\ r.kind = "refresh"
  /\ \/ r.answer # NoAnswer /\ Quietly(Refreshed(Without(gen, r), r))
     \/ Quietly(Without(gen, r))

SocketOpens(r) == r.kind = "handshake" /\ Quietly(Opened(Without(gen, r), r))

SocketRefused(r) ==
  r.kind = "handshake" /\ Quietly(StartPolling(Without(gen, r)))

SocketSays(r) ==
  /\ r.kind = "socket" /\ r.answer # NoAnswer
  /\ \E empty \in BOOLEAN :
       Quietly(Heard([gen EXCEPT !.requests =
                        (@ \ {r}) \cup {[r EXCEPT !.answer = NoAnswer]}],
                     r.answer, empty))

SocketEnds(r) == r.kind = "socket" /\ Quietly(SocketLost(Without(gen, r)))

Serve(r) == ServeSubmit(r) \/ ServeCancel(r) \/ ServeSnapshot(r)

Arrive(r) ==
  \/ SubmitAnswered(r) \/ SubmitLost(r) \/ CancelAnswered(r) \/ CancelLost(r)
  \/ PollAnswered(r) \/ PollLost(r) \/ RecoverAnswered(r) \/ RecoverLost(r)
  \/ LastStepOver(r) \/ RefreshOver(r)
  \/ SocketOpens(r) \/ SocketRefused(r) \/ SocketSays(r) \/ SocketEnds(r)

Handshake ==
  Accept \/ Accepted \/ StartAgain \/ HandshakeFails \/ ProbeFails

User ==
  \/ Generate \/ CancelJob \/ BackToTheForm
  \/ Reconnect \/ RefreshIdentity \/ ChooseAnotherServer
  \/ \E s \in Servers : ConnectTo(s)

Gateways ==
  (\E j \in Jobs : JobMoves(j)) \/ \E s \in Servers : GatewayRestarts(s)

Next ==
  \/ Start \/ User \/ Handshake \/ ProbeAgain \/ Reloaded \/ PollTick \/ Gateways
  \/ \E r \in gen.requests : Serve(r) \/ Arrive(r)

Spec == Init /\ [][Next]_vars

\* Fairness.  Every request of the app has a timeout, so each is answered or
\* fails; a timer that was set goes off, and the registry's reload ends.  Strong
\* where the bound Within may hold the step back between two answers.
Ends(i) == \E r \in gen.requests : r.id = i /\ r.kind # "socket" /\ Arrive(r)

Fairness ==
  /\ SF_vars(Handshake) /\ SF_vars(ProbeAgain) /\ SF_vars(Reloaded)
  /\ \A i \in 1 .. MaxRequests + 1 : WF_vars(Ends(i))

FairSpec == Spec /\ Fairness

(***************************************************************************)
(* Properties.                                                             *)
(***************************************************************************)
Current(kinds) ==
  \E r \in gen.requests : r.kind \in kinds /\ r.mine /\ r.contact

\* "A job id is only meaningful to the gateway that issued it": the job shown is
\* one of the server the app is attached to, whichever answers arrive after a move.
JobIsOfThisServer ==
  gen.job # NoJob => gateway[gen.job].server = gen.endpoint

\* An outcome shown for a job is the one the gateway gave it, and a job is called
\* lost only when its gateway has forgotten it.
WhatIsShownIsProven ==
  gen.job # NoJob =>
    /\ gen.state \in IsOutcome => gateway[gen.job].state \in {gen.state, "gone"}
    /\ gen.recovery = "lost" => gateway[gen.job].state = "gone"

\* "so it cannot outlive the check it describes": what the app says it is doing it
\* is doing.  A check of an interrupted job is out, the mark of a reconnect is there
\* exactly while one runs, and a cancel that disables the button has no answer yet.
ClaimsAreTrue ==
  /\ gen.state = "interrupted" /\ gen.recovery = "checking" => Current(Recoveries)
  /\ gen.reconnecting <=> IsReconnecting
  /\ gen.cancelRequested => \E r \in gen.requests : r.kind = "cancel" /\ r.mine

\* A job whose fate the app does not know is never left behind a form that is
\* ready: a question about it is out, whose answer will still count.
NoJobForgotten ==
  gen.state = "ready" /\ gen.job # NoJob => Current(Recoveries)

(***************************************************************************)
(* What keeps the four invariants true from step to step, part by part.    *)
(* A step applies several methods of the controller in turn; the parts     *)
(* that are about the controller take it, and the gateways, as arguments,  *)
(* because each method keeps them.                                         *)
(***************************************************************************)
Kinds == Recoveries \cup
  {"submit", "cancel", "poll", "refresh", "handshake", "socket"}
ServerWords == {"queued", "running"} \cup IsOutcome
Answers == ServerWords \cup {NoAnswer, "gone"}
States == Progressing \cup IsOutcome \cup
  {"disconnected", "connecting", "ready", "reconnecting", "interrupted"}
Ids == 1 .. MaxRequests + 1

Requests ==
  [id : Ids, kind : Kinds, server : Servers \cup {NoServer},
   job : Jobs \cup {NoJob}, mine : BOOLEAN, contact : BOOLEAN, answer : Answers]

Controllers ==
  [state : States, recovery : {"none", "checking", "unknown", "lost"},
   reconnecting : BOOLEAN, endpoint : Servers \cup {NoServer},
   job : Jobs \cup {NoJob}, cancelRequested : BOOLEAN, timer : BOOLEAN,
   socket : Ids \cup {NoSocket}, failures : Nat, requests : SUBSET Requests]

Phases == {"idle", "connecting", "needsServer", "connected"}

Connections ==
  [phase : Phases, endpoint : Servers \cup {NoServer},
   operation : {"none", "start", "connect", "refresh", "probe"},
   accepted : BOOLEAN, tries : Nat]

Sessions ==
  [waits : {"none", "probe", "backoff", "reload", "recover"},
   made : Nat, failure : BOOLEAN, attached : Phases]

\* Ids are unique, and no request but a socket has the socket's.
Identified(g) ==
  /\ \A q, r \in g.requests : q.id = r.id => q = r
  /\ \A r \in g.requests : r.id = g.socket => r.kind = "socket"

\* A request that still counts is about the server, and the job, of now; the others
\* can change nothing.  Only a job that progresses, or has ended, is polled.
Attributed(g) ==
  \A r \in g.requests :
    /\ r.mine =>
         /\ r.server = g.endpoint /\ r.server \in Servers
         /\ IF r.kind = "submit"
            THEN g.job = NoJob /\ \A q \in g.requests : q.kind = "submit" => q = r
            ELSE g.job # NoJob /\ r.job = g.job
    /\ ~r.mine =>
         /\ r.kind \in {"poll", "lastStep"} /\ ~r.contact
         /\ r.answer = NoAnswer
    /\ r.kind = "poll" /\ r.contact => g.state \in Progressing \cup IsOutcome

\* What an answer on its way says was true, and of an outcome it still is.
AnswerIsTrue(r, w) ==
  r.answer # NoAnswer =>
    /\ r.job \in Jobs
    /\ w[r.job].server = r.server /\ w[r.job].state # "absent"
    /\ r.kind = "submit" => r.answer = "queued"
    /\ r.answer \in IsOutcome => w[r.job].state \in {r.answer, "gone"}
    /\ r.answer = "gone" =>
         w[r.job].state = "gone" /\ r.kind \in Recoveries \cup {"poll", "refresh"}

\* The job is one of this server, and what is shown of it is proven.
JobIsKnown(g, w) ==
  g.job # NoJob =>
    /\ g.endpoint \in Servers
    /\ w[g.job].server = g.endpoint /\ w[g.job].state # "absent"
    /\ g.state \in IsOutcome => w[g.job].state \in {g.state, "gone"}
    /\ g.recovery = "lost" => w[g.job].state = "gone"

\* What every method keeps, and the loss of any request too.
Sound(g, w) ==
  /\ g \in Controllers
  /\ Identified(g)
  /\ Attributed(g)
  /\ \A r \in g.requests : AnswerIsTrue(r, w)
  /\ JobIsKnown(g, w)

Asked(g) == \E r \in g.requests : r.kind \in Recoveries /\ r.mine /\ r.contact

SocketIsOut(g) == g.socket # NoSocket => \E r \in g.requests : r.id = g.socket
CheckIsOut(g) == g.state = "interrupted" /\ g.recovery = "checking" => Asked(g)
CancelIsOut(g) ==
  g.cancelRequested => \E r \in g.requests : r.kind = "cancel" /\ r.mine

\* A form that is ready, or will be, has no job or one that is being asked about.
NothingForgotten(g) ==
  g.state \in {"ready", "reconnecting"} /\ g.job # NoJob => Asked(g)

ControllerOK(g, w) ==
  /\ Sound(g, w)
  /\ SocketIsOut(g) /\ CheckIsOut(g) /\ CancelIsOut(g)
  /\ NothingForgotten(g)

\* Within the bound there is an id for one more request.
HasFreeId(g) == \E i \in Ids : \A r \in g.requests : r.id # i

\* The states a gateway gives a job, and forgets it in.
GatewaysOK ==
  gateway \in [Jobs -> [state : {"queued", "running", "absent", "gone"} \cup Outcomes,
                        server : Servers \cup {NoServer}]]

\* The session knows the connection's phase, but for a success that is still being
\* remembered; and there is a server wherever one may yet be attached to.
ConnectionOK ==
  /\ conn \in Connections
  /\ session.attached # conn.phase => conn.accepted
  /\ conn.accepted => Busy /\ conn.phase = "connected"
  /\ \/ Busy \/ conn.phase = "connected" \/ IsReconnecting
     \/ gen.endpoint # NoServer
     => conn.endpoint \in Servers

\* A reconnect is marked while it runs, its handshake is the connection's, and its
\* last step is the one request it waits for.
SessionOK ==
  /\ session \in Sessions
  /\ gen.reconnecting <=> IsReconnecting
  /\ conn.operation = "probe" => session.waits = "probe"
  /\ \A r \in gen.requests : r.kind = "lastStep" =>
       /\ session.waits = "recover"
       /\ \A q \in gen.requests : q.kind = "lastStep" => q = r

\* Attached, the controller is past connecting; and no step leaves it reconnecting,
\* because the session attaches it again as soon as the reconnect's handshake begins.
PhaseIsShown ==
  /\ gen.state # "reconnecting"
  /\ session.attached = "connected" => gen.state \notin {"disconnected", "connecting"}

IInv ==
  /\ ControllerOK(gen, gateway)
  /\ HasFreeId(gen)
  /\ GatewaysOK /\ ConnectionOK /\ SessionOK /\ PhaseIsShown

\* A reconnect that runs ends: its attempts are bounded and each of its waits is,
\* whatever the user does meanwhile.
ReconnectEnds == IsReconnecting ~> ~IsReconnecting

=============================================================================
