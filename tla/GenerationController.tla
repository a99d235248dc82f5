------------------------ MODULE GenerationController ------------------------
(***************************************************************************)
(* The app's generation controller                                         *)
(* (app/lib/generation/generation_controller.dart): one job, followed by a *)
(* socket or by polling, across lost contact and other servers.            *)
(*                                                                         *)
(* The controller runs on one thread, so a method is atomic up to its      *)
(* await; what interleaves are the answers of requests that are still out. *)
(* Every method is an operator from the controller's record to the record  *)
(* it leaves, and the actions of AppSession apply them.                    *)
(*                                                                         *)
(* The source compares counters (_token, _contactToken) to tell whether an *)
(* answer still counts.  Here a bump marks the requests that are out: they *)
(* are no longer "mine", or asked on a "contact" that is over.  Those whose *)
(* answer can then change nothing are forgotten at once.                   *)
(***************************************************************************)
EXTENDS Naturals, FiniteSets

CONSTANTS
  Servers, NoServer,
  Jobs, NoJob,
  Outcomes,      \* the outcomes a gateway reports
  FailureBudget, \* snapshotFailureBudget: failures in a row that end contact
  MaxRequests,   \* bound: requests and sockets open at once
  Events         \* whether the gateways offer the event stream

ASSUME ServersAssumption == NoServer \notin Servers
ASSUME JobsAssumption == NoJob \notin Jobs
ASSUME OutcomesAssumption == Outcomes \subseteq {"completed", "failed", "cancelled"}
ASSUME BudgetAssumption == FailureBudget \in Nat \ {0}
ASSUME RequestsAssumption == MaxRequests \in Nat \ {0}
ASSUME EventsAssumption == Events \in BOOLEAN

Progressing == {"uploading", "queued", "generating"}
IsOutcome == {"completed", "failed", "cancelled"}
NoAnswer == "none"
NoSocket == 0

\* "recover" is a recovery asked on arrival, "lastStep" one a reconnect waits for.
Recoveries == {"recover", "lastStep"}

\* A request out: its id, its kind ("submit", "cancel", "poll", "refresh",
\* "handshake", "socket" or one of Recoveries), the server and job it is about,
\* whether its token is still the controller's, whether its contact generation is,
\* and the answer on its way: "queued", "running", an outcome, "gone" or NoAnswer.
\*
\* The controller: its lifecycle state ("disconnected", "connecting", "ready",
\* "reconnecting", "interrupted", a Progressing one or an outcome), what recovery
\* found ("none", "checking", "unknown", "lost"), the endpoint and job it is attached
\* to, the poll timer, the socket's request, and the polls that failed in a row.
NewController ==
  [state |-> "disconnected", recovery |-> "none", reconnecting |-> FALSE,
   endpoint |-> NoServer, job |-> NoJob, cancelRequested |-> FALSE,
   timer |-> FALSE, socket |-> NoSocket, failures |-> 0, requests |-> {}]

(***************************************************************************)
(* Requests.                                                               *)
(***************************************************************************)
Without(g, r) == [g EXCEPT !.requests = @ \ {r}]

FreeId(g) == CHOOSE i \in 1 .. MaxRequests + 1 : \A r \in g.requests : r.id # i

Send(g, kind) ==
  [g EXCEPT !.requests = @ \cup
     {[id |-> FreeId(g), kind |-> kind, server |-> g.endpoint, job |-> g.job,
       mine |-> TRUE, contact |-> TRUE, answer |-> NoAnswer]}]

\* _contactToken++.  A handshake of a contact that is over is closed whenever it
\* answers; a socket already listening does not look at the contact.
EndContact(g) ==
  [g EXCEPT !.requests =
     {[r EXCEPT !.contact = FALSE] : r \in {q \in @ : q.kind # "handshake"}}]

\* _token++.  Two kinds still matter when they answer: a poll holds _polling until
\* it does, and a reconnect waits for its last step.
EndToken(g) ==
  [g EXCEPT !.requests =
     {[r EXCEPT !.mine = FALSE, !.contact = FALSE, !.job = NoJob,
                !.answer = NoAnswer] :
        r \in {q \in @ : q.kind \in {"poll", "lastStep"}}}]

Polling(g) == \E r \in g.requests : r.kind = "poll"

(***************************************************************************)
(* Following.                                                              *)
(***************************************************************************)
CloseSocket(g) ==
  [g EXCEPT !.requests = {r \in @ : r.id # g.socket}, !.socket = NoSocket]

StopFollowing(g) == CloseSocket([g EXCEPT !.timer = FALSE])

\* Mutant of ClearJob: what was asked for the old job still counts.
ClearJobKeepingToken(g) ==
  [g EXCEPT !.job = NoJob, !.recovery = "none", !.cancelRequested = FALSE,
            !.failures = 0]

ClearJob(g) ==
  EndToken([g EXCEPT !.job = NoJob, !.recovery = "none",
                     !.cancelRequested = FALSE, !.failures = 0])

Followable(g) ==
  g.endpoint # NoServer /\ g.job # NoJob /\ g.state \in Progressing

PollOnce(g) == IF Followable(g) /\ ~Polling(g) THEN Send(g, "poll") ELSE g

StartPolling(g) == IF g.timer THEN g ELSE PollOnce([g EXCEPT !.timer = TRUE])

Follow(g) ==
  LET h == StopFollowing(g)
  IN  IF ~Followable(h) THEN h
      ELSE IF Events THEN Send(h, "handshake") ELSE StartPolling(h)

\* The job is marked interrupted, and what was asked before no longer counts.
Interrupted(g, recovery) ==
  EndContact([StopFollowing(g) EXCEPT !.state = "interrupted",
                                      !.recovery = recovery])

JobGone(g) == Interrupted(g, "lost")

(***************************************************************************)
(* The connection, as the session reports it.                              *)
(***************************************************************************)
ConnectionLost(g) ==
  IF g.state \in Progressing THEN Interrupted(g, "unknown")
  ELSE EndContact([StopFollowing(g) EXCEPT
         !.state = IF @ \in IsOutcome THEN @ ELSE "disconnected"])

\* Mutant of Attach: the job stays when the server changes.
AttachKeepingJob(g, server) ==
  LET here == [g EXCEPT !.endpoint = server]
  IN  [here EXCEPT !.state =
         IF @ \in {"disconnected", "connecting", "reconnecting"} THEN "ready"
         ELSE @]

\* A job, and an outcome, belong to the server they came from.
Attach(g, server) ==
  LET moved == g.endpoint # NoServer /\ g.endpoint # server
      h     == IF moved
               THEN [ClearJob(StopFollowing(g)) EXCEPT !.state = "ready"]
               ELSE g
  IN  [h EXCEPT
         !.endpoint = server,
         !.state = IF @ \in {"disconnected", "connecting", "reconnecting"}
                   THEN "ready" ELSE @]

MarkConnecting(g) ==
  [g EXCEPT !.state = IF @ = "disconnected" THEN "connecting" ELSE @]

BeginReconnect(g) ==
  [g EXCEPT !.reconnecting = TRUE,
            !.state = IF @ \in {"disconnected", "ready"} THEN "reconnecting"
                      ELSE @]

EndReconnect(g, connected) ==
  [g EXCEPT !.reconnecting = FALSE,
            !.state = IF @ # "reconnecting" THEN @
                      ELSE IF connected THEN "ready" ELSE "disconnected"]

\* The one place where the server's word and the app's differ.
Shown(s) == IF s = "running" THEN "generating" ELSE s

ApplyServerState(g, s) == [g EXCEPT !.recovery = "none", !.state = Shown(s)]

Apply(g, s) ==
  LET h == ApplyServerState(g, s)
  IN  IF h.state \in Progressing THEN h ELSE StopFollowing(h)

(***************************************************************************)
(* What the user asks, up to the await.                                    *)
(***************************************************************************)
CanCancel(g) ==
  g.job # NoJob /\ ~g.cancelRequested /\ g.state \in {"queued", "generating"}

Submit(g) ==
  Send([ClearJob(StopFollowing(g)) EXCEPT !.state = "uploading"], "submit")

Cancel(g) == Send([g EXCEPT !.cancelRequested = TRUE], "cancel")

GenerateAgain(g) == [ClearJob(StopFollowing(g)) EXCEPT !.state = "ready"]

\* Recovery asks about a job that has an id and no outcome.
Asks(g) == g.endpoint # NoServer /\ g.job # NoJob /\ g.state \notin IsOutcome

RecoverJob(g, kind) ==
  IF Asks(g) THEN Send([g EXCEPT !.recovery = "checking"], kind)
  ELSE IF /\ g.endpoint # NoServer /\ g.job = NoJob
          /\ g.state \in {"interrupted", "disconnected"}
       THEN [g EXCEPT !.state = "ready", !.recovery = "none"]
       ELSE g

(***************************************************************************)
(* What each answer does.  "g" no longer holds the request r.              *)
(***************************************************************************)

\* The id is recorded whatever became of the contact; the state is not.
Submitted(g, r) ==
  LET known == [g EXCEPT !.job = r.job]
  IN  IF r.contact
      THEN Follow(ApplyServerState(known, r.answer))
      ELSE [known EXCEPT !.state = "interrupted", !.recovery = "unknown"]

SubmitFailed(g, r) == IF r.contact THEN [g EXCEPT !.state = "failed"] ELSE g

Cancelled(g, r) ==
  LET answered == [g EXCEPT !.cancelRequested = FALSE]
  IN  IF r.contact THEN Apply(answered, r.answer) ELSE answered

CancelFailed(g) == [g EXCEPT !.cancelRequested = FALSE]

Polled(g, r) ==
  IF ~r.mine \/ ~r.contact THEN g
  ELSE LET h == [g EXCEPT !.failures = 0]
       IN  IF r.answer = "gone" THEN JobGone(h) ELSE Apply(h, r.answer)

\* The failure that spends the budget ends the contact.
SpendsBudget(g, r) == r.mine /\ r.contact /\ g.failures + 1 >= FailureBudget

PollFailed(g, r) ==
  IF ~r.mine \/ ~r.contact THEN g
  ELSE LET h == [g EXCEPT !.failures = IF @ < FailureBudget THEN @ + 1 ELSE @]
       IN  IF SpendsBudget(g, r) THEN ConnectionLost(h) ELSE h

\* _outlived: contact was lost since, or an outcome was reached another way.
Outlived(g, r) == ~r.mine \/ ~r.contact \/ g.state \in IsOutcome

Recovered(g, r) ==
  IF Outlived(g, r) THEN g
  ELSE LET h == [g EXCEPT !.failures = 0]
       IN  IF r.answer = "gone" THEN JobGone(h)
           ELSE LET a == Apply(h, r.answer)
                IN  IF a.state \in Progressing THEN Follow(a) ELSE a

\* recoverJob's own marking, which leaves a follower where it is.
RecoverFailed(g, r) ==
  IF Outlived(g, r) THEN g
  ELSE EndContact([g EXCEPT !.state = "interrupted", !.recovery = "unknown"])

\* _refreshOnce looks at the token only.
Refreshed(g, r) ==
  IF r.answer = "gone" THEN [g EXCEPT !.failures = 0]
  ELSE Apply([g EXCEPT !.failures = 0], r.answer)

\* A handshake that opens when there is nothing to follow any more is closed.
\* Otherwise it becomes the socket, whichever was it before.
Opened(g, r) ==
  IF g.state \notin Progressing THEN g
  ELSE [g EXCEPT !.socket = r.id, !.requests = @ \cup {[r EXCEPT !.kind = "socket"]}]

\* An event of a socket that listens; "empty" when it has brought no results.
Heard(g, s, empty) ==
  LET h == Apply(g, s)
  IN  IF s = "completed" /\ empty THEN Send(h, "refresh") ELSE h

\* A socket that ends closes the current one, which is itself unless a second
\* handshake took its place.
SocketLost(g) ==
  LET h == CloseSocket(g)
  IN  IF h.state \in Progressing THEN StartPolling(h) ELSE h
=============================================================================
