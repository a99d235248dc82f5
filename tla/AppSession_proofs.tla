------------------------- MODULE AppSession_proofs -------------------------
(***************************************************************************)
(* Theorems about the app's session, for any number of servers and jobs,   *)
(* any budget of attempts and failures, and any bound on what is out.      *)
(*                                                                         *)
(* The methods of the controller come first: each keeps ControllerOK, or   *)
(* gives back the parts that the loss of a request took.  Then each action *)
(* of the session, as the methods it applies.                              *)
(***************************************************************************)
EXTENDS AppSession, FiniteSetTheorems, FunctionTheorems, TLAPS

USE ServersAssumption, JobsAssumption, OutcomesAssumption, BudgetAssumption,
    RequestsAssumption, EventsAssumption

\* What the methods leave alone.
SameShown(g, h) == h.state = g.state /\ h.recovery = g.recovery
SameJob(g, h) == h.endpoint = g.endpoint /\ h.job = g.job
SameMarks(g, h) ==
  h.reconnecting = g.reconnecting /\ h.cancelRequested = g.cancelRequested

\* Every request of h is one of g, or what has become of it.
NoNewIds(g, h) == \A r \in h.requests : \E q \in g.requests : q.id = r.id

\* Every last step of h is one of g.
NoNewLastStep(g, h) ==
  \A r \in h.requests : r.kind = "lastStep" =>
    \E q \in g.requests : q.kind = "lastStep" /\ q.id = r.id

LEMMA FreeIdKept ==
  ASSUME NEW g, NEW h, HasFreeId(g), NoNewIds(g, h)
  PROVE  HasFreeId(h)
BY DEF HasFreeId, NoNewIds

\* The bound of an instance leaves an id free.
LEMMA WithinLeavesAnId ==
  ASSUME NEW g \in Controllers, Identified(g), Cardinality(g.requests) <= MaxRequests
  PROVE  HasFreeId(g)
<1> DEFINE f == [r \in g.requests |-> r.id]
<1> SUFFICES ASSUME ~HasFreeId(g) PROVE FALSE
  OBVIOUS
<1>1. f \in [g.requests -> Ids]
  BY DEF Controllers, Requests
<1>2. f \in Injection(g.requests, Ids)
  BY <1>1, Fun_IsInj DEF Identified
<1>3. f \in Surjection(g.requests, Ids)
  BY <1>1, Fun_IsSurj DEF HasFreeId
<1>4. IsFiniteSet(Ids) /\ Cardinality(Ids) = MaxRequests + 1
  BY FS_Interval DEF Ids
<1>5. Cardinality(g.requests) = MaxRequests + 1
  BY <1>2, <1>3, <1>4, FS_Injection
<1> QED
  BY <1>5

(***************************************************************************)
(* A request is lost, marked or sent.                                      *)
(***************************************************************************)
LEMMA WithoutOK ==
  ASSUME NEW g, NEW w, Sound(g, w), NEW r \in g.requests
  PROVE  LET h == Without(g, r)
         IN  /\ Sound(h, w)
             /\ SameShown(g, h) /\ SameJob(g, h) /\ SameMarks(g, h)
             /\ NoNewIds(g, h) /\ NoNewLastStep(g, h)
             /\ h.requests = g.requests \ {r} /\ h.socket = g.socket
             /\ r.kind # "socket" /\ SocketIsOut(g) => SocketIsOut(h)
             /\ r.kind \notin Recoveries /\ CheckIsOut(g) => CheckIsOut(h)
             /\ r.kind # "cancel" /\ CancelIsOut(g) => CancelIsOut(h)
             /\ r.kind \notin Recoveries /\ NothingForgotten(g) => NothingForgotten(h)
<1> DEFINE h == Without(g, r)
<1>1. /\ h \in Controllers
      /\ h.requests = g.requests \ {r} /\ h.socket = g.socket
      /\ SameShown(g, h) /\ SameJob(g, h) /\ SameMarks(g, h)
  BY DEF Without, Sound, Controllers, SameShown, SameJob, SameMarks
<1> HIDE DEF h
<1>2. Sound(h, w)
  BY <1>1 DEF Sound, Identified, Attributed, JobIsKnown, SameShown, SameJob
<1>3. NoNewIds(g, h) /\ NoNewLastStep(g, h)
  BY <1>1 DEF NoNewIds, NoNewLastStep
<1>4. r.kind # "socket" /\ SocketIsOut(g) => SocketIsOut(h)
  BY <1>1 DEF SocketIsOut, Sound, Identified
<1>5. /\ r.kind \notin Recoveries /\ CheckIsOut(g) => CheckIsOut(h)
      /\ r.kind # "cancel" /\ CancelIsOut(g) => CancelIsOut(h)
      /\ r.kind \notin Recoveries /\ NothingForgotten(g) => NothingForgotten(h)
  BY <1>1 DEF CheckIsOut, CancelIsOut, NothingForgotten, Asked, SameShown, SameJob,
     SameMarks
<1> QED
  BY <1>1, <1>2, <1>3, <1>4, <1>5 DEF h

LEMMA StopFollowingOK ==
  ASSUME NEW g, NEW w, Sound(g, w)
  PROVE  LET h == StopFollowing(g)
         IN  /\ Sound(h, w) /\ SocketIsOut(h)
             /\ SameShown(g, h) /\ SameJob(g, h) /\ SameMarks(g, h)
             /\ NoNewIds(g, h) /\ NoNewLastStep(g, h)
             /\ h.requests \subseteq g.requests /\ h.socket = NoSocket
             /\ ~h.timer
             /\ CheckIsOut(g) => CheckIsOut(h)
             /\ CancelIsOut(g) => CancelIsOut(h)
             /\ NothingForgotten(g) => NothingForgotten(h)
<1> DEFINE h == StopFollowing(g)
<1>1. /\ h \in Controllers
      /\ h.requests = {r \in g.requests : r.id # g.socket}
      /\ h.socket = NoSocket /\ ~h.timer
      /\ SameShown(g, h) /\ SameJob(g, h) /\ SameMarks(g, h)
  BY DEF StopFollowing, CloseSocket, Sound, Controllers, SameShown, SameJob, SameMarks
<1> HIDE DEF h
<1>2. Sound(h, w)
  BY <1>1 DEF Sound, Identified, Attributed, JobIsKnown, SameShown, SameJob, Controllers,
     Requests, Ids, NoSocket
<1>3. NoNewIds(g, h) /\ NoNewLastStep(g, h) /\ SocketIsOut(h)
  BY <1>1 DEF NoNewIds, NoNewLastStep, SocketIsOut
<1>4. /\ CheckIsOut(g) => CheckIsOut(h)
      /\ CancelIsOut(g) => CancelIsOut(h)
      /\ NothingForgotten(g) => NothingForgotten(h)
  BY <1>1 DEF CheckIsOut, CancelIsOut, NothingForgotten, Asked, SameShown, SameJob,
     SameMarks, Sound, Identified, Recoveries
<1> QED
  BY <1>1, <1>2, <1>3, <1>4 DEF h

\* A request whose contact is over, and one whose token is.
OutOfContact(r) == [r EXCEPT !.contact = FALSE]
OutOfForce(r) ==
  [r EXCEPT !.mine = FALSE, !.contact = FALSE, !.job = NoJob, !.answer = NoAnswer]

\* An end of contact: no answer of before still counts.
LEMMA EndContactOK ==
  ASSUME NEW g, NEW w, Sound(g, w)
  PROVE  LET h == EndContact(g)
         IN  /\ Sound(h, w)
             /\ SameShown(g, h) /\ SameJob(g, h) /\ SameMarks(g, h)
             /\ NoNewIds(g, h) /\ NoNewLastStep(g, h)
             /\ \A r \in h.requests : ~r.contact
             /\ SocketIsOut(g) => SocketIsOut(h)
             /\ CancelIsOut(g) => CancelIsOut(h)
<1> DEFINE h == EndContact(g)
<1>0. \A r \in Requests :
             /\ OutOfContact(r) \in Requests
             /\ OutOfContact(r).id = r.id /\ OutOfContact(r).kind = r.kind
             /\ OutOfContact(r).server = r.server /\ OutOfContact(r).job = r.job
             /\ OutOfContact(r).mine = r.mine /\ OutOfContact(r).answer = r.answer
             /\ OutOfContact(r).contact = FALSE
  BY DEF Requests, OutOfContact
<1>1. /\ h.requests = {OutOfContact(r) : r \in {q \in g.requests : q.kind # "handshake"}}
      /\ h.socket = g.socket
      /\ SameShown(g, h) /\ SameJob(g, h) /\ SameMarks(g, h)
  BY DEF EndContact, Sound, Controllers, SameShown, SameJob, SameMarks, OutOfContact
<1>2. h \in Controllers
  <2>1. h.requests \in SUBSET Requests
    BY <1>0, <1>1 DEF Sound, Controllers
  <2> QED
    BY <2>1 DEF EndContact, Sound, Controllers
<1>3. \A r \in h.requests : \E q \in g.requests : r = OutOfContact(q) /\ q \in Requests
  BY <1>1 DEF Sound, Controllers
<1>4. \A q \in g.requests : q.kind # "handshake" => OutOfContact(q) \in h.requests
  BY <1>1
<1> HIDE DEF h
<1>5. Identified(h)
  BY <1>0, <1>1, <1>3 DEF Sound, Identified
<1>6. Attributed(h)
  BY <1>0, <1>1, <1>3 DEF Sound, Attributed, SameJob, SameShown
<1>7. /\ \A r \in h.requests : AnswerIsTrue(r, w)
      /\ JobIsKnown(h, w)
  BY <1>0, <1>1, <1>3 DEF Sound, AnswerIsTrue, JobIsKnown, SameJob, SameShown
<1>8. /\ NoNewIds(g, h) /\ NoNewLastStep(g, h)
      /\ \A r \in h.requests : ~r.contact
  BY <1>0, <1>3 DEF NoNewIds, NoNewLastStep
<1>9. /\ SocketIsOut(g) => SocketIsOut(h)
      /\ CancelIsOut(g) => CancelIsOut(h)
  <2>1. \A q \in g.requests : q.id = g.socket => q.kind = "socket"
    BY DEF Sound, Identified
  <2>2. g.requests \subseteq Requests
    BY DEF Sound, Controllers
  <2> QED
    BY <1>0, <1>1, <1>4, <2>1, <2>2 DEF SocketIsOut, CancelIsOut, SameMarks
<1> QED
  BY <1>1, <1>2, <1>5, <1>6, <1>7, <1>8, <1>9 DEF h, Sound

\* What is out when the token moves on is out of force; a job may then be cleared.
LEMMA ClearJobOK ==
  ASSUME NEW g, NEW w, Sound(g, w), g.socket = NoSocket
  PROVE  LET h == ClearJob(g)
         IN  /\ Sound(h, w)
             /\ h.state = g.state /\ h.recovery = "none"
             /\ h.endpoint = g.endpoint /\ h.job = NoJob
             /\ h.reconnecting = g.reconnecting /\ ~h.cancelRequested
             /\ NoNewIds(g, h) /\ NoNewLastStep(g, h)
             /\ \A r \in h.requests : ~r.mine
             /\ h.socket = NoSocket
<1> DEFINE h == ClearJob(g)
<1>0. \A r \in Requests :
             /\ OutOfForce(r) \in Requests
             /\ OutOfForce(r).id = r.id /\ OutOfForce(r).kind = r.kind
             /\ OutOfForce(r).mine = FALSE /\ OutOfForce(r).answer = NoAnswer
             /\ OutOfForce(r).contact = FALSE
  BY DEF Requests, Answers, OutOfForce
<1>1. /\ h.requests = {OutOfForce(r) : r \in {q \in g.requests : q.kind \in {"poll", "lastStep"}}}
      /\ h.socket = g.socket
      /\ h.state = g.state /\ h.recovery = "none"
      /\ h.endpoint = g.endpoint /\ h.job = NoJob
      /\ h.reconnecting = g.reconnecting /\ ~h.cancelRequested
  BY DEF ClearJob, EndToken, Sound, Controllers, OutOfForce
<1>2. h \in Controllers
  <2>1. h.requests \in SUBSET Requests
    BY <1>0, <1>1 DEF Sound, Controllers
  <2> QED
    BY <2>1 DEF ClearJob, EndToken, Sound, Controllers
<1>3. \A r \in h.requests : \E q \in g.requests :
        r = OutOfForce(q) /\ q \in Requests /\ q.kind \in {"poll", "lastStep"}
  BY <1>1 DEF Sound, Controllers
<1> HIDE DEF h
<1>5. Identified(h)
  <2>1. \A r \in h.requests : r.id # NoSocket
    BY <1>2 DEF Controllers, Requests, Ids, NoSocket
  <2> QED
    BY <1>0, <1>1, <1>3, <2>1 DEF Sound, Identified
<1>6. Attributed(h)
  BY <1>0, <1>1, <1>3 DEF Sound, Attributed
<1>7. /\ \A r \in h.requests : AnswerIsTrue(r, w)
      /\ JobIsKnown(h, w)
  BY <1>0, <1>1, <1>3 DEF Sound, AnswerIsTrue, JobIsKnown
<1>8. /\ NoNewIds(g, h) /\ NoNewLastStep(g, h)
      /\ \A r \in h.requests : ~r.mine
  BY <1>0, <1>3 DEF NoNewIds, NoNewLastStep
<1> QED
  BY <1>1, <1>2, <1>5, <1>6, <1>7, <1>8 DEF h, Sound

\* A request is sent about the job of now, or about none if it is to make one.
LEMMA SendOK ==
  ASSUME NEW g, NEW w, Sound(g, w), SocketIsOut(g), HasFreeId(g),
         NEW kind \in Kinds \ {"socket"}, g.endpoint \in Servers,
         IF kind = "submit"
         THEN g.job = NoJob /\ \A r \in g.requests : ~r.mine
         ELSE g.job # NoJob,
         kind = "poll" => g.state \in Progressing
  PROVE  LET h == Send(g, kind)
         IN  /\ Sound(h, w) /\ SocketIsOut(h)
             /\ SameShown(g, h) /\ SameJob(g, h) /\ SameMarks(g, h)
             /\ kind # "lastStep" => NoNewLastStep(g, h)
             /\ \E r \in h.requests :
                  r.kind = kind /\ r.mine /\ r.contact /\ h.requests = g.requests \cup {r}
             /\ CheckIsOut(g) => CheckIsOut(h)
             /\ CancelIsOut(g) => CancelIsOut(h)
             /\ NothingForgotten(g) => NothingForgotten(h)
<1> DEFINE h == Send(g, kind)
           sent == [id |-> FreeId(g), kind |-> kind, server |-> g.endpoint, job |-> g.job,
                    mine |-> TRUE, contact |-> TRUE, answer |-> NoAnswer]
<1>0. FreeId(g) \in Ids /\ \A r \in g.requests : r.id # FreeId(g)
  BY DEF HasFreeId, FreeId, Ids
<1>1. /\ h.requests = g.requests \cup {sent} /\ h.socket = g.socket
      /\ SameShown(g, h) /\ SameJob(g, h) /\ SameMarks(g, h)
  BY DEF Send, Sound, Controllers, SameShown, SameJob, SameMarks
<1>2. /\ sent \in Requests
      /\ sent.id = FreeId(g) /\ sent.kind = kind /\ sent.server = g.endpoint
      /\ sent.job = g.job /\ sent.mine /\ sent.contact /\ sent.answer = NoAnswer
  BY <1>0 DEF Sound, Controllers, Requests, Answers
<1>3. h \in Controllers
  BY <1>2 DEF Send, Sound, Controllers
<1> HIDE DEF h, sent
<1>4. Identified(h)
  BY <1>0, <1>1, <1>2 DEF Sound, Identified, SocketIsOut, Controllers, Ids, NoSocket
<1>5. Attributed(h)
  BY <1>1, <1>2 DEF Sound, Attributed, SameJob, SameShown
<1>6. /\ \A r \in h.requests : AnswerIsTrue(r, w)
      /\ JobIsKnown(h, w)
  BY <1>1, <1>2 DEF Sound, AnswerIsTrue, JobIsKnown, SameJob, SameShown
<1>7. /\ kind # "lastStep" => NoNewLastStep(g, h)
      /\ \E r \in h.requests :
           r.kind = kind /\ r.mine /\ r.contact /\ h.requests = g.requests \cup {r}
      /\ SocketIsOut(h)
  BY <1>1, <1>2 DEF NoNewLastStep, SocketIsOut
<1>8. /\ CheckIsOut(g) => CheckIsOut(h)
      /\ CancelIsOut(g) => CancelIsOut(h)
      /\ NothingForgotten(g) => NothingForgotten(h)
  BY <1>1 DEF CheckIsOut, CancelIsOut, NothingForgotten, Asked, SameShown, SameJob, SameMarks
<1> QED
  BY <1>1, <1>3, <1>4, <1>5, <1>6, <1>7, <1>8 DEF h, Sound

(***************************************************************************)
(* A field or two change, and nothing that is out.                         *)
(***************************************************************************)
SameOut(g, h) == h.requests = g.requests /\ h.socket = g.socket

LEMMA AlikeOK ==
  ASSUME NEW g, NEW h \in Controllers, NEW w, Sound(g, w),
         SameShown(g, h), SameJob(g, h), SameOut(g, h)
  PROVE  /\ Sound(h, w)
         /\ NoNewIds(g, h) /\ NoNewLastStep(g, h)
         /\ SocketIsOut(g) => SocketIsOut(h)
         /\ CheckIsOut(g) => CheckIsOut(h)
         /\ NothingForgotten(g) => NothingForgotten(h)
         /\ CancelIsOut(g) /\ h.cancelRequested = g.cancelRequested => CancelIsOut(h)
         /\ ~h.cancelRequested => CancelIsOut(h)
<1> USE DEF SameShown, SameJob, SameOut
<1>1. Sound(h, w)
  BY DEF Sound, Identified, Attributed, JobIsKnown
<1>2. NoNewIds(g, h) /\ NoNewLastStep(g, h)
  BY DEF NoNewIds, NoNewLastStep
<1>3. /\ SocketIsOut(g) => SocketIsOut(h)
      /\ CheckIsOut(g) => CheckIsOut(h)
      /\ NothingForgotten(g) => NothingForgotten(h)
      /\ CancelIsOut(g) /\ h.cancelRequested = g.cancelRequested => CancelIsOut(h)
      /\ ~h.cancelRequested => CancelIsOut(h)
  BY DEF SocketIsOut, CheckIsOut, NothingForgotten, CancelIsOut, Asked
<1> QED
  BY <1>1, <1>2, <1>3

LEMMA ShownOK ==
  ASSUME NEW g, NEW h \in Controllers, NEW w, Sound(g, w),
         SameJob(g, h), SameOut(g, h),
         \/ h.state \in Progressing \cup IsOutcome
         \/ \A r \in g.requests : r.kind = "poll" => ~r.contact,
         g.job # NoJob /\ h.state \in IsOutcome =>
           h.state = g.state \/ w[g.job].state \in {h.state, "gone"},
         g.job # NoJob /\ h.recovery = "lost" => w[g.job].state = "gone"
  PROVE  /\ Sound(h, w)
         /\ NoNewIds(g, h) /\ NoNewLastStep(g, h)
         /\ SocketIsOut(g) => SocketIsOut(h)
         /\ h.recovery # "checking" \/ h.state # "interrupted" => CheckIsOut(h)
         /\ h.state \notin {"ready", "reconnecting"} => NothingForgotten(h)
         /\ CancelIsOut(g) /\ h.cancelRequested = g.cancelRequested => CancelIsOut(h)
<1> USE DEF SameJob, SameOut
<1>1. Attributed(h)
  BY DEF Sound, Attributed
<1>2. JobIsKnown(h, w)
  BY DEF Sound, JobIsKnown
<1>3. NoNewIds(g, h) /\ NoNewLastStep(g, h)
  BY DEF NoNewIds, NoNewLastStep
<1>4. /\ SocketIsOut(g) => SocketIsOut(h)
      /\ h.recovery # "checking" \/ h.state # "interrupted" => CheckIsOut(h)
      /\ h.state \notin {"ready", "reconnecting"} => NothingForgotten(h)
      /\ CancelIsOut(g) /\ h.cancelRequested = g.cancelRequested => CancelIsOut(h)
  BY DEF SocketIsOut, CheckIsOut, NothingForgotten, CancelIsOut
<1> QED
  BY <1>1, <1>2, <1>3, <1>4 DEF Sound, Identified

(***************************************************************************)
(* The methods that follow a job.                                          *)
(***************************************************************************)

\* What every method but those of the connection leaves of g.
Detached == {"disconnected", "connecting", "reconnecting"}
Onward(g, h) ==
  /\ h.reconnecting = g.reconnecting /\ h.endpoint = g.endpoint
  /\ NoNewLastStep(g, h)
  /\ h.state \in Detached => h.state = g.state

LEMMA OnwardTransitive ==
  ASSUME NEW f, NEW g, NEW h, Onward(f, g), Onward(g, h)
  PROVE  Onward(f, h)
BY DEF Onward, NoNewLastStep

LEMMA PollOnceOK ==
  ASSUME NEW g, NEW w, ControllerOK(g, w), HasFreeId(g)
  PROVE  LET h == PollOnce(g)
         IN  ControllerOK(h, w) /\ Onward(g, h)
<1>1. CASE PollOnce(g) = g
  BY <1>1 DEF Onward, NoNewLastStep
<1>2. CASE Followable(g) /\ PollOnce(g) = Send(g, "poll")
  <2>1. g.endpoint \in Servers /\ g.job # NoJob /\ g.state \in Progressing
    BY <1>2 DEF Followable, ControllerOK, Sound, Controllers
  <2> QED
    BY <1>2, <2>1, SendOK DEF ControllerOK, Kinds, Onward, SameShown, SameJob, SameMarks
<1> QED
  BY <1>1, <1>2 DEF PollOnce

LEMMA StartPollingOK ==
  ASSUME NEW g, NEW w, ControllerOK(g, w), HasFreeId(g)
  PROVE  LET h == StartPolling(g)
         IN  ControllerOK(h, w) /\ Onward(g, h)
<1> DEFINE t == [g EXCEPT !.timer = TRUE]
<1>1. /\ t \in Controllers
      /\ SameShown(g, t) /\ SameJob(g, t) /\ SameMarks(g, t) /\ SameOut(g, t)
  BY DEF ControllerOK, Sound, Controllers, SameShown, SameJob, SameMarks, SameOut
<1> HIDE DEF t
<1>2. ControllerOK(t, w) /\ NoNewIds(g, t) /\ NoNewLastStep(g, t)
  BY <1>1, AlikeOK DEF ControllerOK, SameMarks
<1>3. Onward(g, t)
  BY <1>1, <1>2 DEF Onward, SameShown, SameJob, SameMarks
<1>4. CASE StartPolling(g) = g
  BY <1>4 DEF Onward, NoNewLastStep
<1>5. CASE StartPolling(g) = PollOnce(t)
  BY <1>2, <1>3, <1>5, FreeIdKept, PollOnceOK, OnwardTransitive
<1> QED
  BY <1>4, <1>5 DEF StartPolling, t

LEMMA FollowOK ==
  ASSUME NEW g, NEW w, Sound(g, w), CheckIsOut(g), CancelIsOut(g),
         NothingForgotten(g), HasFreeId(g)
  PROVE  LET h == Follow(g)
         IN  ControllerOK(h, w) /\ Onward(g, h)
<1> DEFINE h == StopFollowing(g)
<1>1. /\ ControllerOK(h, w) /\ NoNewIds(g, h)
      /\ SameShown(g, h) /\ SameJob(g, h) /\ SameMarks(g, h) /\ NoNewLastStep(g, h)
  BY StopFollowingOK DEF ControllerOK
<1> HIDE DEF h
<1>2. Onward(g, h) /\ HasFreeId(h)
  BY <1>1, FreeIdKept DEF Onward, SameShown, SameJob, SameMarks
<1>3. CASE Follow(g) = h
  BY <1>1, <1>2, <1>3
<1>4. CASE Followable(h) /\ Follow(g) = Send(h, "handshake")
  <2>1. h.endpoint \in Servers /\ h.job # NoJob
    BY <1>1, <1>4 DEF Followable, ControllerOK, Sound, Controllers
  <2>2. ControllerOK(Send(h, "handshake"), w) /\ Onward(h, Send(h, "handshake"))
    BY <1>1, <1>2, <2>1, SendOK
    DEF ControllerOK, Kinds, Onward, SameShown, SameJob, SameMarks
  <2> QED
    BY <1>2, <1>4, <2>2, OnwardTransitive
<1>5. CASE Follow(g) = StartPolling(h)
  BY <1>1, <1>2, <1>5, StartPollingOK, OnwardTransitive
<1> QED
  BY <1>3, <1>4, <1>5 DEF Follow, h

\* Interrupted, and nothing asked before counts.
LEMMA InterruptedOK ==
  ASSUME NEW g, NEW w, Sound(g, w), CancelIsOut(g),
         NEW recovery \in {"unknown", "lost"},
         g.job # NoJob /\ recovery = "lost" => w[g.job].state = "gone"
  PROVE  LET h == Interrupted(g, recovery)
         IN  ControllerOK(h, w) /\ Onward(g, h) /\ NoNewIds(g, h) /\ h.state = "interrupted"
<1> DEFINE s == StopFollowing(g)
           i == [s EXCEPT !.state = "interrupted", !.recovery = recovery]
           h == Interrupted(g, recovery)
           e == EndContact(s)
           k == [e EXCEPT !.state = "interrupted", !.recovery = recovery]
<1>1. /\ Sound(s, w) /\ SocketIsOut(s) /\ CancelIsOut(s)
      /\ SameJob(g, s) /\ SameMarks(g, s) /\ NoNewIds(g, s) /\ NoNewLastStep(g, s)
  BY StopFollowingOK
<1>2. h = k
  BY <1>1 DEF Interrupted, EndContact, Sound, Controllers
<1> HIDE DEF s, h
<1>3. /\ Sound(e, w) /\ SocketIsOut(e) /\ CancelIsOut(e)
      /\ SameJob(s, e) /\ SameMarks(s, e) /\ NoNewIds(s, e) /\ NoNewLastStep(s, e)
      /\ \A r \in e.requests : ~r.contact
  BY <1>1, EndContactOK
<1> HIDE DEF e
<1>4. /\ k \in Controllers /\ k.state = "interrupted" /\ k.recovery = recovery
      /\ SameJob(e, k) /\ SameMarks(e, k) /\ SameOut(e, k)
  BY <1>3 DEF Sound, Controllers, States, SameJob, SameMarks, SameOut
<1> HIDE DEF k
<1>5. /\ Sound(k, w) /\ SocketIsOut(k) /\ CheckIsOut(k) /\ NothingForgotten(k)
      /\ CancelIsOut(k) /\ NoNewIds(e, k) /\ NoNewLastStep(e, k)
  <2>1. k.state \notin IsOutcome
    BY <1>4 DEF IsOutcome
  <2>2. e.job = g.job
    BY <1>1, <1>3 DEF SameJob
  <2> QED
    BY <1>3, <1>4, <2>1, <2>2, ShownOK DEF SameMarks
<1> QED
  BY <1>1, <1>2, <1>3, <1>4, <1>5
  DEF h, ControllerOK, Onward, SameJob, SameMarks, NoNewIds, NoNewLastStep, Detached

\* Contact is lost: a job on its way is interrupted, an outcome stays, a form is closed.
LEMMA ConnectionLostOK ==
  ASSUME NEW g, NEW w, Sound(g, w), CancelIsOut(g)
  PROVE  LET h == ConnectionLost(g)
         IN  /\ ControllerOK(h, w)
             /\ NoNewIds(g, h) /\ NoNewLastStep(g, h)
             /\ h.reconnecting = g.reconnecting /\ h.endpoint = g.endpoint
             /\ h.state \in {"interrupted", "disconnected"} \cup IsOutcome
             /\ g.state \in Progressing \cup IsOutcome => h.state # "disconnected"
<1>1. CASE g.state \in Progressing
  <2>1. ConnectionLost(g) = Interrupted(g, "unknown")
    BY <1>1 DEF ConnectionLost
  <2> QED
    BY <2>1, InterruptedOK DEF Onward
<1>2. CASE g.state \notin Progressing
  <2> DEFINE s == StopFollowing(g)
             e == EndContact(s)
             shown == IF g.state \in IsOutcome THEN g.state ELSE "disconnected"
             k == [e EXCEPT !.state = shown]
             h == ConnectionLost(g)
  <2>1. /\ Sound(s, w) /\ SocketIsOut(s) /\ CancelIsOut(s)
        /\ SameJob(g, s) /\ SameMarks(g, s) /\ SameShown(g, s)
        /\ NoNewIds(g, s) /\ NoNewLastStep(g, s)
    BY StopFollowingOK
  <2>2. h = k
    BY <1>2, <2>1 DEF ConnectionLost, EndContact, Sound, Controllers, SameShown
  <2> HIDE DEF s, h
  <2>3. /\ Sound(e, w) /\ SocketIsOut(e) /\ CancelIsOut(e)
        /\ SameJob(s, e) /\ SameMarks(s, e) /\ SameShown(s, e)
        /\ NoNewIds(s, e) /\ NoNewLastStep(s, e)
        /\ \A r \in e.requests : ~r.contact
    BY <2>1, EndContactOK
  <2> HIDE DEF e
  <2>4. /\ shown \in {"disconnected"} \cup IsOutcome
        /\ shown \in IsOutcome => shown = g.state
        /\ g.state \in IsOutcome => shown \in IsOutcome
    BY DEF IsOutcome
  <2> HIDE DEF shown
  <2>5. /\ k \in Controllers /\ k.state = shown /\ k.recovery = e.recovery
        /\ SameJob(e, k) /\ SameMarks(e, k) /\ SameOut(e, k)
    BY <2>3, <2>4 DEF Sound, Controllers, States, SameJob, SameMarks, SameOut
  <2> HIDE DEF k
  <2>6. /\ Sound(k, w) /\ SocketIsOut(k) /\ CheckIsOut(k) /\ NothingForgotten(k)
        /\ CancelIsOut(k) /\ NoNewIds(e, k) /\ NoNewLastStep(e, k)
    <3>1. e.job # NoJob /\ k.recovery = "lost" => w[e.job].state = "gone"
      BY <2>3, <2>5 DEF Sound, JobIsKnown
    <3>2. k.state \in IsOutcome => k.state = e.state
      BY <2>1, <2>3, <2>4, <2>5 DEF SameShown
    <3>3. k.state \notin {"ready", "reconnecting", "interrupted"}
      BY <2>4, <2>5 DEF IsOutcome
    <3> QED
      BY <2>3, <2>5, <3>1, <3>2, <3>3, ShownOK DEF SameMarks
  <2> QED
    BY <1>2, <2>1, <2>2, <2>3, <2>4, <2>5, <2>6
    DEF h, ControllerOK, SameJob, SameMarks, NoNewIds, NoNewLastStep, IsOutcome
<1> QED
  BY <1>1, <1>2

\* A server word is applied: the follower goes on, or an outcome ends it.
LEMMA ApplyOK ==
  ASSUME NEW g, NEW w, Sound(g, w), SocketIsOut(g), CancelIsOut(g),
         NEW s \in ServerWords,
         g.job # NoJob /\ s \in IsOutcome => w[g.job].state \in {s, "gone"}
  PROVE  LET h == Apply(g, s)
         IN  /\ ControllerOK(h, w) /\ Onward(g, h) /\ NoNewIds(g, h)
             /\ h.state \in Progressing \cup IsOutcome /\ SameJob(g, h)
             /\ h.recovery = "none"
<1> DEFINE a == ApplyServerState(g, s)
<1>1. /\ Shown(s) \in Progressing \cup IsOutcome
      /\ Shown(s) \in IsOutcome => Shown(s) = s
  BY DEF Shown, ServerWords, Progressing, IsOutcome
<1>2. /\ a \in Controllers /\ a.state = Shown(s) /\ a.recovery = "none"
      /\ SameJob(g, a) /\ SameMarks(g, a) /\ SameOut(g, a)
  BY <1>1 DEF ApplyServerState, Sound, Controllers, States, SameJob, SameMarks, SameOut
<1> HIDE DEF a
<1>3. a.state \notin Detached \cup {"ready", "interrupted"}
  BY <1>1, <1>2 DEF Progressing, IsOutcome, Detached
<1>4. ControllerOK(a, w) /\ NoNewIds(g, a) /\ NoNewLastStep(g, a)
  BY <1>1, <1>2, <1>3, ShownOK DEF ControllerOK, SameMarks, Detached
<1>5. Onward(g, a)
  BY <1>2, <1>3, <1>4 DEF Onward, SameJob, SameMarks
<1>6. CASE Apply(g, s) = a
  BY <1>1, <1>2, <1>4, <1>5, <1>6
<1>7. CASE Apply(g, s) = StopFollowing(a)
  <2> DEFINE h == StopFollowing(a)
  <2>1. /\ ControllerOK(h, w) /\ NoNewIds(a, h) /\ NoNewLastStep(a, h)
        /\ SameShown(a, h) /\ SameJob(a, h) /\ SameMarks(a, h)
    BY <1>4, StopFollowingOK DEF ControllerOK
  <2> HIDE DEF h
  <2>2. Onward(a, h)
    BY <2>1 DEF Onward, SameShown, SameJob, SameMarks
  <2>3. Onward(g, h)
    BY <1>5, <2>2, OnwardTransitive
  <2> QED
    BY <1>1, <1>2, <1>4, <1>7, <2>1, <2>3 DEF SameShown, SameJob, NoNewIds, h
<1> QED
  BY <1>6, <1>7 DEF Apply, a

(***************************************************************************)
(* The methods of the connection.                                          *)
(***************************************************************************)

\* Attached to a server: a job of another one is cleared with all that was asked of
\* it, and a controller that waited is ready.
LEMMA AttachOK ==
  ASSUME NEW g, NEW w, ControllerOK(g, w), NEW server \in Servers
  PROVE  LET h == Attach(g, server)
         IN  /\ Sound(h, w) /\ SocketIsOut(h) /\ CheckIsOut(h) /\ CancelIsOut(h)
             /\ NoNewIds(g, h) /\ NoNewLastStep(g, h)
             /\ h.reconnecting = g.reconnecting /\ h.endpoint = server
             /\ h.state \notin Detached
             /\ g.state \notin {"disconnected", "connecting"} => NothingForgotten(h)
<1> DEFINE moved == g.endpoint # NoServer /\ g.endpoint # server
           s == StopFollowing(g)
           c == IF moved THEN ClearJob(s) ELSE g
           shown == IF moved \/ c.state \in Detached THEN "ready" ELSE c.state
           k == [c EXCEPT !.endpoint = server, !.state = shown]
           h == Attach(g, server)
<1>1. /\ Sound(s, w) /\ NoNewIds(g, s) /\ NoNewLastStep(g, s) /\ s.socket = NoSocket
      /\ SameShown(g, s) /\ SameJob(g, s) /\ SameMarks(g, s)
  BY StopFollowingOK DEF ControllerOK
<1>2. h = k
  <2>1. CASE moved
    <3>1. c = ClearJob(s) /\ shown = "ready" /\ c \in Controllers
      BY <1>1, <2>1, ClearJobOK DEF Sound
    <3> QED
      BY <2>1, <3>1 DEF Attach, Controllers
  <2>2. CASE ~moved
    BY <2>2 DEF Attach, Sound, Controllers, ControllerOK, Detached
  <2> QED
    BY <2>1, <2>2
<1> HIDE DEF s, h
<1>3. /\ Sound(c, w) /\ NoNewIds(g, c) /\ NoNewLastStep(g, c)
      /\ c.reconnecting = g.reconnecting
      /\ SocketIsOut(c) /\ CancelIsOut(c)
      /\ moved => /\ c.job = NoJob
                  /\ \A r \in c.requests : ~r.mine
                  /\ c.recovery = "none"
      /\ ~moved => c = g
  <2>1. CASE moved
    <3>1. LET d == ClearJob(s)
          IN  /\ Sound(d, w) /\ d.recovery = "none" /\ d.job = NoJob
              /\ d.reconnecting = s.reconnecting /\ ~d.cancelRequested
              /\ NoNewIds(s, d) /\ NoNewLastStep(s, d)
              /\ \A r \in d.requests : ~r.mine
              /\ d.socket = NoSocket
      BY <1>1, ClearJobOK
    <3> QED
      BY <1>1, <2>1, <3>1
      DEF NoNewIds, NoNewLastStep, SameMarks, SocketIsOut, CancelIsOut
  <2>2. CASE ~moved
    BY <2>2 DEF ControllerOK, NoNewIds, NoNewLastStep
  <2> QED
    BY <2>1, <2>2
<1>4. c.endpoint # server => c.job = NoJob /\ \A r \in c.requests : ~r.mine
  BY <1>3 DEF Sound, JobIsKnown, Attributed
<1>5. /\ shown \in States /\ shown \notin Detached
      /\ shown = "ready" \/ shown = c.state
      /\ shown # c.state => \A r \in c.requests : ~(r.kind = "poll" /\ r.contact)
      /\ shown = "ready" /\ c.job # NoJob => ~moved /\ g.state \in Detached \cup {"ready"}
      /\ moved => shown = "ready"
  BY <1>3 DEF Sound, Controllers, States, Detached, Attributed, Progressing, IsOutcome
<1> HIDE DEF shown, c, moved
<1>6. /\ k \in Controllers /\ k.endpoint = server /\ k.state = shown
      /\ k.job = c.job /\ k.recovery = c.recovery /\ SameMarks(c, k) /\ SameOut(c, k)
  BY <1>3, <1>5 DEF Sound, Controllers, SameMarks, SameOut
<1> HIDE DEF k
<1>7. Attributed(k)
  BY <1>3, <1>4, <1>5, <1>6 DEF Sound, Attributed, SameOut
<1>8. JobIsKnown(k, w)
  BY <1>3, <1>4, <1>5, <1>6 DEF Sound, JobIsKnown, IsOutcome
<1>9. Sound(k, w)
  BY <1>3, <1>6, <1>7, <1>8 DEF Sound, Identified, SameOut
<1>10. /\ SocketIsOut(k) /\ CancelIsOut(k) /\ NoNewIds(g, k) /\ NoNewLastStep(g, k)
  BY <1>3, <1>6 DEF SocketIsOut, CancelIsOut, NoNewIds, NoNewLastStep, SameOut, SameMarks
<1>11. CheckIsOut(k)
  <2>1. k.state = "interrupted" => ~moved /\ c = g /\ k.state = g.state
    BY <1>3, <1>5, <1>6
  <2> QED
    BY <1>6, <2>1 DEF CheckIsOut, ControllerOK, Asked, SameOut
<1>12. g.state \notin {"disconnected", "connecting"} => NothingForgotten(k)
  <2>1. k.state \in {"ready", "reconnecting"} /\ k.job # NoJob
          => c = g /\ g.state \in Detached \cup {"ready"}
    BY <1>3, <1>5, <1>6 DEF Detached
  <2> QED
    BY <1>6, <2>1 DEF NothingForgotten, ControllerOK, Asked, SameOut, Detached
<1> QED
  BY <1>2, <1>3, <1>5, <1>6, <1>9, <1>10, <1>11, <1>12 DEF h, SameMarks

LEMMA MarkConnectingOK ==
  ASSUME NEW g, NEW w, ControllerOK(g, w)
  PROVE  LET h == MarkConnecting(g)
         IN  /\ ControllerOK(h, w) /\ NoNewIds(g, h) /\ NoNewLastStep(g, h)
             /\ h.reconnecting = g.reconnecting /\ h.endpoint = g.endpoint
             /\ h.state = "reconnecting" => g.state = "reconnecting"
<1> DEFINE h == MarkConnecting(g)
<1>1. /\ h \in Controllers /\ h.recovery = g.recovery
      /\ SameJob(g, h) /\ SameMarks(g, h) /\ SameOut(g, h)
      /\ h.state = IF g.state = "disconnected" THEN "connecting" ELSE g.state
  BY DEF MarkConnecting, ControllerOK, Sound, Controllers, States, SameJob, SameMarks, SameOut
<1> HIDE DEF h
<1>2. CASE g.state = "disconnected"
  <2>1. \A r \in g.requests : r.kind = "poll" => ~r.contact
    BY <1>2 DEF ControllerOK, Sound, Attributed, Progressing, IsOutcome
  <2>2. g.job # NoJob /\ h.recovery = "lost" => w[g.job].state = "gone"
    BY <1>1 DEF ControllerOK, Sound, JobIsKnown
  <2> QED
    BY <1>1, <1>2, <2>1, <2>2, ShownOK DEF ControllerOK, SameMarks, SameJob, IsOutcome, h
<1>3. CASE g.state # "disconnected"
  BY <1>1, <1>3, AlikeOK DEF ControllerOK, SameShown, SameMarks, SameJob, h
<1> QED
  BY <1>2, <1>3

LEMMA BeginReconnectOK ==
  ASSUME NEW g, NEW w, ControllerOK(g, w), g.state # "disconnected"
  PROVE  LET h == BeginReconnect(g)
         IN  /\ ControllerOK(h, w) /\ NoNewIds(g, h) /\ NoNewLastStep(g, h)
             /\ h.reconnecting /\ h.endpoint = g.endpoint
             /\ h.state # g.state => g.state = "ready" /\ h.state = "reconnecting"
<1> DEFINE h == BeginReconnect(g)
<1>1. /\ h \in Controllers /\ h.recovery = g.recovery /\ h.reconnecting
      /\ h.cancelRequested = g.cancelRequested
      /\ SameJob(g, h) /\ SameOut(g, h)
      /\ h.state = IF g.state = "ready" THEN "reconnecting" ELSE g.state
  BY DEF BeginReconnect, ControllerOK, Sound, Controllers, States, SameJob, SameOut
<1> HIDE DEF h
<1>2. CASE g.state = "ready"
  <2>1. \A r \in g.requests : r.kind = "poll" => ~r.contact
    BY <1>2 DEF ControllerOK, Sound, Attributed, Progressing, IsOutcome
  <2>2. g.job # NoJob /\ h.recovery = "lost" => w[g.job].state = "gone"
    BY <1>1 DEF ControllerOK, Sound, JobIsKnown
  <2>3. NothingForgotten(h)
    BY <1>1, <1>2 DEF NothingForgotten, Asked, ControllerOK, SameJob, SameOut
  <2> QED
    BY <1>1, <1>2, <2>1, <2>2, <2>3, ShownOK DEF ControllerOK, SameJob, IsOutcome, h
<1>3. CASE g.state # "ready"
  BY <1>1, <1>3, AlikeOK DEF ControllerOK, SameShown, SameJob, h
<1> QED
  BY <1>2, <1>3

LEMMA EndReconnectOK ==
  ASSUME NEW g, NEW w, ControllerOK(g, w), g.state # "reconnecting",
         NEW connected \in BOOLEAN
  PROVE  LET h == EndReconnect(g, connected)
         IN  /\ ControllerOK(h, w) /\ NoNewIds(g, h) /\ NoNewLastStep(g, h)
             /\ ~h.reconnecting /\ SameShown(g, h) /\ SameJob(g, h) /\ SameOut(g, h)
<1> DEFINE h == EndReconnect(g, connected)
<1>1. /\ h \in Controllers /\ SameShown(g, h) /\ ~h.reconnecting
      /\ h.cancelRequested = g.cancelRequested
      /\ SameJob(g, h) /\ SameOut(g, h)
  BY DEF EndReconnect, ControllerOK, Sound, Controllers, States, SameShown, SameJob, SameOut
<1> HIDE DEF h
<1> QED
  BY <1>1, AlikeOK DEF ControllerOK, h

(***************************************************************************)
(* What the user asks, and recovery.                                       *)
(***************************************************************************)
LEMMA GenerateAgainOK ==
  ASSUME NEW g, NEW w, ControllerOK(g, w), g.state # "reconnecting"
  PROVE  LET h == GenerateAgain(g)
         IN  ControllerOK(h, w) /\ Onward(g, h) /\ NoNewIds(g, h)
<1> DEFINE s == StopFollowing(g)
           c == ClearJob(s)
           h == GenerateAgain(g)
<1>1. /\ Sound(s, w) /\ NoNewIds(g, s) /\ NoNewLastStep(g, s) /\ s.socket = NoSocket
      /\ SameJob(g, s) /\ SameMarks(g, s)
  BY StopFollowingOK DEF ControllerOK
<1>2. /\ Sound(c, w) /\ c.job = NoJob /\ c.recovery = "none"
      /\ c.endpoint = s.endpoint /\ c.reconnecting = s.reconnecting /\ ~c.cancelRequested
      /\ NoNewIds(s, c) /\ NoNewLastStep(s, c)
      /\ \A r \in c.requests : ~r.mine
      /\ c.socket = NoSocket
  BY <1>1, ClearJobOK
<1>3. h = [c EXCEPT !.state = "ready"]
  BY DEF GenerateAgain
<1> HIDE DEF s, c, h
<1>4. /\ h \in Controllers /\ h.state = "ready" /\ h.recovery = "none"
      /\ h.reconnecting = c.reconnecting /\ ~h.cancelRequested
      /\ SameJob(c, h) /\ SameOut(c, h)
  BY <1>2, <1>3 DEF Sound, Controllers, States, SameJob, SameOut
<1>5. \A r \in c.requests : r.kind = "poll" => ~r.contact
  BY <1>2 DEF Sound, Attributed
<1>6. Sound(h, w) /\ CheckIsOut(h) /\ NoNewIds(c, h) /\ NoNewLastStep(c, h)
  BY <1>2, <1>4, <1>5, ShownOK DEF IsOutcome
<1>7. SocketIsOut(h) /\ CancelIsOut(h) /\ NothingForgotten(h)
  BY <1>2, <1>4 DEF SocketIsOut, CancelIsOut, NothingForgotten, SameOut, SameJob
<1> QED
  BY <1>1, <1>2, <1>4, <1>6, <1>7
  DEF h, ControllerOK, Onward, NoNewIds, NoNewLastStep, SameJob, SameMarks, Detached

LEMMA SubmitOK ==
  ASSUME NEW g, NEW w, ControllerOK(g, w), HasFreeId(g), g.endpoint \in Servers
  PROVE  LET h == Submit(g)
         IN  ControllerOK(h, w) /\ Onward(g, h)
<1> DEFINE s == StopFollowing(g)
           c == ClearJob(s)
           u == [c EXCEPT !.state = "uploading"]
           h == Submit(g)
<1>1. /\ Sound(s, w) /\ NoNewIds(g, s) /\ NoNewLastStep(g, s) /\ s.socket = NoSocket
      /\ SameJob(g, s) /\ SameMarks(g, s)
  BY StopFollowingOK DEF ControllerOK
<1>2. /\ Sound(c, w) /\ c.job = NoJob /\ c.recovery = "none"
      /\ c.endpoint = s.endpoint /\ c.reconnecting = s.reconnecting /\ ~c.cancelRequested
      /\ NoNewIds(s, c) /\ NoNewLastStep(s, c)
      /\ \A r \in c.requests : ~r.mine
      /\ c.socket = NoSocket
  BY <1>1, ClearJobOK
<1>3. h = Send(u, "submit")
  BY DEF Submit
<1> HIDE DEF s, c, h
<1>4. /\ u \in Controllers /\ u.state = "uploading" /\ u.recovery = "none"
      /\ u.reconnecting = c.reconnecting /\ ~u.cancelRequested
      /\ SameJob(c, u) /\ SameOut(c, u)
  BY <1>2 DEF Sound, Controllers, States, Progressing, SameJob, SameOut
<1> HIDE DEF u
<1>5. "uploading" \in Progressing /\ "uploading" \notin IsOutcome
  BY DEF Progressing, IsOutcome
<1>6. /\ Sound(u, w) /\ CheckIsOut(u) /\ NoNewIds(c, u) /\ NoNewLastStep(c, u)
      /\ NothingForgotten(u)
  BY <1>2, <1>4, <1>5, ShownOK
<1>7. SocketIsOut(u) /\ CancelIsOut(u)
  BY <1>2, <1>4 DEF SocketIsOut, CancelIsOut, SameOut
<1>8. /\ HasFreeId(u) /\ u.job = NoJob /\ u.endpoint \in Servers
      /\ \A r \in u.requests : ~r.mine
  BY <1>1, <1>2, <1>4, <1>6, FreeIdKept DEF SameJob, SameOut
<1>9. /\ ControllerOK(h, w) /\ SameShown(u, h) /\ SameJob(u, h) /\ SameMarks(u, h)
      /\ NoNewLastStep(u, h)
  BY <1>3, <1>6, <1>7, <1>8, SendOK DEF ControllerOK, Kinds
<1> QED
  BY <1>1, <1>2, <1>4, <1>6, <1>9
  DEF h, Onward, NoNewLastStep, SameShown, SameJob, SameMarks, Detached

LEMMA CancelOK ==
  ASSUME NEW g, NEW w, ControllerOK(g, w), HasFreeId(g), g.job # NoJob
  PROVE  LET h == Cancel(g)
         IN  ControllerOK(h, w) /\ Onward(g, h)
<1> DEFINE a == [g EXCEPT !.cancelRequested = TRUE]
           h == Cancel(g)
<1>1. /\ a \in Controllers /\ SameShown(g, a) /\ SameJob(g, a) /\ SameOut(g, a)
      /\ a.reconnecting = g.reconnecting
  BY DEF ControllerOK, Sound, Controllers, SameShown, SameJob, SameOut
<1>2. h = Send(a, "cancel")
  BY DEF Cancel
<1> HIDE DEF a, h
<1>3. /\ Sound(a, w) /\ SocketIsOut(a) /\ CheckIsOut(a) /\ NothingForgotten(a)
      /\ NoNewIds(g, a) /\ NoNewLastStep(g, a)
  BY <1>1, AlikeOK DEF ControllerOK
<1>4. a.endpoint \in Servers /\ a.job # NoJob /\ HasFreeId(a)
  BY <1>1, <1>3, FreeIdKept DEF ControllerOK, Sound, JobIsKnown, SameJob
<1>5. /\ Sound(h, w) /\ SocketIsOut(h) /\ CheckIsOut(h) /\ NothingForgotten(h)
      /\ SameShown(a, h) /\ SameJob(a, h) /\ SameMarks(a, h) /\ NoNewLastStep(a, h)
      /\ \E r \in h.requests : r.kind = "cancel" /\ r.mine
  BY <1>2, <1>3, <1>4, SendOK DEF Kinds
<1> QED
  BY <1>1, <1>3, <1>5
  DEF h, ControllerOK, CancelIsOut, Onward, NoNewLastStep, SameShown, SameJob, SameMarks

\* A job without an outcome is asked about: nothing is forgotten after that.
LEMMA RecoverJobOK ==
  ASSUME NEW g, NEW w, Sound(g, w), SocketIsOut(g), CheckIsOut(g), CancelIsOut(g),
         HasFreeId(g), NEW kind \in Recoveries
  PROVE  LET h == RecoverJob(g, kind)
         IN  /\ ControllerOK(h, w)
             /\ h.reconnecting = g.reconnecting /\ h.endpoint = g.endpoint
             /\ h.state \in {g.state, "ready"}
             /\ ~Asks(g) => NoNewIds(g, h) /\ NoNewLastStep(g, h)
             /\ \E r : h.requests \subseteq g.requests \cup {r} /\ r.kind = kind
<1> DEFINE h == RecoverJob(g, kind)
<1>1. CASE Asks(g)
  <2> DEFINE a == [g EXCEPT !.recovery = "checking"]
  <2>1. /\ a \in Controllers /\ a.state = g.state /\ a.recovery = "checking"
        /\ SameMarks(g, a) /\ SameJob(g, a) /\ SameOut(g, a)
    BY DEF Sound, Controllers, SameMarks, SameJob, SameOut
  <2>2. h = Send(a, kind)
    BY <1>1 DEF RecoverJob
  <2>3. Sound(a, w) /\ SocketIsOut(a) /\ CancelIsOut(a) /\ HasFreeId(a)
    <3>1. Sound(a, w)
      BY <2>1 DEF Sound, Identified, Attributed, JobIsKnown, SameJob, SameOut
    <3> QED
      BY <2>1, <3>1 DEF SocketIsOut, CancelIsOut, HasFreeId, SameOut, SameMarks
  <2>4. /\ a.endpoint \in Servers /\ a.job # NoJob
        /\ kind \in Kinds \ {"socket"} /\ kind \notin {"submit", "poll"}
    BY <1>1, <2>1 DEF Asks, Sound, Controllers, SameJob, Kinds, Recoveries
  <2> HIDE DEF a, h
  <2>5. /\ Sound(h, w) /\ SocketIsOut(h) /\ CancelIsOut(h)
        /\ SameShown(a, h) /\ SameJob(a, h) /\ SameMarks(a, h)
        /\ \E r \in h.requests : /\ r.kind = kind /\ r.mine /\ r.contact
                                 /\ h.requests = a.requests \cup {r}
    BY <2>2, <2>3, <2>4, SendOK
  <2>6. CheckIsOut(h) /\ NothingForgotten(h)
    BY <2>5 DEF CheckIsOut, NothingForgotten, Asked
  <2> QED
    BY <1>1, <2>1, <2>5, <2>6 DEF h, ControllerOK, SameShown, SameJob, SameMarks, SameOut
<1>2. CASE ~Asks(g)
  <2>1. g.job = NoJob \/ g.state \in IsOutcome
    BY <1>2 DEF Asks, Sound, JobIsKnown
  <2>2. NothingForgotten(g)
    BY <2>1 DEF NothingForgotten, IsOutcome
  <2>3. \E r : g.requests \subseteq g.requests \cup {r} /\ r.kind = kind
    <3>1. [kind |-> kind].kind = kind
      OBVIOUS
    <3> QED
      BY <3>1
  <2>4. CASE h = g
    BY <1>2, <2>2, <2>3, <2>4 DEF ControllerOK, NoNewIds, NoNewLastStep
  <2>5. CASE h # g
    <3>1. /\ h = [g EXCEPT !.state = "ready", !.recovery = "none"]
          /\ g.job = NoJob /\ g.state \in {"interrupted", "disconnected"}
      BY <1>2, <2>5 DEF RecoverJob
    <3> HIDE DEF h
    <3>2. /\ h \in Controllers /\ h.state = "ready" /\ h.recovery = "none"
          /\ SameMarks(g, h) /\ SameJob(g, h) /\ SameOut(g, h)
      BY <3>1 DEF Sound, Controllers, States, SameMarks, SameJob, SameOut
    <3>3. \A r \in g.requests : r.kind = "poll" => ~r.contact
      BY <3>1 DEF Sound, Attributed, Progressing, IsOutcome
    <3>4. /\ Sound(h, w) /\ SocketIsOut(h) /\ CheckIsOut(h) /\ CancelIsOut(h)
          /\ NoNewIds(g, h) /\ NoNewLastStep(g, h)
      <4>1. g.job # NoJob /\ h.state \in IsOutcome =>
              h.state = g.state \/ w[g.job].state \in {h.state, "gone"}
        BY <3>1
      <4>2. g.job # NoJob /\ h.recovery = "lost" => w[g.job].state = "gone"
        BY <3>1
      <4>3. h.recovery # "checking" \/ h.state # "interrupted"
        BY <3>2
      <4> QED
        BY <3>2, <3>3, <4>1, <4>2, <4>3, ShownOK DEF SameMarks
    <3>5. NothingForgotten(h)
      BY <3>1, <3>2 DEF NothingForgotten, SameJob
    <3> QED
      BY <1>2, <2>3, <3>2, <3>4, <3>5 DEF h, ControllerOK, SameJob, SameMarks, SameOut
  <2> QED
    BY <2>4, <2>5
<1> QED
  BY <1>1, <1>2

(***************************************************************************)
(* What each answer does.                                                  *)
(***************************************************************************)

\* The id of a job that was made is recorded; nothing else can be in force then.
LEMMA SubmittedOK ==
  ASSUME NEW g, NEW w, ControllerOK(g, w), HasFreeId(g),
         NEW r \in g.requests, r.kind = "submit", r.answer # NoAnswer
  PROVE  LET h == Submitted(Without(g, r), r)
         IN  ControllerOK(h, w) /\ Onward(g, h)
<1> DEFINE f == Without(g, r)
           shown == IF r.contact THEN "queued" ELSE "interrupted"
           found == IF r.contact THEN "none" ELSE "unknown"
           k == [f EXCEPT !.job = r.job, !.recovery = found, !.state = shown]
           h == Submitted(f, r)
<1>1. /\ Sound(f, w) /\ SameShown(g, f) /\ SameJob(g, f) /\ SameMarks(g, f)
      /\ NoNewIds(g, f) /\ NoNewLastStep(g, f)
      /\ f.requests = g.requests \ {r} /\ f.socket = g.socket
      /\ SocketIsOut(f) /\ CheckIsOut(f) /\ CancelIsOut(f) /\ NothingForgotten(f)
  BY WithoutOK DEF ControllerOK, Recoveries
<1>2. /\ r.mine /\ r.answer = "queued" /\ r.job \in Jobs
      /\ r.server = g.endpoint /\ r.server \in Servers
      /\ w[r.job].server = r.server /\ w[r.job].state # "absent"
      /\ g.job = NoJob
      /\ \A q \in g.requests : q.kind = "submit" => q = r
  BY DEF ControllerOK, Sound, Attributed, AnswerIsTrue
<1>3. \A q \in f.requests : ~q.mine
  BY <1>1, <1>2 DEF Sound, Attributed, SameJob, ControllerOK
<1>4. h = IF r.contact THEN Follow(k) ELSE k
  <2>1. CASE r.contact
    BY <1>2, <2>1 DEF Submitted, ApplyServerState, Shown
  <2>2. CASE ~r.contact
    BY <2>2, <1>1 DEF Submitted, Sound, Controllers
  <2> QED
    BY <2>1, <2>2
<1> HIDE DEF f, h
<1>5. /\ shown \in States \ (IsOutcome \cup Detached \cup {"ready"})
      /\ found \in {"none", "unknown"}
  BY DEF States, Progressing, Detached, IsOutcome
<1> HIDE DEF shown, found
<1>6. /\ k \in Controllers /\ k.job = r.job /\ k.recovery = found /\ k.state = shown
      /\ SameMarks(f, k) /\ SameOut(f, k) /\ k.endpoint = f.endpoint
  BY <1>1, <1>2, <1>5 DEF Sound, Controllers, SameMarks, SameOut
<1> HIDE DEF k
<1>7. Sound(k, w)
  <2>1. Attributed(k)
    BY <1>1, <1>3, <1>5, <1>6 DEF Sound, Attributed, SameOut
  <2>2. JobIsKnown(k, w)
    BY <1>1, <1>2, <1>5, <1>6 DEF JobIsKnown, SameJob
  <2> QED
    BY <1>1, <1>5, <1>6, <2>1, <2>2 DEF Sound, Identified, SameOut
<1>8. ControllerOK(k, w)
  <2>1. ~f.cancelRequested
    BY <1>1, <1>3 DEF CancelIsOut
  <2> QED
    BY <1>1, <1>5, <1>6, <1>7, <2>1 DEF Detached, ControllerOK, SocketIsOut, CheckIsOut, CancelIsOut,
       NothingForgotten, SameOut, SameMarks
<1>9. Onward(g, k) /\ HasFreeId(k)
  <2>1. NoNewIds(g, k) /\ NoNewLastStep(g, k)
    BY <1>1, <1>5, <1>6 DEF NoNewIds, NoNewLastStep, SameOut
  <2> QED
    BY <1>1, <1>5, <1>6, <2>1, FreeIdKept DEF Onward, SameJob, SameMarks
<1> QED
  BY <1>4, <1>8, <1>9, FollowOK, OnwardTransitive DEF ControllerOK, h, f

LEMMA SubmitFailedOK ==
  ASSUME NEW g, NEW w, ControllerOK(g, w), NEW r \in g.requests, r.kind = "submit"
  PROVE  LET h == SubmitFailed(Without(g, r), r)
         IN  ControllerOK(h, w) /\ Onward(g, h)
<1> DEFINE f == Without(g, r)
           h == SubmitFailed(f, r)
<1>1. /\ ControllerOK(f, w) /\ SameShown(g, f) /\ SameJob(g, f) /\ SameMarks(g, f)
      /\ NoNewIds(g, f) /\ NoNewLastStep(g, f)
  BY WithoutOK DEF ControllerOK, Recoveries
<1>2. g.job = NoJob
  BY DEF ControllerOK, Sound, Attributed
<1> HIDE DEF f
<1>3. Onward(g, f)
  BY <1>1 DEF Onward, SameShown, SameJob, SameMarks
<1>4. CASE ~r.contact
  BY <1>1, <1>3, <1>4 DEF SubmitFailed, f
<1>5. CASE r.contact
  <2>1. /\ h \in Controllers /\ h.state = "failed" /\ h.recovery = f.recovery
        /\ SameJob(f, h) /\ SameMarks(f, h) /\ SameOut(f, h)
    BY <1>1, <1>5 DEF SubmitFailed, ControllerOK, Sound, Controllers, States, IsOutcome,
       SameJob, SameMarks, SameOut
  <2> HIDE DEF h
  <2>2. "failed" \in IsOutcome /\ f.job = NoJob
    BY <1>1, <1>2 DEF IsOutcome, SameJob
  <2>3. ControllerOK(h, w) /\ NoNewLastStep(f, h)
    BY <1>1, <2>1, <2>2, ShownOK DEF ControllerOK, SameMarks
  <2>4. Onward(f, h)
    BY <2>1, <2>3 DEF Onward, SameJob, SameMarks, Detached
  <2> QED
    BY <1>3, <2>3, <2>4, OnwardTransitive DEF h, f
<1> QED
  BY <1>4, <1>5

\* The word an answer brings can be applied.
LEMMA AnswerApplies ==
  ASSUME NEW g, NEW w, ControllerOK(g, w), NEW r \in g.requests,
         r.mine, r.kind # "submit", r.answer \notin {NoAnswer, "gone"}
  PROVE  /\ r.answer \in ServerWords
         /\ g.job # NoJob /\ r.answer \in IsOutcome => w[g.job].state \in {r.answer, "gone"}
<1>1. r.answer \in ServerWords
  BY DEF ControllerOK, Sound, Controllers, Requests, Answers
<1> QED
  BY <1>1 DEF ControllerOK, Sound, Attributed, AnswerIsTrue

LEMMA CancelledOK ==
  ASSUME NEW g, NEW w, ControllerOK(g, w),
         NEW r \in g.requests, r.kind = "cancel"
  PROVE  /\ LET h == CancelFailed(Without(g, r))
            IN  ControllerOK(h, w) /\ Onward(g, h) /\ NoNewIds(g, h)
         /\ LET h == Cancelled(Without(g, r), r)
            IN  r.answer # NoAnswer =>
                  ControllerOK(h, w) /\ Onward(g, h) /\ NoNewIds(g, h)
<1> DEFINE f == Without(g, r)
           a == [f EXCEPT !.cancelRequested = FALSE]
<1>1. /\ Sound(f, w) /\ SameShown(g, f) /\ SameJob(g, f) /\ SameMarks(g, f)
      /\ NoNewIds(g, f) /\ NoNewLastStep(g, f)
      /\ SocketIsOut(f) /\ CheckIsOut(f) /\ NothingForgotten(f)
  BY WithoutOK DEF ControllerOK, Recoveries
<1>2. CancelFailed(f) = a
  BY DEF CancelFailed
<1>3. Cancelled(f, r) = IF r.contact THEN Apply(a, r.answer) ELSE a
  BY DEF Cancelled
<1> HIDE DEF f
<1>4. /\ a \in Controllers /\ ~a.cancelRequested /\ a.reconnecting = f.reconnecting
      /\ SameShown(f, a) /\ SameJob(f, a) /\ SameOut(f, a)
  BY <1>1 DEF Sound, Controllers, SameShown, SameJob, SameOut
<1> HIDE DEF a
<1>5. ControllerOK(a, w) /\ NoNewIds(f, a) /\ NoNewLastStep(f, a)
  BY <1>1, <1>4, AlikeOK DEF ControllerOK
<1>6. Onward(g, a) /\ NoNewIds(g, a)
  BY <1>1, <1>4, <1>5 DEF Onward, NoNewIds, NoNewLastStep, SameShown, SameJob, SameMarks
<1>7. ASSUME r.answer # NoAnswer
      PROVE  LET h == Apply(a, r.answer)
             IN  ControllerOK(h, w) /\ Onward(g, h) /\ NoNewIds(g, h)
  <2>1. r.mine /\ r.answer # "gone"
    BY <1>7 DEF ControllerOK, Sound, Attributed, AnswerIsTrue, Recoveries
  <2>2. /\ r.answer \in ServerWords
        /\ a.job # NoJob /\ r.answer \in IsOutcome => w[a.job].state \in {r.answer, "gone"}
    BY <1>1, <1>4, <1>7, <2>1, AnswerApplies DEF SameJob
  <2>3. /\ ControllerOK(Apply(a, r.answer), w) /\ Onward(a, Apply(a, r.answer))
        /\ NoNewIds(a, Apply(a, r.answer))
    BY <1>5, <2>2, ApplyOK DEF ControllerOK
  <2> QED
    BY <1>6, <2>3, OnwardTransitive DEF NoNewIds
<1> QED
  BY <1>2, <1>3, <1>5, <1>6, <1>7 DEF f

\* The count of failures alone changes.
LEMMA FailuresOK ==
  ASSUME NEW g, NEW w, Sound(g, w), NEW n \in Nat
  PROVE  LET h == [g EXCEPT !.failures = n]
         IN  /\ Sound(h, w) /\ SameShown(g, h) /\ SameJob(g, h) /\ SameMarks(g, h)
             /\ NoNewIds(g, h) /\ NoNewLastStep(g, h)
             /\ SocketIsOut(g) => SocketIsOut(h)
             /\ CheckIsOut(g) => CheckIsOut(h)
             /\ CancelIsOut(g) => CancelIsOut(h)
             /\ NothingForgotten(g) => NothingForgotten(h)
<1> DEFINE h == [g EXCEPT !.failures = n]
<1>1. /\ h \in Controllers
      /\ SameShown(g, h) /\ SameJob(g, h) /\ SameMarks(g, h) /\ SameOut(g, h)
  BY DEF Sound, Controllers, SameShown, SameJob, SameMarks, SameOut
<1> HIDE DEF h
<1> QED
  BY <1>1, AlikeOK DEF SameMarks, h

LEMMA PolledOK ==
  ASSUME NEW g, NEW w, ControllerOK(g, w),
         NEW r \in g.requests, r.kind = "poll", r.answer # NoAnswer
  PROVE  LET h == Polled(Without(g, r), r)
         IN  ControllerOK(h, w) /\ Onward(g, h) /\ NoNewIds(g, h)
<1> DEFINE f == Without(g, r)
           a == [f EXCEPT !.failures = 0]
           h == Polled(f, r)
<1>1. /\ ControllerOK(f, w) /\ SameShown(g, f) /\ SameJob(g, f) /\ SameMarks(g, f)
      /\ NoNewIds(g, f) /\ NoNewLastStep(g, f)
  BY WithoutOK DEF ControllerOK, Recoveries
<1> HIDE DEF f
<1>2. /\ ControllerOK(a, w) /\ SameShown(f, a) /\ SameJob(f, a) /\ SameMarks(f, a)
      /\ NoNewIds(f, a) /\ NoNewLastStep(f, a)
  BY <1>1, FailuresOK DEF ControllerOK
<1> HIDE DEF a
<1>3. Onward(g, f) /\ Onward(g, a) /\ NoNewIds(g, a)
  BY <1>1, <1>2 DEF Onward, NoNewIds, NoNewLastStep, SameShown, SameJob, SameMarks
<1>4. CASE ~r.mine \/ ~r.contact
  BY <1>1, <1>3, <1>4 DEF Polled, f
<1>5. CASE r.mine /\ r.contact /\ r.answer = "gone"
  <2>1. h = Interrupted(a, "lost")
    BY <1>5 DEF Polled, JobGone, a
  <2>2. w[a.job].state = "gone"
    BY <1>1, <1>2, <1>5 DEF SameJob, ControllerOK, Sound, Attributed, AnswerIsTrue, NoAnswer
  <2>3. ControllerOK(h, w) /\ Onward(a, h) /\ NoNewIds(a, h)
    BY <1>2, <2>1, <2>2, InterruptedOK DEF ControllerOK
  <2> QED
    BY <1>3, <2>3, OnwardTransitive DEF NoNewIds, f
<1>6. CASE r.mine /\ r.contact /\ r.answer # "gone"
  <2>1. h = Apply(a, r.answer)
    BY <1>6 DEF Polled, a
  <2>2. /\ r.answer \in ServerWords
        /\ a.job # NoJob /\ r.answer \in IsOutcome => w[a.job].state \in {r.answer, "gone"}
    BY <1>1, <1>2, <1>6, AnswerApplies DEF SameJob
  <2>3. ControllerOK(h, w) /\ Onward(a, h) /\ NoNewIds(a, h)
    BY <1>2, <2>1, <2>2, ApplyOK DEF ControllerOK
  <2> QED
    BY <1>3, <2>3, OnwardTransitive DEF NoNewIds, f
<1> QED
  BY <1>4, <1>5, <1>6

LEMMA PollFailedOK ==
  ASSUME NEW g, NEW w, ControllerOK(g, w), NEW r \in g.requests, r.kind = "poll"
  PROVE  LET h == PollFailed(Without(g, r), r)
         IN  /\ ControllerOK(h, w) /\ Onward(g, h) /\ NoNewIds(g, h)
             /\ SpendsBudget(g, r) => h.state \in {"interrupted"} \cup IsOutcome
<1> DEFINE f == Without(g, r)
           n == IF f.failures < FailureBudget THEN f.failures + 1 ELSE f.failures
           a == [f EXCEPT !.failures = n]
           h == PollFailed(f, r)
<1>1. /\ ControllerOK(f, w) /\ SameShown(g, f) /\ SameJob(g, f) /\ SameMarks(g, f)
      /\ NoNewIds(g, f) /\ NoNewLastStep(g, f)
  BY WithoutOK DEF ControllerOK, Recoveries
<1>2. f.failures = g.failures
  BY DEF Without, ControllerOK, Sound, Controllers
<1>3. h = IF ~r.mine \/ ~r.contact THEN f
          ELSE IF SpendsBudget(f, r) THEN ConnectionLost(a) ELSE a
  BY DEF PollFailed
<1>4. SpendsBudget(f, r) <=> SpendsBudget(g, r)
  BY <1>2 DEF SpendsBudget
<1> HIDE DEF f, h
<1>5. n \in Nat
  BY <1>1 DEF ControllerOK, Sound, Controllers
<1> HIDE DEF n
<1>6. /\ ControllerOK(a, w) /\ SameShown(f, a) /\ SameJob(f, a) /\ SameMarks(f, a)
      /\ NoNewIds(f, a) /\ NoNewLastStep(f, a)
  BY <1>1, <1>5, FailuresOK DEF ControllerOK
<1> HIDE DEF a
<1>7. Onward(g, f) /\ Onward(g, a) /\ NoNewIds(g, a)
  BY <1>1, <1>6 DEF Onward, NoNewIds, NoNewLastStep, SameShown, SameJob, SameMarks
<1>8. CASE ~r.mine \/ ~r.contact
  BY <1>1, <1>3, <1>7, <1>8 DEF SpendsBudget, h, f
<1>9. CASE r.mine /\ r.contact
  <2>1. g.state \in Progressing \cup IsOutcome
    BY <1>9 DEF ControllerOK, Sound, Attributed
  <2>2. a.state \in Progressing \cup IsOutcome
    BY <1>1, <1>6, <2>1 DEF SameShown
  <2>3. CASE SpendsBudget(f, r)
    <3>1. /\ ControllerOK(ConnectionLost(a), w)
          /\ NoNewIds(a, ConnectionLost(a)) /\ NoNewLastStep(a, ConnectionLost(a))
          /\ ConnectionLost(a).reconnecting = a.reconnecting
          /\ ConnectionLost(a).endpoint = a.endpoint
          /\ ConnectionLost(a).state \in {"interrupted"} \cup IsOutcome
      BY <1>6, <2>2, ConnectionLostOK DEF ControllerOK
    <3>2. Onward(a, ConnectionLost(a))
      BY <3>1 DEF Onward, Detached, IsOutcome
    <3> QED
      BY <1>3, <1>7, <1>9, <2>3, <3>1, <3>2, OnwardTransitive DEF NoNewIds, h, f
  <2>4. CASE ~SpendsBudget(f, r)
    BY <1>3, <1>4, <1>6, <1>7, <1>9, <2>4 DEF h, f
  <2> QED
    BY <2>3, <2>4
<1> QED
  BY <1>8, <1>9

\* A recovery that was outlived was not the question anything hangs on.
LEMMA OutlivedOK ==
  ASSUME NEW g, NEW w, ControllerOK(g, w), NEW r \in g.requests, r.kind \in Recoveries
  PROVE  LET f == Without(g, r)
         IN  /\ Sound(f, w) /\ SocketIsOut(f) /\ CancelIsOut(f)
             /\ SameShown(g, f) /\ SameJob(g, f) /\ SameMarks(g, f)
             /\ NoNewIds(g, f) /\ NoNewLastStep(g, f)
             /\ Outlived(f, r) => ControllerOK(f, w)
<1> DEFINE f == Without(g, r)
<1>1. /\ Sound(f, w) /\ SocketIsOut(f) /\ CancelIsOut(f)
      /\ SameShown(g, f) /\ SameJob(g, f) /\ SameMarks(g, f)
      /\ NoNewIds(g, f) /\ NoNewLastStep(g, f)
      /\ f.requests = g.requests \ {r}
  BY WithoutOK DEF ControllerOK, Recoveries
<1> HIDE DEF f
<1>2. CASE ~r.mine \/ ~r.contact
  <2>1. Asked(g) => Asked(f)
    BY <1>1, <1>2 DEF Asked
  <2>2. CheckIsOut(f) /\ NothingForgotten(f)
    BY <1>1, <2>1 DEF CheckIsOut, NothingForgotten, ControllerOK, SameShown, SameJob
  <2> QED
    BY <1>1, <2>2 DEF ControllerOK, f
<1>3. CASE f.state \in IsOutcome
  <2>1. CheckIsOut(f) /\ NothingForgotten(f)
    BY <1>3 DEF CheckIsOut, NothingForgotten, IsOutcome
  <2> QED
    BY <1>1, <2>1 DEF ControllerOK, f
<1> QED
  BY <1>1, <1>2, <1>3 DEF Outlived, f

LEMMA RecoveredOK ==
  ASSUME NEW g, NEW w, ControllerOK(g, w), HasFreeId(g),
         NEW r \in g.requests, r.kind \in Recoveries, r.mine => r.answer # NoAnswer
  PROVE  LET h == Recovered(Without(g, r), r)
         IN  ControllerOK(h, w) /\ Onward(g, h) /\ Onward(Without(g, r), h)
<1> DEFINE f == Without(g, r)
           a == [f EXCEPT !.failures = 0]
           h == Recovered(f, r)
<1>1. /\ Sound(f, w) /\ SocketIsOut(f) /\ CancelIsOut(f)
      /\ SameShown(g, f) /\ SameJob(g, f) /\ SameMarks(g, f)
      /\ NoNewIds(g, f) /\ NoNewLastStep(g, f)
      /\ Outlived(f, r) => ControllerOK(f, w)
  BY OutlivedOK
<1> HIDE DEF f
<1>2. /\ Sound(a, w) /\ SocketIsOut(a) /\ CancelIsOut(a)
      /\ SameShown(f, a) /\ SameJob(f, a) /\ SameMarks(f, a)
      /\ NoNewIds(f, a) /\ NoNewLastStep(f, a)
  BY <1>1, FailuresOK
<1> HIDE DEF a
<1>3. Onward(g, f) /\ Onward(g, a) /\ NoNewIds(g, a) /\ Onward(f, f) /\ Onward(f, a)
  BY <1>1, <1>2 DEF Onward, NoNewIds, NoNewLastStep, SameShown, SameJob, SameMarks
<1>4. CASE Outlived(f, r)
  BY <1>1, <1>3, <1>4 DEF Recovered, f
<1>5. CASE ~Outlived(f, r) /\ r.answer = "gone"
  <2>1. h = Interrupted(a, "lost")
    BY <1>5 DEF Recovered, JobGone, a
  <2>2. w[a.job].state = "gone"
    BY <1>1, <1>2, <1>5
    DEF SameJob, ControllerOK, Sound, Attributed, AnswerIsTrue, NoAnswer, Outlived, Recoveries
  <2>3. ControllerOK(h, w) /\ Onward(a, h)
    BY <1>2, <2>1, <2>2, InterruptedOK
  <2> QED
    BY <1>3, <2>3, OnwardTransitive DEF f
<1>6. CASE ~Outlived(f, r) /\ r.answer # "gone"
  <2> DEFINE b == Apply(a, r.answer)
  <2>1. h = IF b.state \in Progressing THEN Follow(b) ELSE b
    BY <1>6 DEF Recovered, a
  <2>2. /\ r.answer \in ServerWords
        /\ a.job # NoJob /\ r.answer \in IsOutcome => w[a.job].state \in {r.answer, "gone"}
    <3>1. r.mine /\ r.kind # "submit" /\ r.answer \notin {NoAnswer, "gone"}
      BY <1>6 DEF Outlived, Recoveries
    <3> QED
      BY <1>1, <1>2, <3>1, AnswerApplies DEF SameJob
  <2> HIDE DEF h
  <2>3. ControllerOK(b, w) /\ Onward(a, b) /\ NoNewIds(a, b)
    BY <1>2, <2>2, ApplyOK
  <2> HIDE DEF b
  <2>4. Onward(g, b) /\ Onward(f, b) /\ HasFreeId(b)
    BY <1>3, <2>3, OnwardTransitive, FreeIdKept DEF NoNewIds
  <2>5. ControllerOK(Follow(b), w) /\ Onward(b, Follow(b))
    BY <2>3, <2>4, FollowOK DEF ControllerOK
  <2> QED
    BY <2>1, <2>3, <2>4, <2>5, OnwardTransitive DEF h, f
<1> QED
  BY <1>4, <1>5, <1>6

LEMMA RecoverFailedOK ==
  ASSUME NEW g, NEW w, ControllerOK(g, w), NEW r \in g.requests, r.kind \in Recoveries
  PROVE  LET h == RecoverFailed(Without(g, r), r)
         IN  /\ ControllerOK(h, w) /\ Onward(g, h) /\ NoNewIds(g, h)
             /\ NoNewLastStep(Without(g, r), h)
<1> DEFINE f == Without(g, r)
           e == EndContact(f)
           k == [e EXCEPT !.state = "interrupted", !.recovery = "unknown"]
           h == RecoverFailed(f, r)
<1>1. /\ Sound(f, w) /\ SocketIsOut(f) /\ CancelIsOut(f)
      /\ SameShown(g, f) /\ SameJob(g, f) /\ SameMarks(g, f)
      /\ NoNewIds(g, f) /\ NoNewLastStep(g, f)
      /\ Outlived(f, r) => ControllerOK(f, w)
  BY OutlivedOK
<1>2. h = IF Outlived(f, r) THEN f ELSE k
  BY <1>1 DEF RecoverFailed, EndContact, Sound, Controllers
<1> HIDE DEF f, h
<1>3. Onward(g, f)
  BY <1>1 DEF Onward, SameShown, SameJob, SameMarks
<1>4. /\ Sound(e, w) /\ SocketIsOut(e) /\ CancelIsOut(e)
      /\ SameJob(f, e) /\ SameMarks(f, e) /\ NoNewIds(f, e) /\ NoNewLastStep(f, e)
      /\ \A q \in e.requests : ~q.contact
  BY <1>1, EndContactOK
<1> HIDE DEF e
<1>5. /\ k \in Controllers /\ k.state = "interrupted" /\ k.recovery = "unknown"
      /\ SameJob(e, k) /\ SameMarks(e, k) /\ SameOut(e, k)
  BY <1>4 DEF Sound, Controllers, States, SameJob, SameMarks, SameOut
<1> HIDE DEF k
<1>6. k.state \notin IsOutcome \cup Detached \cup {"ready"}
  BY <1>5 DEF IsOutcome, Detached
<1>7. ControllerOK(k, w) /\ NoNewIds(e, k) /\ NoNewLastStep(e, k)
  BY <1>4, <1>5, <1>6, ShownOK DEF ControllerOK, SameMarks, Detached
<1>8. /\ Onward(g, k) /\ NoNewIds(g, k)
      /\ NoNewLastStep(f, k) /\ NoNewLastStep(f, f)
  BY <1>1, <1>4, <1>5, <1>6, <1>7
  DEF Onward, NoNewIds, NoNewLastStep, SameJob, SameMarks
<1> QED
  BY <1>1, <1>2, <1>3, <1>7, <1>8 DEF h, f

LEMMA RefreshedOK ==
  ASSUME NEW g, NEW w, ControllerOK(g, w), NEW r \in g.requests, r.kind = "refresh"
  PROVE  /\ LET f == Without(g, r)
            IN  ControllerOK(f, w) /\ Onward(g, f) /\ NoNewIds(g, f)
         /\ LET h == Refreshed(Without(g, r), r)
            IN  r.answer # NoAnswer =>
                  ControllerOK(h, w) /\ Onward(g, h) /\ NoNewIds(g, h)
<1> DEFINE f == Without(g, r)
           a == [f EXCEPT !.failures = 0]
           h == Refreshed(f, r)
<1>1. /\ ControllerOK(f, w) /\ SameShown(g, f) /\ SameJob(g, f) /\ SameMarks(g, f)
      /\ NoNewIds(g, f) /\ NoNewLastStep(g, f)
  BY WithoutOK DEF ControllerOK, Recoveries
<1>2. h = IF r.answer = "gone" THEN a ELSE Apply(a, r.answer)
  BY DEF Refreshed
<1> HIDE DEF f, h
<1>3. /\ ControllerOK(a, w) /\ SameShown(f, a) /\ SameJob(f, a) /\ SameMarks(f, a)
      /\ NoNewIds(f, a) /\ NoNewLastStep(f, a)
  BY <1>1, FailuresOK DEF ControllerOK
<1> HIDE DEF a
<1>4. Onward(g, f) /\ Onward(g, a) /\ NoNewIds(g, a)
  BY <1>1, <1>3 DEF Onward, NoNewIds, NoNewLastStep, SameShown, SameJob, SameMarks
<1>5. CASE r.answer \notin {NoAnswer, "gone"}
  <2>1. r.mine
    BY DEF ControllerOK, Sound, Attributed
  <2>2. /\ r.answer \in ServerWords
        /\ a.job # NoJob /\ r.answer \in IsOutcome => w[a.job].state \in {r.answer, "gone"}
    BY <1>1, <1>3, <1>5, <2>1, AnswerApplies DEF SameJob
  <2>3. /\ ControllerOK(Apply(a, r.answer), w) /\ Onward(a, Apply(a, r.answer))
        /\ NoNewIds(a, Apply(a, r.answer))
    BY <1>3, <2>2, ApplyOK DEF ControllerOK
  <2> QED
    BY <1>1, <1>2, <1>4, <1>5, <2>3, OnwardTransitive DEF NoNewIds, h, f
<1> QED
  BY <1>1, <1>2, <1>3, <1>4, <1>5 DEF h, f

\* A handshake that opened becomes the socket, under its own id.
LEMMA OpenedOK ==
  ASSUME NEW g, NEW w, ControllerOK(g, w), NEW r \in g.requests, r.kind = "handshake"
  PROVE  LET h == Opened(Without(g, r), r)
         IN  ControllerOK(h, w) /\ Onward(g, h) /\ NoNewIds(g, h)
<1> DEFINE f == Without(g, r)
           s == [r EXCEPT !.kind = "socket"]
           k == [f EXCEPT !.socket = r.id, !.requests = @ \cup {s}]
           h == Opened(f, r)
<1>1. /\ ControllerOK(f, w) /\ SameShown(g, f) /\ SameJob(g, f) /\ SameMarks(g, f)
      /\ NoNewIds(g, f) /\ NoNewLastStep(g, f)
      /\ f.requests = g.requests \ {r}
  BY WithoutOK DEF ControllerOK, Recoveries
<1>2. h = IF f.state \notin Progressing THEN f ELSE k
  BY DEF Opened
<1> HIDE DEF f, h
<1>3. Onward(g, f)
  BY <1>1 DEF Onward, SameShown, SameJob, SameMarks
<1>4. r \in Requests /\ r.mine
  BY DEF ControllerOK, Sound, Controllers, Attributed
<1>5. /\ s \in Requests /\ s.id = r.id /\ s.kind = "socket" /\ s.server = r.server
      /\ s.job = r.job /\ s.mine = r.mine /\ s.contact = r.contact /\ s.answer = r.answer
  BY <1>4 DEF Requests, Kinds
<1>6. /\ k \in Controllers /\ k.socket = r.id /\ k.requests = f.requests \cup {s}
      /\ SameShown(f, k) /\ SameJob(f, k) /\ SameMarks(f, k)
  BY <1>1, <1>4, <1>5
  DEF ControllerOK, Sound, Controllers, Requests, SameShown, SameJob, SameMarks
<1> HIDE DEF k, s
<1>7. \A q \in f.requests : q.id # r.id
  BY <1>1 DEF ControllerOK, Sound, Identified
<1>8. Identified(k)
  BY <1>1, <1>5, <1>6, <1>7 DEF ControllerOK, Sound, Identified
<1>13. /\ r.server = g.endpoint /\ r.server \in Servers
       /\ g.job # NoJob /\ r.job = g.job
  BY <1>4 DEF ControllerOK, Sound, Attributed
<1>14. /\ k.endpoint = f.endpoint /\ k.job = f.job /\ k.state = f.state
       /\ f.endpoint = g.endpoint /\ f.job = g.job
  BY <1>1, <1>6 DEF SameShown, SameJob
<1>15. Attributed(f) /\ \A q \in k.requests : q \in f.requests \/ q = s
  BY <1>1, <1>6 DEF ControllerOK, Sound
<1>9. Attributed(k)
  BY <1>4, <1>5, <1>13, <1>14, <1>15 DEF Attributed
<1>10. (\A q \in k.requests : AnswerIsTrue(q, w)) /\ JobIsKnown(k, w)
  BY <1>1, <1>5, <1>6
  DEF ControllerOK, Sound, AnswerIsTrue, JobIsKnown, SameShown, SameJob, Recoveries
<1>11. /\ SocketIsOut(k) /\ CheckIsOut(k) /\ CancelIsOut(k) /\ NothingForgotten(k)
       /\ NoNewIds(g, k) /\ NoNewLastStep(f, k)
  BY <1>1, <1>5, <1>6
  DEF ControllerOK, SocketIsOut, CheckIsOut, CancelIsOut, NothingForgotten, Asked, NoNewIds,
      NoNewLastStep, SameShown, SameJob, SameMarks
<1>12. Onward(g, k)
  BY <1>1, <1>6, <1>11 DEF Onward, NoNewLastStep, SameShown, SameJob, SameMarks
<1> QED
  BY <1>1, <1>2, <1>3, <1>6, <1>8, <1>9, <1>10, <1>11, <1>12 DEF ControllerOK, Sound, h, f

\* The answer of a request is given, or taken.
LEMMA AnsweringOK ==
  ASSUME NEW g, NEW w, ControllerOK(g, w), NEW r \in g.requests, r.mine,
         NEW q \in Requests,
         q.id = r.id, q.kind = r.kind, q.server = r.server, q.mine, q.contact = r.contact,
         r.kind # "submit" => q.job = r.job,
         AnswerIsTrue(q, w)
  PROVE  LET h == [g EXCEPT !.requests = (@ \ {r}) \cup {q}]
         IN  ControllerOK(h, w) /\ Onward(g, h) /\ NoNewIds(g, h) /\ SameJob(g, h)
<1> DEFINE h == [g EXCEPT !.requests = (@ \ {r}) \cup {q}]
<1>1. /\ h \in Controllers /\ h.requests = (g.requests \ {r}) \cup {q}
      /\ SameShown(g, h) /\ SameJob(g, h) /\ SameMarks(g, h) /\ h.socket = g.socket
  BY DEF ControllerOK, Sound, Controllers, SameShown, SameJob, SameMarks
<1> HIDE DEF h
<1>2. Identified(h)
  BY <1>1 DEF ControllerOK, Sound, Identified
<1>3. Attributed(h)
  BY <1>1 DEF ControllerOK, Sound, Attributed, SameShown, SameJob
<1>4. (\A p \in h.requests : AnswerIsTrue(p, w)) /\ JobIsKnown(h, w)
  BY <1>1 DEF ControllerOK, Sound, JobIsKnown, SameShown, SameJob
<1>5. /\ SocketIsOut(h) /\ CheckIsOut(h) /\ CancelIsOut(h) /\ NothingForgotten(h)
      /\ NoNewIds(g, h) /\ NoNewLastStep(g, h)
  BY <1>1 DEF ControllerOK, SocketIsOut, CheckIsOut, CancelIsOut, NothingForgotten, Asked,
     NoNewIds, NoNewLastStep, SameShown, SameJob, SameMarks
<1> QED
  BY <1>1, <1>2, <1>3, <1>4, <1>5
  DEF ControllerOK, Sound, Onward, SameShown, SameJob, SameMarks, h

\* A message of a socket; an outcome without results asks once more.
LEMMA HeardOK ==
  ASSUME NEW g, NEW w, ControllerOK(g, w), HasFreeId(g),
         NEW s \in ServerWords, g.job # NoJob, g.endpoint \in Servers,
         s \in IsOutcome => w[g.job].state \in {s, "gone"},
         NEW empty \in BOOLEAN
  PROVE  LET h == Heard(g, s, empty)
         IN  ControllerOK(h, w) /\ Onward(g, h)
<1> DEFINE a == Apply(g, s)
<1>1. ControllerOK(a, w) /\ Onward(g, a) /\ NoNewIds(g, a) /\ SameJob(g, a)
  BY ApplyOK DEF ControllerOK
<1>2. Heard(g, s, empty) \in {a, Send(a, "refresh")}
  BY DEF Heard
<1> HIDE DEF a
<1>3. ControllerOK(Send(a, "refresh"), w) /\ Onward(a, Send(a, "refresh"))
  <2>1. HasFreeId(a) /\ a.endpoint \in Servers /\ a.job # NoJob
    BY <1>1, FreeIdKept DEF SameJob
  <2> QED
    BY <1>1, <2>1, SendOK DEF ControllerOK, Kinds, Onward, SameShown, SameJob, SameMarks
<1> QED
  BY <1>1, <1>2, <1>3, OnwardTransitive

\* A socket ends: what was listening is closed, and polling takes its place.
LEMMA SocketLostOK ==
  ASSUME NEW g, NEW w, ControllerOK(g, w), HasFreeId(g),
         NEW r \in g.requests, r.kind = "socket"
  PROVE  LET h == SocketLost(Without(g, r))
         IN  ControllerOK(h, w) /\ Onward(g, h)
<1> DEFINE f == Without(g, r)
           c == CloseSocket(f)
<1>1. /\ Sound(f, w) /\ CheckIsOut(f) /\ CancelIsOut(f) /\ NothingForgotten(f)
      /\ SameShown(g, f) /\ SameJob(g, f) /\ SameMarks(g, f)
      /\ NoNewIds(g, f) /\ NoNewLastStep(g, f)
  BY WithoutOK DEF ControllerOK, Recoveries
<1>2. SocketLost(f) \in {c, StartPolling(c)}
  BY DEF SocketLost
<1> HIDE DEF f
<1>3. /\ c \in Controllers
      /\ c.requests = {q \in f.requests : q.id # f.socket} /\ c.socket = NoSocket
      /\ SameShown(f, c) /\ SameJob(f, c) /\ SameMarks(f, c)
  BY <1>1 DEF CloseSocket, Sound, Controllers, SameShown, SameJob, SameMarks
<1> HIDE DEF c
<1>4. Sound(c, w)
  BY <1>1, <1>3 DEF Sound, Identified, Attributed, JobIsKnown, SameShown, SameJob,
     Controllers, Requests, Ids, NoSocket
<1>5. /\ SocketIsOut(c) /\ CheckIsOut(c) /\ CancelIsOut(c) /\ NothingForgotten(c)
      /\ NoNewIds(g, c) /\ NoNewLastStep(g, c)
  BY <1>1, <1>3 DEF Sound, Identified, SocketIsOut, CheckIsOut, CancelIsOut, NothingForgotten,
     Asked, NoNewIds, NoNewLastStep, SameShown, SameJob, SameMarks, Recoveries
<1>6. ControllerOK(c, w) /\ Onward(g, c) /\ HasFreeId(c)
  BY <1>1, <1>3, <1>4, <1>5, FreeIdKept
  DEF ControllerOK, Onward, SameShown, SameJob, SameMarks
<1> QED
  BY <1>2, <1>6, StartPollingOK, OnwardTransitive DEF f

(***************************************************************************)
(* What the session tells the generation.                                  *)
(***************************************************************************)
LEMMA ToldConnected ==
  ASSUME NEW g, NEW w, ControllerOK(g, w), HasFreeId(g), NEW c,
         c.phase = "connected", c.endpoint \in Servers,
         session.attached = "connected" => g.state \notin {"disconnected", "connecting"}
  PROVE  LET h == Told(g, c)
         IN  /\ ControllerOK(h, w) /\ h.reconnecting = g.reconnecting
             /\ NoNewLastStep(g, h)
             /\ h.state \notin Detached /\ h.endpoint = c.endpoint
             /\ session.attached = "connected" => NoNewIds(g, h)
<1> DEFINE here == Attach(g, c.endpoint)
           asked == RecoverJob(here, "recover")
           h == Told(g, c)
<1>1. /\ Sound(here, w) /\ SocketIsOut(here) /\ CheckIsOut(here) /\ CancelIsOut(here)
      /\ NoNewIds(g, here) /\ NoNewLastStep(g, here)
      /\ here.reconnecting = g.reconnecting /\ here.endpoint = c.endpoint
      /\ here.state \notin Detached
      /\ g.state \notin {"disconnected", "connecting"} => NothingForgotten(here)
  BY AttachOK
<1>2. h = IF session.attached = "connected" THEN here ELSE asked
  BY DEF Told
<1> HIDE DEF here
<1>3. HasFreeId(here)
  BY <1>1, FreeIdKept
<1>4. /\ ControllerOK(asked, w)
      /\ asked.reconnecting = here.reconnecting /\ asked.endpoint = here.endpoint
      /\ asked.state \in {here.state, "ready"}
      /\ \E r : asked.requests \subseteq here.requests \cup {r} /\ r.kind = "recover"
  BY <1>1, <1>3, RecoverJobOK DEF Recoveries
<1> HIDE DEF asked, h
<1>5. NoNewLastStep(here, asked)
  BY <1>4 DEF NoNewLastStep
<1>6. NoNewLastStep(g, asked)
  BY <1>1, <1>5 DEF NoNewLastStep
<1>7. CASE session.attached = "connected"
  BY <1>1, <1>2, <1>7 DEF ControllerOK, h
<1>8. CASE session.attached # "connected"
  BY <1>1, <1>2, <1>4, <1>6, <1>8 DEF Detached, h
<1> QED
  BY <1>7, <1>8

LEMMA ToldOtherwise ==
  ASSUME NEW g, NEW w, ControllerOK(g, w), NEW c,
         c.phase \in {"idle", "connecting", "needsServer"}
  PROVE  LET h == Told(g, c)
         IN  /\ ControllerOK(h, w) /\ h.reconnecting = g.reconnecting
             /\ NoNewLastStep(g, h) /\ NoNewIds(g, h)
             /\ h.endpoint = g.endpoint
             /\ h.state = "reconnecting" => g.state = "reconnecting"
<1>1. CASE c.phase = "idle"
  <2>1. Told(g, c) = g
    BY <1>1 DEF Told
  <2> QED
    BY <2>1 DEF NoNewLastStep, NoNewIds
<1>2. CASE c.phase = "connecting"
  <2>1. Told(g, c) = MarkConnecting(g)
    BY <1>2 DEF Told
  <2> QED
    BY <2>1, MarkConnectingOK
<1>3. CASE c.phase = "needsServer"
  <2>1. Told(g, c) = ConnectionLost(g)
    BY <1>3 DEF Told
  <2> QED
    BY <2>1, ConnectionLostOK DEF ControllerOK, IsOutcome
<1> QED
  BY <1>1, <1>2, <1>3

(***************************************************************************)
(* What the gateways do.                                                   *)
(***************************************************************************)

\* A job keeps its server, and an outcome, until its gateway forgets it.
Later(w, v) ==
  \A j \in Jobs :
    /\ w[j].state # "absent" => v[j].server = w[j].server /\ v[j].state # "absent"
    /\ w[j].state \in IsOutcome => v[j].state \in {w[j].state, "gone"}
    /\ w[j].state = "gone" => v[j].state = "gone"

LEMMA LaterOK ==
  ASSUME NEW g, NEW w, NEW v, ControllerOK(g, w), Later(w, v)
  PROVE  ControllerOK(g, v)
<1>1. \A r \in g.requests : AnswerIsTrue(r, v)
  BY DEF ControllerOK, Sound, AnswerIsTrue, Later, IsOutcome
<1>2. g.job \in Jobs \cup {NoJob}
  BY DEF ControllerOK, Sound, Controllers
<1>3. JobIsKnown(g, v)
  BY <1>2 DEF ControllerOK, Sound, JobIsKnown, Later, IsOutcome
<1> QED
  BY <1>1, <1>3 DEF ControllerOK, Sound

(***************************************************************************)
(* The actions.                                                            *)
(***************************************************************************)
LEMMA WithinFree ==
  ASSUME ControllerOK(gen', gateway'), Within
  PROVE  HasFreeId(gen')
BY WithinLeavesAnId DEF ControllerOK, Sound, Within

\* A step that is the controller's alone.
LEMMA Onwards ==
  ASSUME IInv, UNCHANGED <<conn, session>>, GatewaysOK',
         ControllerOK(gen', gateway'), Onward(gen, gen'), HasFreeId(gen')
  PROVE  IInv'
<1>1. ConnectionOK'
  BY DEF IInv, ConnectionOK, Onward, Busy, IsReconnecting
<1>3. SessionOK'
  <2>1. \A r \in gen'.requests : r.kind = "lastStep" =>
          /\ session'.waits = "recover"
          /\ \A q \in gen'.requests : q.kind = "lastStep" => q = r
    BY DEF IInv, SessionOK, Onward, NoNewLastStep, ControllerOK, Sound, Identified
  <2> QED
    BY <2>1 DEF IInv, SessionOK, Onward, IsReconnecting
<1>4. PhaseIsShown'
  BY DEF IInv, PhaseIsShown, Onward, Detached
<1> QED
  BY <1>1, <1>3, <1>4 DEF IInv

\* The last step of a reconnect stays the only one, where none is added.
LEMMA LastStepKept ==
  ASSUME IInv, ControllerOK(gen', gateway'), NoNewLastStep(gen, gen'),
         session'.waits = session.waits \/ session.waits # "recover"
  PROVE  \A r \in gen'.requests : r.kind = "lastStep" =>
           /\ session'.waits = "recover"
           /\ \A q \in gen'.requests : q.kind = "lastStep" => q = r
BY DEF IInv, SessionOK, NoNewLastStep, ControllerOK, Sound, Identified

\* The connection tells of a phase that is not "connected".
LEMMA TellsOtherwise ==
  ASSUME IInv, NEW c, Notify(c, gen), UNCHANGED gateway,
         c.phase \in {"connecting", "needsServer"}, ~c.accepted,
         c \in Connections,
         c.operation = "probe" => conn.operation = "probe", c.endpoint = conn.endpoint \/ c.endpoint \in Servers,
         c.operation # "none" => Busy \/ c.endpoint \in Servers,
         session' = [session EXCEPT !.attached = c.phase]
  PROVE  IInv'
<1>1. /\ conn' = c /\ gen' = Told(gen, c)
      /\ ControllerOK(gen', gateway') /\ gen'.reconnecting = gen.reconnecting
      /\ NoNewLastStep(gen, gen') /\ NoNewIds(gen, gen')
      /\ gen'.endpoint = gen.endpoint
      /\ gen'.state = "reconnecting" => gen.state = "reconnecting"
  BY ToldOtherwise DEF IInv, Notify
<1>2. /\ session'.attached = c.phase /\ session'.waits = session.waits
      /\ session' \in Sessions
  BY DEF IInv, SessionOK, Sessions, Phases
<1>3. HasFreeId(gen')
  BY <1>1, FreeIdKept DEF IInv
<1>4. GatewaysOK' /\ PhaseIsShown'
  BY <1>1, <1>2 DEF IInv, GatewaysOK, PhaseIsShown
<1>5. ConnectionOK'
  BY <1>1, <1>2 DEF IInv, ConnectionOK, Busy, IsReconnecting
<1>6. SessionOK'
  BY <1>1, <1>2, LastStepKept DEF IInv, SessionOK, IsReconnecting
<1> QED
  BY <1>1, <1>3, <1>4, <1>5, <1>6 DEF IInv

LEMMA StartStep == ASSUME IInv, Start PROVE IInv'
<1>1. session.attached = "idle" /\ ~conn.accepted
  BY DEF IInv, ConnectionOK, Start
<1>2. CASE Notify([conn EXCEPT !.phase = "needsServer"], gen)
  <2> DEFINE c == [conn EXCEPT !.phase = "needsServer"]
  <2>1. /\ c.phase = "needsServer" /\ c.operation = conn.operation
        /\ c.endpoint = conn.endpoint /\ ~c.accepted
        /\ c \in Connections
    BY <1>1 DEF IInv, ConnectionOK, Connections, Phases
  <2>2. conn' = c
    BY <1>2 DEF Notify
  <2>3. session' = [session EXCEPT !.attached = c.phase] /\ UNCHANGED gateway
    BY <2>2 DEF Start
  <2> HIDE DEF c
  <2> QED
    BY <1>2, <2>1, <2>2, <2>3, TellsOtherwise DEF Busy, Notify
<1>3. CASE \E s \in Servers :
             Notify([conn EXCEPT !.phase = "connecting", !.endpoint = s,
                                 !.operation = "start", !.tries = 1], gen)
  <2> PICK s \in Servers :
             Notify([conn EXCEPT !.phase = "connecting", !.endpoint = s,
                                 !.operation = "start", !.tries = 1], gen)
    BY <1>3
  <2> DEFINE c == [conn EXCEPT !.phase = "connecting", !.endpoint = s,
                               !.operation = "start", !.tries = 1]
  <2>1. /\ c.phase = "connecting" /\ c.operation = "start"
        /\ c.endpoint = s /\ ~c.accepted
        /\ c \in Connections
    BY <1>1 DEF IInv, ConnectionOK, Connections, Phases
  <2>2. conn' = c /\ Notify(c, gen)
    BY DEF Notify
  <2>3. session' = [session EXCEPT !.attached = c.phase] /\ UNCHANGED gateway
    BY <2>2 DEF Start
  <2> HIDE DEF c
  <2> QED
    BY <2>1, <2>2, <2>3, TellsOtherwise
<1> QED
  BY <1>2, <1>3 DEF Start

LEMMA ConnectToStep == ASSUME IInv, NEW s \in Servers, ConnectTo(s) PROVE IInv'
<1> DEFINE c == [conn EXCEPT !.phase = "connecting", !.endpoint = s,
                             !.operation = "connect"]
<1>1. ~conn.accepted
  BY DEF IInv, ConnectionOK, ConnectTo
<1>2. /\ c.phase = "connecting" /\ c.operation = "connect"
      /\ c.endpoint = s /\ ~c.accepted
      /\ c \in Connections
  BY <1>1 DEF IInv, ConnectionOK, Connections, Phases
<1>3. /\ Notify(c, gen) /\ UNCHANGED gateway
      /\ session' = [session EXCEPT !.attached = c.phase]
  BY DEF ConnectTo
<1> HIDE DEF c
<1> QED
  BY <1>2, <1>3, TellsOtherwise

LEMMA HandshakeFailsStep == ASSUME IInv, HandshakeFails PROVE IInv'
<1> DEFINE c == [conn EXCEPT !.phase = "needsServer", !.operation = "none",
                             !.tries = 0]
<1>1. /\ c.phase = "needsServer" /\ c.operation = "none"
      /\ c.endpoint = conn.endpoint /\ ~c.accepted
      /\ c \in Connections
  BY DEF IInv, ConnectionOK, Connections, Phases, HandshakeFails
<1>2. /\ Notify(c, gen) /\ UNCHANGED gateway
      /\ session' = [session EXCEPT !.attached = c.phase]
  BY DEF HandshakeFails
<1> HIDE DEF c
<1> QED
  BY <1>1, <1>2, TellsOtherwise

\* The controller is left alone, and the connection's phase is told to nobody yet.
LEMMA AcceptStep == ASSUME IInv, Accept PROVE IInv'
<1>1. /\ conn' \in Connections /\ conn'.phase = "connected" /\ conn'.accepted
      /\ conn'.endpoint = conn.endpoint /\ conn'.operation = conn.operation
  BY DEF IInv, ConnectionOK, Connections, Phases, Accept
<1>2. UNCHANGED <<gen, session, gateway>> /\ conn.operation # "none"
  BY DEF Accept, Busy
<1>3. ConnectionOK'
  BY <1>1, <1>2 DEF IInv, ConnectionOK, Busy, IsReconnecting
<1>4. SessionOK'
  BY <1>1, <1>2 DEF IInv, SessionOK, IsReconnecting
<1> QED
  BY <1>2, <1>3, <1>4 DEF IInv, GatewaysOK, PhaseIsShown

LEMMA StartAgainStep == ASSUME IInv, StartAgain PROVE IInv'
<1>1. /\ conn' \in Connections /\ conn'.phase = conn.phase
      /\ conn'.accepted = conn.accepted /\ conn'.endpoint = conn.endpoint
      /\ conn'.operation = conn.operation
  BY DEF IInv, ConnectionOK, Connections, StartAgain
<1>2. UNCHANGED <<gen, session, gateway>>
  BY DEF StartAgain
<1>3. ConnectionOK' /\ SessionOK'
  BY <1>1, <1>2 DEF IInv, ConnectionOK, SessionOK, Busy, IsReconnecting
<1> QED
  BY <1>2, <1>3 DEF IInv, GatewaysOK, PhaseIsShown

\* The server that was remembered is told, and attached to.
LEMMA AcceptedStep == ASSUME IInv, Accepted PROVE IInv'
<1> DEFINE c == [conn EXCEPT !.operation = "none", !.accepted = FALSE]
<1>1. /\ c \in Connections /\ c.phase = "connected" /\ ~c.accepted
      /\ c.endpoint = conn.endpoint /\ c.operation = "none" /\ c.endpoint \in Servers
  BY DEF IInv, ConnectionOK, Connections, Accepted
<1>2. conn' = c /\ gen' = Told(gen, c) /\ UNCHANGED gateway /\ Within
  BY DEF Accepted, Notify
<1> HIDE DEF c
<1>3. /\ ControllerOK(gen', gateway') /\ gen'.reconnecting = gen.reconnecting
      /\ NoNewLastStep(gen, gen')
      /\ gen'.state \notin Detached /\ gen'.endpoint = c.endpoint
  BY <1>1, <1>2, ToldConnected DEF IInv, PhaseIsShown
<1>4. HasFreeId(gen')
  BY <1>2, <1>3, WithinFree
<1>5. /\ session' \in Sessions /\ session'.attached = "connected"
      /\ session'.waits = IF conn.operation = "probe" THEN "reload" ELSE session.waits
  BY DEF IInv, SessionOK, Sessions, Phases, Accepted
<1>6. ConnectionOK'
  BY <1>1, <1>2, <1>5 DEF ConnectionOK
<1>7. \/ session'.waits = session.waits
      \/ session.waits = "probe" /\ session'.waits = "reload"
  BY <1>5 DEF IInv, SessionOK
<1>8. SessionOK'
  <2>1. \A r \in gen'.requests : r.kind = "lastStep" =>
          /\ session'.waits = "recover"
          /\ \A q \in gen'.requests : q.kind = "lastStep" => q = r
    BY <1>3, <1>7, LastStepKept
  <2> QED
    BY <1>1, <1>2, <1>3, <1>5, <1>7, <2>1 DEF IInv, SessionOK, IsReconnecting
<1>9. PhaseIsShown' /\ GatewaysOK'
  BY <1>2, <1>3 DEF IInv, PhaseIsShown, GatewaysOK, Detached
<1> QED
  BY <1>3, <1>4, <1>6, <1>8, <1>9 DEF IInv

LEMMA RefreshIdentityStep == ASSUME IInv, RefreshIdentity PROVE IInv'
<1> DEFINE c == [conn EXCEPT !.operation = "refresh"]
<1>1. /\ conn.phase = "connected" /\ ~conn.accepted
  BY DEF IInv, ConnectionOK, RefreshIdentity
<1>2. /\ c \in Connections /\ c.phase = "connected" /\ ~c.accepted
      /\ c.endpoint = conn.endpoint /\ c.operation = "refresh" /\ c.endpoint \in Servers
  BY <1>1 DEF IInv, ConnectionOK, Connections
<1>3. /\ conn' = c /\ gen' = Told(gen, c) /\ UNCHANGED <<session, gateway>>
      /\ session.attached = "connected"
  BY DEF RefreshIdentity, Notify
<1> HIDE DEF c
<1>4. /\ ControllerOK(gen', gateway') /\ gen'.reconnecting = gen.reconnecting
      /\ NoNewLastStep(gen, gen') /\ NoNewIds(gen, gen')
      /\ gen'.state \notin Detached /\ gen'.endpoint = c.endpoint
  BY <1>2, <1>3, ToldConnected DEF IInv, PhaseIsShown
<1>5. HasFreeId(gen')
  BY <1>4, FreeIdKept DEF IInv
<1>6. ConnectionOK'
  BY <1>2, <1>3 DEF ConnectionOK
<1>7. SessionOK'
  BY <1>2, <1>3, <1>4, LastStepKept DEF IInv, SessionOK, IsReconnecting
<1>8. PhaseIsShown' /\ GatewaysOK'
  BY <1>3, <1>4 DEF IInv, PhaseIsShown, GatewaysOK, Detached
<1> QED
  BY <1>4, <1>5, <1>6, <1>7, <1>8 DEF IInv

\* A reconnect's handshake failed: once more, or not.
LEMMA ProbeFailsStep == ASSUME IInv, ProbeFails PROVE IInv'
<1> DEFINE c == [conn EXCEPT !.operation = "none"]
           t == Told(gen, c)
<1>1. /\ c \in Connections /\ c.phase = conn.phase /\ ~c.accepted
      /\ c.endpoint = conn.endpoint /\ c.operation = "none" /\ c.endpoint \in Servers
      /\ session.attached = conn.phase /\ session.waits = "probe" /\ conn' = c
  BY DEF IInv, ConnectionOK, SessionOK, Connections, ProbeFails, Busy
<1>2. c.phase \in Phases
  BY <1>1 DEF Connections
<1> HIDE DEF c
<1>3. /\ ControllerOK(t, gateway) /\ t.reconnecting = gen.reconnecting
      /\ NoNewLastStep(gen, t) /\ NoNewIds(gen, t)
      /\ t.state # "reconnecting"
      /\ session.attached = "connected" => t.state \notin Detached
  <2>1. CASE c.phase = "connected"
    BY <1>1, <2>1, ToldConnected DEF IInv, PhaseIsShown, Detached
  <2>2. CASE c.phase # "connected"
    BY <1>1, <1>2, <2>2, ToldOtherwise DEF IInv, PhaseIsShown, Phases
  <2> QED
    BY <2>1, <2>2
<1> HIDE DEF t
<1>4. UNCHANGED gateway /\ gen.reconnecting
  BY <1>1 DEF ProbeFails, IInv, SessionOK, IsReconnecting
<1>5. CASE gen' = t /\ session' = [session EXCEPT !.waits = "backoff",
                                                  !.attached = conn.phase]
  <2>1. /\ session' \in Sessions /\ session'.waits = "backoff"
        /\ session'.attached = conn.phase
    BY <1>1, <1>2, <1>5 DEF IInv, SessionOK, Sessions
  <2>2. HasFreeId(gen')
    BY <1>3, <1>5, FreeIdKept DEF IInv
  <2>3. ConnectionOK'
    BY <1>1, <2>1 DEF ConnectionOK
  <2>4. SessionOK'
    BY <1>1, <1>3, <1>4, <1>5, <2>1, LastStepKept DEF SessionOK, IsReconnecting
  <2> QED
    BY <1>1, <1>3, <1>4, <1>5, <2>1, <2>2, <2>3, <2>4
    DEF IInv, GatewaysOK, PhaseIsShown, Detached
<1>6. CASE /\ gen' = EndReconnect(t, FALSE)
           /\ session' = [session EXCEPT !.waits = "none", !.failure = TRUE,
                                         !.attached = conn.phase]
  <2>1. /\ session' \in Sessions /\ session'.waits = "none"
        /\ session'.attached = conn.phase
    BY <1>1, <1>2, <1>6 DEF IInv, SessionOK, Sessions
  <2>2. /\ ControllerOK(gen', gateway) /\ NoNewIds(t, gen') /\ NoNewLastStep(t, gen')
        /\ ~gen'.reconnecting /\ SameShown(t, gen')
    BY <1>3, <1>6, EndReconnectOK
  <2>3. NoNewIds(gen, gen') /\ NoNewLastStep(gen, gen')
    BY <1>3, <2>2 DEF NoNewIds, NoNewLastStep
  <2>4. HasFreeId(gen')
    BY <2>3, FreeIdKept DEF IInv
  <2>5. ConnectionOK'
    BY <1>1, <2>1 DEF ConnectionOK
  <2>6. SessionOK'
    BY <1>1, <1>4, <2>1, <2>2, <2>3, LastStepKept DEF SessionOK, IsReconnecting
  <2> QED
    BY <1>1, <1>3, <1>4, <2>1, <2>2, <2>4, <2>5, <2>6
    DEF IInv, GatewaysOK, PhaseIsShown, Detached, SameShown
<1> QED
  BY <1>1, <1>5, <1>6 DEF ProbeFails, t

LEMMA ProbeAgainStep == ASSUME IInv, ProbeAgain PROVE IInv'
<1> DEFINE c == Probing(conn)
<1>1. /\ c \in Connections /\ c.phase = conn.phase /\ ~c.accepted
      /\ c.endpoint = conn.endpoint /\ c.operation = "probe" /\ c.endpoint \in Servers
  BY DEF IInv, ConnectionOK, Connections, ProbeAgain, Probing, IsReconnecting
<1>2. c.phase \in Phases
  BY <1>1 DEF Connections
<1>3. /\ conn' = c /\ gen' = Told(gen, c) /\ UNCHANGED gateway /\ Within
      /\ session.waits = "backoff"
  BY DEF ProbeAgain, Notify
<1> HIDE DEF c
<1>4. /\ ControllerOK(gen', gateway') /\ gen'.reconnecting = gen.reconnecting
      /\ NoNewLastStep(gen, gen') /\ gen'.state # "reconnecting"
      /\ c.phase = "connected" => gen'.state \notin Detached
  <2>1. CASE c.phase = "connected"
    BY <1>1, <1>3, <2>1, ToldConnected DEF IInv, PhaseIsShown, Detached
  <2>2. CASE c.phase # "connected"
    BY <1>1, <1>2, <1>3, <2>2, ToldOtherwise DEF IInv, PhaseIsShown, Phases
  <2> QED
    BY <2>1, <2>2
<1>5. HasFreeId(gen')
  BY <1>3, <1>4, WithinFree
<1>6. /\ session' \in Sessions /\ session'.waits = "probe"
      /\ session'.attached = c.phase
  <2>1. /\ session' = [session EXCEPT !.waits = "probe", !.made = @ + 1,
                                     !.attached = conn.phase]
        /\ session \in Sessions /\ conn.phase \in Phases
    BY <1>1, <1>2 DEF IInv, SessionOK, ProbeAgain
  <2>2. session.made + 1 \in Nat
    BY <2>1 DEF Sessions
  <2> QED
    BY <1>1, <2>1, <2>2 DEF Sessions
<1>7. ConnectionOK'
  BY <1>1, <1>3, <1>6 DEF ConnectionOK
<1>8. SessionOK'
  BY <1>1, <1>3, <1>4, <1>6, LastStepKept DEF IInv, SessionOK, IsReconnecting
<1> QED
  BY <1>1, <1>3, <1>4, <1>5, <1>6, <1>7, <1>8
  DEF IInv, GatewaysOK, PhaseIsShown, Detached

\* A reconnect begins, over what the controller has become in the same step.
LEMMA BeginStep ==
  ASSUME IInv, NEW g, ControllerOK(g, gateway), Onward(gen, g),
         ~IsReconnecting, conn.phase = "connected" \/ gen.endpoint # NoServer,
         g.state # "disconnected", session.attached = "connected" \/ g.state # "ready",
         session.attached = "connected" => g.state # "connecting",
         HasFreeId(g), Begin(g), Within, UNCHANGED gateway
  PROVE  IInv'
<1> DEFINE c == Probing(conn)
           b == BeginReconnect(g)
<1>1. /\ c \in Connections /\ c.phase = conn.phase /\ ~c.accepted
      /\ c.endpoint = conn.endpoint /\ c.operation = "probe" /\ c.endpoint \in Servers
  BY DEF IInv, ConnectionOK, Connections, Probing
<1>2. c.phase \in Phases
  BY <1>1 DEF Connections
<1>3. conn' = c /\ gen' = Told(b, c)
  BY DEF Begin, Notify
<1>4. /\ ControllerOK(b, gateway) /\ NoNewIds(g, b) /\ NoNewLastStep(g, b)
      /\ b.reconnecting /\ b.endpoint = g.endpoint
      /\ b.state # g.state => g.state = "ready" /\ b.state = "reconnecting"
  BY BeginReconnectOK
<1> HIDE DEF b, c
<1>5. HasFreeId(b) /\ NoNewLastStep(gen, b)
  BY <1>4, FreeIdKept DEF Onward, NoNewLastStep
<1>6. g.state # "reconnecting"
  BY DEF IInv, PhaseIsShown, Onward, Detached
<1>7. /\ ControllerOK(gen', gateway) /\ gen'.reconnecting
      /\ NoNewLastStep(b, gen') /\ gen'.state # "reconnecting"
      /\ c.phase = "connected" => gen'.state \notin Detached
  <2>1. CASE c.phase = "connected"
    BY <1>1, <1>3, <1>4, <1>5, <2>1, ToldConnected DEF Detached
  <2>2. CASE c.phase # "connected"
    <3>1. session.attached # "connected"
      BY <1>1, <2>2 DEF IInv, ConnectionOK
    <3>2. b.state # "reconnecting"
      BY <1>4, <1>6, <3>1
    <3> QED
      BY <1>1, <1>2, <1>3, <1>4, <2>2, <3>2, ToldOtherwise DEF Phases
  <2> QED
    BY <2>1, <2>2
<1>8. NoNewLastStep(gen, gen')
  BY <1>5, <1>7 DEF NoNewLastStep
<1>9. HasFreeId(gen')
  BY <1>7, WithinFree
<1>10. /\ session' \in Sessions /\ session'.waits = "probe"
       /\ session'.attached = c.phase
  <2>1. session' = [session EXCEPT !.waits = "probe", !.made = 1, !.failure = FALSE,
                                   !.attached = conn.phase]
    BY DEF Begin
  <2> QED
    BY <1>1, <1>2, <2>1 DEF IInv, SessionOK, Sessions
<1>11. ConnectionOK'
  BY <1>1, <1>3, <1>10 DEF ConnectionOK, Busy
<1>12. SessionOK'
  <2>1. session.waits # "recover"
    BY DEF IsReconnecting
  <2> QED
    BY <1>1, <1>3, <1>7, <1>8, <1>10, <2>1, LastStepKept DEF SessionOK, IsReconnecting
<1> QED
  BY <1>1, <1>3, <1>7, <1>9, <1>10, <1>11, <1>12
  DEF IInv, GatewaysOK, PhaseIsShown, Detached

LEMMA ReconnectStep == ASSUME IInv, Reconnect PROVE IInv'
<1>1. Onward(gen, gen)
  BY DEF Onward, NoNewLastStep
<1>2. conn.phase = "connected"
  BY DEF IInv, ConnectionOK, Reconnect
<1> QED
  BY <1>1, <1>2, BeginStep DEF IInv, PhaseIsShown, Reconnect

\* The registry is read again, and the job asked about for the last time.
LEMMA ReloadedStep == ASSUME IInv, Reloaded PROVE IInv'
<1> DEFINE a == RecoverJob(gen, "lastStep")
<1>1. /\ ControllerOK(a, gateway)
      /\ a.reconnecting = gen.reconnecting /\ a.endpoint = gen.endpoint
      /\ a.state \in {gen.state, "ready"}
      /\ ~Asks(gen) => NoNewIds(gen, a) /\ NoNewLastStep(gen, a)
      /\ \E r : a.requests \subseteq gen.requests \cup {r} /\ r.kind = "lastStep"
  BY RecoverJobOK DEF IInv, ControllerOK, Recoveries
<1>2. /\ a.state # "reconnecting"
      /\ session.attached = "connected" => a.state \notin {"disconnected", "connecting"}
  BY <1>1 DEF IInv, PhaseIsShown
<1>3. UNCHANGED <<conn, gateway>> /\ Within /\ session.waits = "reload" /\ gen.reconnecting
  BY DEF Reloaded, IInv, SessionOK, IsReconnecting
<1>4. \A r \in gen.requests : r.kind # "lastStep"
  BY <1>3 DEF IInv, SessionOK
<1>5. CASE Asks(gen)
  <2>1. gen' = a /\ session' = [session EXCEPT !.waits = "recover"]
    BY <1>5 DEF Reloaded
  <2> HIDE DEF a
  <2>2. /\ session' \in Sessions /\ session'.waits = "recover"
        /\ session'.attached = session.attached
    BY <2>1 DEF IInv, SessionOK, Sessions
  <2>3. HasFreeId(gen')
    BY <1>1, <1>3, <2>1, WithinFree
  <2>4. ConnectionOK'
    BY <1>1, <1>3, <2>1, <2>2 DEF IInv, ConnectionOK, Busy, IsReconnecting
  <2>5. conn.operation # "probe"
    BY <1>3 DEF IInv, SessionOK
  <2>6. \A r, q \in gen'.requests : r.kind = "lastStep" /\ q.kind = "lastStep" => q = r
    BY <1>1, <1>4, <2>1
  <2>7. SessionOK'
    BY <1>1, <1>3, <2>1, <2>2, <2>5, <2>6 DEF SessionOK, IsReconnecting
  <2> QED
    BY <1>1, <1>2, <1>3, <2>1, <2>2, <2>3, <2>4, <2>7
    DEF IInv, GatewaysOK, PhaseIsShown
<1>6. CASE ~Asks(gen)
  <2>1. gen' = EndReconnect(a, TRUE) /\ session' = [session EXCEPT !.waits = "none"]
    BY <1>6 DEF Reloaded
  <2> HIDE DEF a
  <2>2. /\ session' \in Sessions /\ session'.waits = "none"
        /\ session'.attached = session.attached
    BY <2>1 DEF IInv, SessionOK, Sessions
  <2>3. /\ ControllerOK(gen', gateway) /\ NoNewLastStep(a, gen')
        /\ ~gen'.reconnecting /\ SameShown(a, gen') /\ SameJob(a, gen')
    BY <1>1, <1>2, <2>1, EndReconnectOK
  <2>4. NoNewLastStep(gen, gen')
    BY <1>1, <1>6, <2>3 DEF NoNewLastStep
  <2>5. HasFreeId(gen')
    BY <1>3, <2>3, WithinFree
  <2>6. ConnectionOK'
    BY <1>1, <1>3, <2>2, <2>3 DEF IInv, ConnectionOK, Busy, IsReconnecting, SameJob
  <2>7. SessionOK'
    BY <1>3, <1>4, <2>2, <2>3, <2>4 DEF IInv, SessionOK, IsReconnecting, NoNewLastStep
  <2> QED
    BY <1>2, <1>3, <2>2, <2>3, <2>5, <2>6, <2>7
    DEF IInv, GatewaysOK, PhaseIsShown, SameShown
<1> QED
  BY <1>5, <1>6

\* What is left of the requests when the user goes to another server.
Left(g) ==
  [g EXCEPT !.requests =
     {[r EXCEPT !.kind = IF @ = "lastStep" THEN "recover" ELSE @] :
        r \in {q \in @ : q.mine \/ q.kind = "poll"}}]

Demoted(r) == [r EXCEPT !.kind = IF @ = "lastStep" THEN "recover" ELSE @]

LEMMA LeftOK ==
  ASSUME NEW g, NEW w, ControllerOK(g, w)
  PROVE  /\ Sound(Left(g), w) /\ CancelIsOut(Left(g))
         /\ SameShown(g, Left(g)) /\ SameJob(g, Left(g)) /\ SameMarks(g, Left(g))
         /\ NoNewIds(g, Left(g))
         /\ \A r \in Left(g).requests : r.kind # "lastStep"
<1> DEFINE h == Left(g)
<1>0. \A r \in Requests :
        /\ Demoted(r) \in Requests
        /\ Demoted(r).id = r.id /\ Demoted(r).server = r.server
        /\ Demoted(r).job = r.job /\ Demoted(r).mine = r.mine
        /\ Demoted(r).contact = r.contact /\ Demoted(r).answer = r.answer
        /\ Demoted(r).kind = IF r.kind = "lastStep" THEN "recover" ELSE r.kind
  BY DEF Demoted, Requests, Kinds, Recoveries
<1>1. g \in Controllers /\ g.requests \subseteq Requests
  BY DEF ControllerOK, Sound, Controllers
<1>2. /\ h.requests = {Demoted(r) : r \in {q \in g.requests : q.mine \/ q.kind = "poll"}}
      /\ h.socket = g.socket
      /\ SameShown(g, h) /\ SameJob(g, h) /\ SameMarks(g, h)
  BY <1>1 DEF Left, Demoted, Controllers, SameShown, SameJob, SameMarks
<1>3. h \in Controllers
  <2>1. h.requests \subseteq Requests
    BY <1>0, <1>1, <1>2
  <2> QED
    BY <1>1, <2>1 DEF Left, Controllers
<1> HIDE DEF h
<1>4. \A s \in h.requests : \E r \in g.requests :
        /\ r \in Requests
        /\ s = Demoted(r) /\ (r.mine \/ r.kind = "poll")
  BY <1>1, <1>2
<1>5. Identified(h)
  BY <1>0, <1>2, <1>4 DEF ControllerOK, Sound, Identified
<1>6. Attributed(h)
  BY <1>0, <1>2, <1>4 DEF ControllerOK, Sound, Attributed, SameShown, SameJob, Recoveries
<1>7. \A r \in h.requests : AnswerIsTrue(r, w)
  BY <1>0, <1>4 DEF ControllerOK, Sound, AnswerIsTrue, Recoveries
<1>8. JobIsKnown(h, w)
  BY <1>2 DEF ControllerOK, Sound, JobIsKnown, SameShown, SameJob
<1>9. CancelIsOut(h)
  <2>1. \A r \in g.requests : r.kind = "cancel" /\ r.mine =>
          Demoted(r) \in h.requests /\ Demoted(r).kind = "cancel" /\ Demoted(r).mine
    BY <1>0, <1>1, <1>2
  <2> QED
    BY <1>2, <2>1 DEF ControllerOK, CancelIsOut, SameMarks
<1>10. NoNewIds(g, h) /\ \A r \in h.requests : r.kind # "lastStep"
  BY <1>0, <1>4 DEF NoNewIds
<1> QED
  BY <1>2, <1>3, <1>5, <1>6, <1>7, <1>8, <1>9, <1>10 DEF Sound, h

LEMMA ChooseAnotherServerStep == ASSUME IInv, ChooseAnotherServer PROVE IInv'
<1> DEFINE c == [conn EXCEPT !.phase = "needsServer", !.operation = "none",
                             !.accepted = FALSE, !.tries = 0]
           e == IF IsReconnecting THEN EndReconnect(gen, FALSE) ELSE gen
           k == Left(e)
<1>1. /\ c \in Connections /\ c.phase = "needsServer" /\ ~c.accepted
      /\ c.endpoint = conn.endpoint /\ c.operation = "none" /\ c.endpoint \in Servers
  <2>1. session.attached = "connected"
    BY DEF ChooseAnotherServer
  <2> QED
    BY <2>1 DEF IInv, ConnectionOK, Connections, Phases
<1>2. conn' = c /\ gen' = Told(k, c) /\ UNCHANGED gateway
  BY DEF ChooseAnotherServer, Notify, Left
<1> HIDE DEF c
<1>3. /\ ControllerOK(e, gateway) /\ NoNewIds(gen, e) /\ ~e.reconnecting
  <2>1. CASE IsReconnecting
    BY <2>1, EndReconnectOK DEF IInv, PhaseIsShown
  <2>2. CASE ~IsReconnecting
    BY <2>2 DEF IInv, SessionOK, NoNewIds, ControllerOK, Sound, Controllers
  <2> QED
    BY <2>1, <2>2
<1> HIDE DEF e
<1>4. /\ Sound(k, gateway) /\ CancelIsOut(k)
      /\ NoNewIds(e, k) /\ ~k.reconnecting
      /\ \A r \in k.requests : r.kind # "lastStep"
  BY <1>3, LeftOK DEF SameMarks
<1> HIDE DEF k
<1>5. gen' = ConnectionLost(k)
  BY <1>1, <1>2 DEF Told
<1>6. /\ ControllerOK(gen', gateway')
      /\ NoNewIds(k, gen') /\ NoNewLastStep(k, gen')
      /\ ~gen'.reconnecting
      /\ gen'.state \in {"interrupted", "disconnected"} \cup IsOutcome
  BY <1>2, <1>4, <1>5, ConnectionLostOK
<1>7. HasFreeId(gen')
  <2>1. NoNewIds(gen, gen')
    BY <1>3, <1>4, <1>6 DEF NoNewIds
  <2> QED
    BY <2>1, FreeIdKept DEF IInv
<1>8. /\ session' \in Sessions /\ session'.waits = "none"
      /\ session'.attached = "needsServer"
  BY DEF IInv, SessionOK, Sessions, Phases, ChooseAnotherServer
<1>9. ConnectionOK'
  BY <1>1, <1>2, <1>8 DEF ConnectionOK
<1>10. SessionOK'
  BY <1>1, <1>2, <1>4, <1>6, <1>8 DEF SessionOK, IsReconnecting, NoNewLastStep
<1>11. PhaseIsShown' /\ GatewaysOK'
  BY <1>2, <1>6, <1>8 DEF IInv, GatewaysOK, PhaseIsShown, IsOutcome
<1> QED
  BY <1>6, <1>7, <1>9, <1>10, <1>11 DEF IInv

LEMMA GenerateStep == ASSUME IInv, Generate PROVE IInv'
<1>1. gen.endpoint \in Servers
  BY DEF IInv, ControllerOK, Sound, Controllers, Generate
<1>2. ControllerOK(gen', gateway') /\ Onward(gen, gen')
  BY <1>1, SubmitOK DEF IInv, Generate
<1> QED
  BY <1>2, WithinFree, Onwards DEF Generate, IInv, GatewaysOK

LEMMA CancelJobStep == ASSUME IInv, CancelJob PROVE IInv'
<1>1. ControllerOK(gen', gateway') /\ Onward(gen, gen')
  BY CancelOK DEF IInv, CancelJob, CanCancel
<1> QED
  BY <1>1, WithinFree, Onwards DEF CancelJob, IInv, GatewaysOK

LEMMA BackToTheFormStep == ASSUME IInv, BackToTheForm PROVE IInv'
<1>1. ControllerOK(gen', gateway') /\ Onward(gen, gen') /\ NoNewIds(gen, gen')
  BY GenerateAgainOK DEF IInv, BackToTheForm, PhaseIsShown
<1>2. HasFreeId(gen')
  BY <1>1, FreeIdKept DEF IInv
<1> QED
  BY <1>1, <1>2, Onwards DEF BackToTheForm, IInv, GatewaysOK

LEMMA PollTickStep == ASSUME IInv, PollTick PROVE IInv'
<1>1. ControllerOK(gen', gateway') /\ Onward(gen, gen')
  BY PollOnceOK DEF IInv, PollTick
<1> QED
  BY <1>1, WithinFree, Onwards DEF PollTick, IInv, GatewaysOK

\* A gateway's own step.
LEMMA GatewayStep ==
  ASSUME IInv, UNCHANGED <<gen, conn, session>>, GatewaysOK', Later(gateway, gateway')
  PROVE  IInv'
<1>1. ControllerOK(gen', gateway') /\ Onward(gen, gen')
  BY LaterOK DEF IInv, Onward, NoNewLastStep
<1> QED
  BY <1>1, Onwards DEF IInv

LEMMA JobMovesStep == ASSUME IInv, NEW j \in Jobs, JobMoves(j) PROVE IInv'
<1>1. PICK s \in {"running"} \cup Outcomes :
        /\ gateway[j].state \in {"queued", "running"} \ {s}
        /\ gateway' = [gateway EXCEPT ![j].state = s]
  BY DEF JobMoves
<1>2. GatewaysOK' /\ Later(gateway, gateway')
  BY <1>1 DEF IInv, GatewaysOK, Later, IsOutcome
<1> QED
  BY <1>2, GatewayStep DEF JobMoves

LEMMA GatewayRestartsStep == ASSUME IInv, NEW s \in Servers, GatewayRestarts(s) PROVE IInv'
<1>1. GatewaysOK' /\ Later(gateway, gateway')
  BY DEF IInv, GatewaysOK, Later, GatewayRestarts, IsOutcome
<1> QED
  BY <1>1, GatewayStep DEF GatewayRestarts

\* A request that still waits for its answer is one that counts, if it is not a poll
\* or a last step that does not; and it is about the job of now.
LEMMA AskedOfNow ==
  ASSUME IInv, NEW r \in gen.requests, r.mine
  PROVE  /\ r \in Requests /\ r.server \in Servers
         /\ r.kind # "submit" =>
              /\ r.job \in Jobs /\ gateway[r.job].server = r.server
              /\ gateway[r.job].state \in {"queued", "running", "gone"} \cup Outcomes
BY DEF IInv, ControllerOK, Sound, Controllers, Requests, Attributed, JobIsKnown, GatewaysOK

LEMMA ServeSubmitStep ==
  ASSUME IInv, NEW r \in gen.requests, ServeSubmit(r) PROVE IInv'
<1>1. PICK j \in Jobs :
        /\ gateway[j].state = "absent"
        /\ gateway' = [gateway EXCEPT ![j] = [state |-> "queued", server |-> r.server]]
        /\ gen' = [gen EXCEPT !.requests = (@ \ {r}) \cup
                     {[r EXCEPT !.job = j, !.answer = "queued"]}]
  BY DEF ServeSubmit
<1>2. r.kind = "submit" /\ r.answer = NoAnswer /\ UNCHANGED <<conn, session>>
  BY DEF ServeSubmit
<1> DEFINE q == [r EXCEPT !.job = j, !.answer = "queued"]
<1>3. r.mine
  BY <1>2 DEF IInv, ControllerOK, Sound, Attributed
<1>4. r \in Requests /\ r.server \in Servers
  BY <1>3, AskedOfNow
<1>5. /\ q \in Requests /\ q.id = r.id /\ q.kind = r.kind /\ q.server = r.server
      /\ q.mine /\ q.contact = r.contact /\ q.job = j /\ q.answer = "queued"
  BY <1>3, <1>4 DEF Requests, Answers, ServerWords
<1> HIDE DEF q
<1>6. /\ GatewaysOK' /\ Later(gateway, gateway')
      /\ gateway'[j].server = r.server /\ gateway'[j].state = "queued"
  BY <1>1, <1>4 DEF IInv, GatewaysOK, Later, IsOutcome
<1>7. ControllerOK(gen, gateway')
  BY <1>6, LaterOK DEF IInv
<1>8. AnswerIsTrue(q, gateway')
  BY <1>2, <1>5, <1>6 DEF AnswerIsTrue, IsOutcome
<1>9. ControllerOK(gen', gateway') /\ Onward(gen, gen') /\ NoNewIds(gen, gen')
  BY <1>1, <1>2, <1>3, <1>5, <1>7, <1>8, AnsweringOK DEF q
<1> QED
  BY <1>2, <1>6, <1>9, FreeIdKept, Onwards DEF IInv

\* An answer about a job, given while nothing that was known of it is undone.
LEMMA AnswerStep ==
  ASSUME IInv, NEW r \in gen.requests, r.mine, r.kind # "submit",
         NEW s \in {"queued", "running", "gone"} \cup Outcomes,
         Answering(r, s), UNCHANGED <<conn, session>>,
         GatewaysOK', Later(gateway, gateway'), gateway'[r.job].state = s,
         s = "gone" => r.kind \in Recoveries \cup {"poll", "refresh"}
  PROVE  IInv'
<1> DEFINE q == [r EXCEPT !.answer = s]
<1>1. /\ r \in Requests /\ r.server \in Servers /\ r.job \in Jobs
      /\ gateway[r.job].server = r.server
      /\ gateway[r.job].state # "absent"
  BY AskedOfNow
<1>2. s \in Answers
  BY DEF Answers, ServerWords, IsOutcome
<1>3. /\ q \in Requests /\ q.id = r.id /\ q.kind = r.kind /\ q.server = r.server
      /\ q.mine /\ q.contact = r.contact /\ q.job = r.job /\ q.answer = s
  BY <1>1, <1>2 DEF Requests
<1>4. gen' = [gen EXCEPT !.requests = (@ \ {r}) \cup {q}]
  BY DEF Answering
<1> HIDE DEF q
<1>5. ControllerOK(gen, gateway')
  BY LaterOK DEF IInv
<1>6. AnswerIsTrue(q, gateway')
  BY <1>1, <1>3 DEF AnswerIsTrue, Later
<1>7. ControllerOK(gen', gateway') /\ Onward(gen, gen') /\ NoNewIds(gen, gen')
  BY <1>3, <1>4, <1>5, <1>6, AnsweringOK
<1> QED
  BY <1>7, FreeIdKept, Onwards DEF IInv

LEMMA ServeCancelStep ==
  ASSUME IInv, NEW r \in gen.requests, ServeCancel(r) PROVE IInv'
<1>1. r.kind = "cancel" /\ UNCHANGED <<conn, session>>
  BY DEF ServeCancel
<1>2. r.mine
  BY <1>1 DEF IInv, ControllerOK, Sound, Attributed
<1>3. /\ r.job \in Jobs
      /\ gateway[r.job].state \in {"queued", "running"} \cup Outcomes
  BY <1>1, <1>2, AskedOfNow DEF ServeCancel
<1>4. PICK s \in {gateway[r.job].state} \cup (Outcomes \cap {"cancelled"}) :
        /\ gateway[r.job].state \in Outcomes => s = gateway[r.job].state
        /\ gateway' = [gateway EXCEPT ![r.job].state = s]
        /\ Answering(r, s)
  BY DEF ServeCancel
<1>5. s \in {"queued", "running"} \cup Outcomes
  BY <1>3
<1>6. GatewaysOK' /\ Later(gateway, gateway') /\ gateway'[r.job].state = s
  BY <1>3, <1>4, <1>5 DEF IInv, GatewaysOK, Later, IsOutcome
<1> QED
  BY <1>1, <1>2, <1>4, <1>5, <1>6, AnswerStep

LEMMA ServeSnapshotStep ==
  ASSUME IInv, NEW r \in gen.requests, ServeSnapshot(r) PROVE IInv'
<1>1. /\ r.kind \in Recoveries \cup {"poll", "refresh", "socket"} /\ r.mine
      /\ r.kind = "socket" => gateway[r.job].state # "gone"
      /\ Answering(r, gateway[r.job].state)
      /\ UNCHANGED <<conn, session, gateway>>
  BY DEF ServeSnapshot
<1>2. gateway[r.job].state \in {"queued", "running", "gone"} \cup Outcomes
  BY <1>1, AskedOfNow DEF Recoveries
<1>3. GatewaysOK' /\ Later(gateway, gateway')
  BY <1>1 DEF IInv, GatewaysOK, Later
<1>4. r.kind # "submit"
  BY <1>1 DEF Recoveries
<1> QED
  BY <1>1, <1>2, <1>3, <1>4, AnswerStep

\* What arrives, and only the controller hears.
LEMMA QuietStep ==
  ASSUME IInv, NEW g, Quietly(g), ControllerOK(g, gateway), Onward(gen, g)
  PROVE  IInv'
BY WithinFree, Onwards DEF IInv, Quietly, GatewaysOK

LEMMA PollLostStep == ASSUME IInv, NEW r \in gen.requests, PollLost(r) PROVE IInv'
<1> DEFINE h == PollFailed(Without(gen, r), r)
<1>1. /\ ControllerOK(h, gateway) /\ Onward(gen, h) /\ NoNewIds(gen, h)
      /\ SpendsBudget(gen, r) => h.state \in {"interrupted"} \cup IsOutcome
  BY PollFailedOK DEF IInv, PollLost
<1>2. CASE SpendsBudget(gen, r) /\ ~IsReconnecting
  <2>1. Begin(h) /\ Within /\ UNCHANGED gateway
    BY <1>2 DEF PollLost
  <2> HIDE DEF h
  <2>2. gen.endpoint # NoServer
    BY <1>2 DEF IInv, ControllerOK, Sound, Attributed, SpendsBudget
  <2>3. h.state \notin {"disconnected", "ready", "connecting"}
    BY <1>1, <1>2 DEF IsOutcome
  <2>4. HasFreeId(h)
    BY <1>1, FreeIdKept DEF IInv
  <2> QED
    BY <1>1, <1>2, <2>1, <2>2, <2>3, <2>4, BeginStep
<1>3. CASE ~(SpendsBudget(gen, r) /\ ~IsReconnecting)
  BY <1>1, <1>3, QuietStep DEF PollLost
<1> QED
  BY <1>2, <1>3

LEMMA LastStepOverStep ==
  ASSUME IInv, NEW r \in gen.requests, LastStepOver(r) PROVE IInv'
<1> DEFINE f == Without(gen, r)
<1>1. r.kind = "lastStep" /\ UNCHANGED <<conn, gateway>> /\ Within
  BY DEF LastStepOver
<1>2. /\ \A q \in f.requests : q.kind # "lastStep"
      /\ session.waits = "recover"
  BY <1>1 DEF IInv, SessionOK, ControllerOK, Sound, Controllers, Without
<1>3. \E k : /\ gen' = EndReconnect(k, TRUE)
             /\ ControllerOK(k, gateway) /\ Onward(gen, k) /\ NoNewLastStep(f, k)
  <2>1. CASE /\ ~r.mine \/ r.answer # NoAnswer
             /\ gen' = EndReconnect(Recovered(f, r), TRUE)
    BY <1>1, <2>1, RecoveredOK DEF IInv, Recoveries, Onward
  <2>2. CASE gen' = EndReconnect(RecoverFailed(f, r), TRUE)
    BY <1>1, <2>2, RecoverFailedOK DEF IInv, Recoveries
  <2> QED
    BY <2>1, <2>2 DEF LastStepOver
<1> HIDE DEF f
<1>4. PICK k : /\ gen' = EndReconnect(k, TRUE)
               /\ ControllerOK(k, gateway) /\ Onward(gen, k) /\ NoNewLastStep(f, k)
  BY <1>3
<1>5. k.state # "reconnecting"
  BY <1>4 DEF IInv, PhaseIsShown, Onward, Detached
<1>6. /\ ControllerOK(gen', gateway') /\ NoNewLastStep(k, gen')
      /\ ~gen'.reconnecting /\ SameShown(k, gen') /\ SameJob(k, gen')
  BY <1>1, <1>4, <1>5, EndReconnectOK
<1>7. HasFreeId(gen')
  BY <1>1, <1>6, WithinFree
<1>8. /\ session' \in Sessions /\ session'.waits = "none"
      /\ session'.attached = session.attached
  BY DEF IInv, SessionOK, Sessions, LastStepOver
<1>9. ConnectionOK'
  BY <1>1, <1>4, <1>6, <1>8
  DEF IInv, ConnectionOK, Busy, IsReconnecting, SameJob, Onward
<1>10. SessionOK'
  BY <1>1, <1>2, <1>4, <1>6, <1>8 DEF IInv, SessionOK, IsReconnecting, NoNewLastStep
<1>11. PhaseIsShown' /\ GatewaysOK'
  BY <1>1, <1>4, <1>5, <1>6, <1>8
  DEF IInv, GatewaysOK, PhaseIsShown, SameShown, Onward, Detached
<1> QED
  BY <1>6, <1>7, <1>9, <1>10, <1>11 DEF IInv

\* A socket's message is taken, and heard.
LEMMA SocketSaysStep == ASSUME IInv, NEW r \in gen.requests, SocketSays(r) PROVE IInv'
<1> DEFINE q == [r EXCEPT !.answer = NoAnswer]
           g == [gen EXCEPT !.requests = (@ \ {r}) \cup {q}]
<1>1. PICK empty \in BOOLEAN : Quietly(Heard(g, r.answer, empty))
  BY DEF SocketSays
<1>2. r.kind = "socket" /\ r.answer # NoAnswer
  BY DEF SocketSays
<1>3. r.mine /\ r \in Requests /\ AnswerIsTrue(r, gateway) /\ gen.job # NoJob
      /\ r.job = gen.job /\ gen.endpoint \in Servers
  BY <1>2 DEF IInv, ControllerOK, Sound, Controllers, Attributed, Requests
<1>4. /\ q \in Requests /\ q.id = r.id /\ q.kind = r.kind /\ q.server = r.server
      /\ q.mine /\ q.contact = r.contact /\ q.job = r.job /\ q.answer = NoAnswer
  BY <1>3 DEF Requests, Answers
<1> HIDE DEF q
<1>5. AnswerIsTrue(q, gateway)
  BY <1>4 DEF AnswerIsTrue
<1>6. /\ ControllerOK(g, gateway) /\ Onward(gen, g) /\ NoNewIds(gen, g)
      /\ SameJob(gen, g)
  BY <1>3, <1>4, <1>5, AnsweringOK DEF IInv
<1>7. /\ r.answer \in ServerWords
      /\ r.answer \in IsOutcome => gateway[gen.job].state \in {r.answer, "gone"}
  BY <1>2, <1>3 DEF AnswerIsTrue, Requests, Answers, Recoveries
<1> HIDE DEF g
<1>8. HasFreeId(g)
  BY <1>6, FreeIdKept DEF IInv
<1>9. /\ ControllerOK(Heard(g, r.answer, empty), gateway)
      /\ Onward(g, Heard(g, r.answer, empty))
  BY <1>3, <1>6, <1>7, <1>8, HeardOK DEF SameJob
<1> QED
  BY <1>1, <1>6, <1>9, OnwardTransitive, QuietStep

\* The other answers and failures, each by the method it is given to.
LEMMA ArriveStep == ASSUME IInv, NEW r \in gen.requests, Arrive(r) PROVE IInv'
<1>1. CASE SubmitAnswered(r)
  BY <1>1, SubmittedOK, QuietStep DEF SubmitAnswered, IInv
<1>2. CASE SubmitLost(r)
  BY <1>2, SubmitFailedOK, QuietStep DEF SubmitLost, IInv
<1>3. CASE CancelAnswered(r)
  BY <1>3, CancelledOK, QuietStep DEF CancelAnswered, IInv
<1>4. CASE CancelLost(r)
  BY <1>4, CancelledOK, QuietStep DEF CancelLost, IInv
<1>5. CASE PollAnswered(r)
  BY <1>5, PolledOK, QuietStep DEF PollAnswered, IInv
<1>6. CASE PollLost(r)
  BY <1>6, PollLostStep
<1>7. CASE RecoverAnswered(r)
  BY <1>7, RecoveredOK, QuietStep DEF RecoverAnswered, IInv, Recoveries
<1>8. CASE RecoverLost(r)
  BY <1>8, RecoverFailedOK, QuietStep DEF RecoverLost, IInv, Recoveries
<1>9. CASE LastStepOver(r)
  BY <1>9, LastStepOverStep
<1>10. CASE RefreshOver(r)
  BY <1>10, RefreshedOK, QuietStep DEF RefreshOver, IInv
<1>11. CASE SocketOpens(r)
  BY <1>11, OpenedOK, QuietStep DEF SocketOpens, IInv
<1>12. CASE SocketRefused(r)
  <2> DEFINE f == Without(gen, r)
  <2>1. ControllerOK(f, gateway) /\ Onward(gen, f) /\ NoNewIds(gen, f)
    BY <1>12, WithoutOK
    DEF SocketRefused, IInv, ControllerOK, Onward, SameShown, SameJob, SameMarks, Recoveries
  <2>2. Quietly(StartPolling(f))
    BY <1>12 DEF SocketRefused
  <2> HIDE DEF f
  <2>3. HasFreeId(f)
    BY <2>1, FreeIdKept DEF IInv
  <2> QED
    BY <2>1, <2>2, <2>3, StartPollingOK, OnwardTransitive, QuietStep
<1>13. CASE SocketSays(r)
  BY <1>13, SocketSaysStep
<1>14. CASE SocketEnds(r)
  BY <1>14, SocketLostOK, QuietStep DEF SocketEnds, IInv
<1> QED
  BY <1>1, <1>2, <1>3, <1>4, <1>5, <1>6, <1>7, <1>8, <1>9, <1>10, <1>11, <1>12, <1>13,
     <1>14 DEF Arrive

LEMMA InitIInv == Init => IInv
<1> SUFFICES ASSUME Init PROVE IInv
  OBVIOUS
<1>1. gen = NewController
  BY DEF Init
<1>2. gen \in Controllers
  BY <1>1 DEF NewController, Controllers, States, NoSocket
<1>3. /\ gen.requests = {} /\ gen.job = NoJob /\ gen.socket = NoSocket
      /\ ~gen.cancelRequested /\ ~gen.reconnecting /\ gen.state = "disconnected"
      /\ gen.endpoint = NoServer
  BY <1>1 DEF NewController
<1>4. ControllerOK(gen, gateway)
  BY <1>2, <1>3 DEF ControllerOK, Sound, Identified, Attributed, JobIsKnown, SocketIsOut,
     CheckIsOut, CancelIsOut, NothingForgotten
<1>5. HasFreeId(gen)
  BY <1>3 DEF HasFreeId, Ids
<1>6. GatewaysOK
  BY DEF Init, GatewaysOK
<1>7. ConnectionOK
  BY <1>3 DEF Init, ConnectionOK, Connections, Phases, Busy, IsReconnecting
<1>8. SessionOK
  BY <1>3 DEF Init, SessionOK, Sessions, Phases, IsReconnecting
<1>9. PhaseIsShown
  BY <1>3 DEF Init, PhaseIsShown
<1> QED
  BY <1>4, <1>5, <1>6, <1>7, <1>8, <1>9 DEF IInv

LEMMA NextIInv == IInv /\ [Next]_vars => IInv'
<1> SUFFICES ASSUME IInv, [Next]_vars PROVE IInv'
  OBVIOUS
<1>1. CASE Start
  BY <1>1, StartStep
<1>2. CASE User
  <2>1. CASE \E s \in Servers : ConnectTo(s)
    BY <2>1, ConnectToStep
  <2>2. CASE Generate \/ CancelJob \/ BackToTheForm
    BY <2>2, GenerateStep, CancelJobStep, BackToTheFormStep
  <2>3. CASE Reconnect \/ RefreshIdentity \/ ChooseAnotherServer
    BY <2>3, ReconnectStep, RefreshIdentityStep, ChooseAnotherServerStep
  <2> QED
    BY <1>2, <2>1, <2>2, <2>3 DEF User
<1>3. CASE Handshake
  BY <1>3, AcceptStep, AcceptedStep, StartAgainStep, HandshakeFailsStep, ProbeFailsStep
  DEF Handshake
<1>4. CASE ProbeAgain \/ Reloaded \/ PollTick
  BY <1>4, ProbeAgainStep, ReloadedStep, PollTickStep
<1>5. CASE Gateways
  BY <1>5, JobMovesStep, GatewayRestartsStep DEF Gateways
<1>6. CASE \E r \in gen.requests : Serve(r) \/ Arrive(r)
  BY <1>6, ServeSubmitStep, ServeCancelStep, ServeSnapshotStep, ArriveStep DEF Serve
<1>7. CASE UNCHANGED vars
  BY <1>7 DEF vars, IInv, ControllerOK, GatewaysOK, ConnectionOK, SessionOK, PhaseIsShown,
     Busy, IsReconnecting
<1> QED
  BY <1>1, <1>2, <1>3, <1>4, <1>5, <1>6, <1>7 DEF Next

(***************************************************************************)
(* The theorems.                                                           *)
(***************************************************************************)

\* The inductive invariant: what every method of generation_controller.dart keeps, and
\* the agreement of the controller with the session and the connection around it.
THEOREM SessionInvariant == Spec => []IInv
  BY InitIInv, NextIInv, PTL DEF Spec

\* Whatever answer arrives after a move, the job the app holds is one of the server it
\* is attached to (attach, generation_controller.dart).
THEOREM JobsStayWithTheirServer == Spec => []JobIsOfThisServer
<1>1. IInv => JobIsOfThisServer
  BY DEF IInv, ControllerOK, Sound, JobIsKnown, JobIsOfThisServer
<1> QED
  BY <1>1, SessionInvariant, PTL

\* An outcome, or a loss, that the app shows is what the gateway made of the job
\* (_applyServerState and _markJobGone, generation_controller.dart).
THEOREM OutcomesAreProven == Spec => []WhatIsShownIsProven
<1>1. IInv => WhatIsShownIsProven
  BY DEF IInv, ControllerOK, Sound, JobIsKnown, WhatIsShownIsProven
<1> QED
  BY <1>1, SessionInvariant, PTL

\* A check that is shown is out, a reconnect that is shown runs, and a cancel that is
\* shown has no answer yet (generation_controller.dart, session_controller.dart).
THEOREM ClaimsStayTrue == Spec => []ClaimsAreTrue
<1>1. IInv => ClaimsAreTrue
  BY DEF IInv, ControllerOK, CheckIsOut, CancelIsOut, SessionOK, ClaimsAreTrue, Asked, Current
<1> QED
  BY <1>1, SessionInvariant, PTL

\* A form that is ready has no job whose fate is unknown, unless it is being asked about
\* (recoverJob, generation_controller.dart).
THEOREM JobsAreNotForgotten == Spec => []NoJobForgotten
<1>1. IInv => NoJobForgotten
  BY DEF IInv, ControllerOK, NothingForgotten, NoJobForgotten, Asked, Current
<1> QED
  BY <1>1, SessionInvariant, PTL
=============================================================================
