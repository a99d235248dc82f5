---------------------------- MODULE EventStream ----------------------------
(***************************************************************************)
(* WS /api/v1/jobs/{job_id}/events (api/events.py) and the watching half   *)
(* of the job store (published, wait_for_change), over the abstract        *)
(* specification of what the store publishes: every behaviour of JobView,  *)
(* whichever handlers cause it, drives the streams.                        *)
(*                                                                         *)
(* A stream sends what changed since the last snapshot it sent, one        *)
(* message per field, and its client folds the messages into a snapshot.   *)
(* The store's version counter is compared by a stream only for equality   *)
(* with the version it read last, so it is kept as one bit for each stream *)
(* that every publication of its job sets.                                 *)
(***************************************************************************)
EXTENDS JobView, Naturals, Sequences

CONSTANTS
  Streams,   \* the connections clients ever open
  MaxUnread  \* bound on the messages under way when the next batch is sent

ASSUME MaxUnreadAssumption == MaxUnread \in Nat

VARIABLES
  phase,    \* where the handler of each stream is
  watched,  \* the job each stream is about
  moved,    \* the version moved past the one the stream read last
  sent,     \* the last snapshot the stream sent the changes of
  wire,     \* the messages sent and not yet received
  client,   \* the snapshot the client has folded the messages into
  gone      \* the client went away (the asyncio.Event of that name)

streamVars == <<phase, watched, moved, sent, wire, client, gone>>
vars == <<viewVars, streamVars>>

Phases == {"none", "opening", "read", "wait", "poll", "closed"}

Message == [type : {"progress"}, value : Steps]
             \cup [type : {"result", "error"}, value : {NoProgress}]
             \cup [type : {"state"}, value : JobStates]

StreamInit ==
  /\ phase = [s \in Streams |-> "none"]
  /\ watched \in [Streams -> Jobs]
  /\ moved = [s \in Streams |-> FALSE]
  /\ sent = [s \in Streams |-> NoSnapshot]
  /\ wire = [s \in Streams |-> <<>>]
  /\ client = [s \in Streams |-> NoSnapshot]
  /\ gone = [s \in Streams |-> FALSE]

Init == ViewInit /\ StreamInit

Goto(s, label) == phase' = [phase EXCEPT ![s] = label]

\* Mutant of Deltas: the state goes before its payload.
DeltasStateFirst(previous, current) ==
  LET Say(condition, message) == IF condition THEN <<message>> ELSE <<>>
  IN  Say(current.state # previous.state,
          [type |-> "state", value |-> current.state])
   \o Say(current.progress \notin {NoProgress, previous.progress},
          [type |-> "progress", value |-> current.progress])
   \o Say(current.results /\ ~previous.results,
          [type |-> "result", value |-> NoProgress])
   \o Say(current.error /\ ~previous.error,
          [type |-> "error", value |-> NoProgress])

\* A message for every field that changed and has something to say, the state
\* last.  A field that became empty again is not mentioned.
Deltas(previous, current) ==
  LET Say(condition, message) == IF condition THEN <<message>> ELSE <<>>
  IN  Say(current.progress \notin {NoProgress, previous.progress},
          [type |-> "progress", value |-> current.progress])
   \o Say(current.results /\ ~previous.results,
          [type |-> "result", value |-> NoProgress])
   \o Say(current.error /\ ~previous.error,
          [type |-> "error", value |-> NoProgress])
   \o Say(current.state # previous.state,
          [type |-> "state", value |-> current.state])

\* What the client makes of one message.
Fold(snapshot, message) ==
  CASE message.type = "progress" -> [snapshot EXCEPT !.progress = message.value]
    [] message.type = "result"   -> [snapshot EXCEPT !.results = TRUE]
    [] message.type = "error"    -> [snapshot EXCEPT !.error = TRUE]
    [] message.type = "state"    -> [snapshot EXCEPT !.state = message.value]

\* An unknown job is refused (close code 1008) and nothing starts.  A client that
\* reconnects gets a stream of its own: nothing of the old one is kept.
Open(s, j) ==
  /\ phase[s] = "none"
  /\ view[j] # NoSnapshot
  /\ watched' = [watched EXCEPT ![s] = j]
  /\ moved' = [moved EXCEPT ![s] = FALSE]
  /\ Goto(s, "opening")
  /\ UNCHANGED <<viewVars, sent, wire, client, gone>>

\* store.snapshot: whatever it publishes is a step of JobView on its own.
Refreshed(s) ==
  /\ phase[s] \in {"opening", "poll"}
  /\ Goto(s, "read")
  /\ UNCHANGED <<viewVars, watched, moved, sent, wire, client, gone>>

\* Mutant of ReadPublished: an outcome does not end the loop.
ReadPublishedGoesOn(s) ==
  /\ phase[s] = "read"
  /\ Len(wire[s]) <= MaxUnread
  /\ LET current == view[watched[s]]
     IN  /\ wire' = [wire EXCEPT ![s] = @ \o Deltas(sent[s], current)]
         /\ sent' = [sent EXCEPT ![s] = current]
         /\ Goto(s, IF gone[s] THEN "closed" ELSE "wait")
  /\ moved' = [moved EXCEPT ![s] = FALSE]
  /\ UNCHANGED <<viewVars, watched, client, gone>>

\* published() returns version and view under one lock; then the changes go out,
\* and the loop's condition is evaluated on that same view.
ReadPublished(s) ==
  /\ phase[s] = "read"
  /\ Len(wire[s]) <= MaxUnread
  /\ LET current == view[watched[s]]
     IN  /\ wire' = [wire EXCEPT ![s] = IF gone[s] THEN <<>>
                                            ELSE @ \o Deltas(sent[s], current)]
         /\ sent' = [sent EXCEPT ![s] = current]
         /\ Goto(s, IF current.state \in Terminal \/ gone[s] THEN "closed"
                    ELSE "wait")
  /\ moved' = [moved EXCEPT ![s] = FALSE]
  /\ UNCHANGED <<viewVars, watched, client, gone>>

\* wait_for_change returns because the version moved.
Woken(s) ==
  /\ phase[s] = "wait"
  /\ moved[s]
  /\ Goto(s, IF gone[s] THEN "closed" ELSE "read")
  /\ UNCHANGED <<viewVars, watched, moved, sent, wire, client, gone>>

\* It returns after POLL_SECONDS, and the version had not moved.
WaitTimesOut(s) ==
  /\ phase[s] = "wait"
  /\ ~moved[s]
  /\ Goto(s, IF gone[s] THEN "closed" ELSE "poll")
  /\ UNCHANGED <<viewVars, watched, moved, sent, wire, client, gone>>

Receive(s) ==
  /\ ~gone[s]
  /\ wire[s] # <<>>
  /\ client' = [client EXCEPT ![s] = Fold(@, Head(wire[s]))]
  /\ wire' = [wire EXCEPT ![s] = Tail(@)]
  /\ UNCHANGED <<viewVars, phase, watched, moved, sent, gone>>

\* The client leaves, or the connection is lost: what was under way is lost too.
Disconnect(s) ==
  /\ phase[s] # "none"
  /\ ~gone[s]
  /\ gone' = [gone EXCEPT ![s] = TRUE]
  /\ wire' = [wire EXCEPT ![s] = <<>>]
  /\ UNCHANGED <<viewVars, phase, watched, moved, sent, client>>

\* Mutant of StorePublishes: progress alone wakes nobody.
StorePublishesStates ==
  /\ ViewNext
  /\ moved' = [s \in Streams |->
                 moved[s] \/ view'[watched[s]].state # view[watched[s]].state]
  /\ UNCHANGED <<phase, watched, sent, wire, client, gone>>

\* The store publishes, which wakes every stream of that job.
StorePublishes ==
  /\ ViewNext
  /\ moved' = [s \in Streams |->
                 moved[s] \/ view'[watched[s]] # view[watched[s]]]
  /\ UNCHANGED <<phase, watched, sent, wire, client, gone>>

Handle(s) ==
  Refreshed(s) \/ ReadPublished(s) \/ Woken(s) \/ WaitTimesOut(s)

Next ==
  \/ StorePublishes
  \/ \E s \in Streams :
       \/ \E j \in Jobs : Open(s, j)
       \/ Handle(s)
       \/ Receive(s)
       \/ Disconnect(s)

Spec == Init /\ [][Next]_vars

\* The event loop runs every handler, and the transport delivers.
FairSpec ==
  /\ Spec
  /\ \A s \in Streams : WF_vars(Handle(s)) /\ WF_vars(Receive(s))

(***************************************************************************)
(* Properties.                                                             *)
(***************************************************************************)

\* Every variable has its type: a message carries what its type is about.
StreamTypeOK ==
  /\ phase \in [Streams -> Phases]
  /\ watched \in [Streams -> Jobs]
  /\ moved \in [Streams -> BOOLEAN]
  /\ sent \in [Streams -> Snapshots \cup {NoSnapshot}]
  /\ wire \in [Streams -> Seq(Message)]
  /\ client \in [Streams -> [state : JobStates \cup {"unknown"},
                             progress : Progresses,
                             results : BOOLEAN, error : BOOLEAN]]
  /\ gone \in [Streams -> BOOLEAN]

\* "a client acting on completed already holds the results, and one acting on
\* failed already holds the message" (api/events.py): at whatever message the
\* connection is cut.
OutcomeArrivesWhole ==
  \A s \in Streams :
    /\ client[s].state = "completed" => client[s].results
    /\ client[s].state = "failed" => client[s].error

\* Nothing is missed: when a stream waits and everything it sent was received,
\* the client holds the state that is published, unless the store has moved and
\* the stream is about to be woken for it.
NothingMissed ==
  \A s \in Streams :
    phase[s] = "wait" /\ ~gone[s] /\ wire[s] = <<>> /\ ~moved[s] =>
      LET current == view[watched[s]]
      IN  /\ client[s].state = current.state
          /\ current.progress # NoProgress => client[s].progress = current.progress
          /\ current.results => client[s].results
          /\ current.error => client[s].error

\* A client that stays connected learns of an outcome that lasts, and the stream
\* is then closed: no wake-up is lost between reading and waiting.
OutcomeIsDelivered ==
  \A s \in Streams :
    <>[](view[watched[s]].state \in Terminal /\ phase[s] # "none" /\ ~gone[s])
      => <>(phase[s] = "closed" /\ client[s].state \in Terminal)
=============================================================================
