# LocalCanvas: a verification project

TLA+ models of LocalCanvas, the configurations that check them with TLC, and
theorems about them checked by TLAPS. Paths below are relative to the
repository's source; `jobs.py` and other gateway files are under
`gateway/localcanvas_gateway/`, the app's files under `app/lib/`.

## The system

LocalCanvas lets an Android app run ComfyUI workflows on a PC of the same
network. The *gateway* (Python, FastAPI) stands between them: it shows forms
instead of graphs, accepts submissions, and follows ComfyUI's queue and history
to say what became of each job. The *launcher* (C#, Windows tray) and a set of
PowerShell scripts start, watch and stop the processes. *Workflow sync* turns the
workflows found on disk into the gateway's definitions.

    app  -- HTTP and one websocket per job -->  gateway  -- HTTP -->  ComfyUI
                                                         <-- websocket --
    launcher  -- scripts, health probe -->  gateway, ComfyUI

| Component | State | Operations | What is hard |
|---|---|---|---|
| Job store and routes (`jobs.py`, `api/jobs.py`) | `Job` objects, published views, one lock | submit, snapshot, cancel, refresh, note_progress, note_change | every request runs in a thread; two HTTP calls before the lock; two holds of the lock for one outcome; lost answers; ComfyUI has no call that names the prompt to interrupt |
| Event stream (`api/events.py`) | what was last sent, the version last seen | open, poll, send deltas, close | changes between the look and the wait; order of deltas; close only after the outcome |
| ComfyUI client and socket (`comfy/client.py`, `comfy/events.py`) | the prompt last seen executing | submit, history, queue place, delete, interrupt; progress | a failed call may have taken effect; the gap between queue and history; restarts |
| App generation (`generation/`) | lifecycle state, recovery, job, socket or poll, failure count | attach, submit, cancel, recover, follow, poll | outstanding answers of older requests, several followers, moves to another server |
| App session and connection (`generation/session_controller.dart`, `connection/`) | phase, endpoint, attempt count | start, connect, reconnect, choose another server | operations that overlap; bounded attempts |
| App workflows, drafts, media fields (`workflows/`, `media/`) | lists, forms, drafts, picked files | load, select, refresh, pick, upload | overlapping fetches, an upload that ends after a newer pick |
| Media store (`media.py`, `api/media.py`) | items by id (reserved or settled), their files, expiry | store, get, reap, evict, close | sweeps by one request among the uploads and transfers of others; files that cannot be unlinked |
| Translation (`translation/`) | warmed pairs | prepare, warm, apply | pairs that fail while others work; what must not be translated |
| Validation, definitions, registry (`validation.py`, `workflows/`) | none, or a loaded list | load, validate, bind | numeric boundaries, files that claim one id |
| Workflow sync (`workflows/sync/engine.py`, `inventory.py`) | inventory, definitions and graphs on disk | one run: discover, match, write | stable identities, a stop between two writes |
| Canvas conversion (`workflows/sync/bridge.py`) | snapshots, one browser | establish, reuse, convert, store, close | late answers, a ComfyUI replaced under the run, what is left when it stops |
| Workflow analysis (`workflows/sync/analysis.py`, `semantics.py`, `contract.py`, `definitions.py`) | none | read a graph, judge each input, group, name, write a definition | rules that must agree with each other and survive a re-export |
| Launcher (`launcher/`) | phase, health, queue of commands, exit claim | start, restart, sync, exit, session end, health tick | commands racing an exit; bounded waits |
| Scripts (`scripts/`) | processes, firewall rules | start, stop, status, setup | process glue |

The properties that make each correct are the hazards of `PROJECT.json`, each at
its line, with the property that covers it or the reason why none does.

## Modules

| Module | Models | Extends |
|---|---|---|
| `ComfyUI` | ComfyUI as the client uses it: a queue, one executor, a history entry written some time after the prompt left the queue, restarts, other clients | |
| `JobSnapshot` | the shape of a published job, shared by the two levels; `Coherent` | |
| `JobView` | **abstract**: what the store promises its readers. A job appears queued; any later publication is coherent, a first outcome is the prompt's real fate or a cancellation somebody asked for | `JobSnapshot` |
| `JobStore` | **detailed**: the store, its lock and its threads, step by step | `ComfyUI`, `JobSnapshot` |
| `EventStream` | one websocket per stream over the published view, and the app's fold of its messages | `JobView` |
| `GenerationController` | the app's generation controller: its record, and each method as an operator from the record to the record it leaves, with the requests that are out as part of it | |
| `AppSession` | the connection and session controllers, the generation they drive, the user, and gateways that answer late, restart or do not answer | `GenerationController` |
| `MediaStore` | the temporary media store: upload threads, sweeps, and the resolver that hands files to ComfyUI | |
| `PromptTranslation` | a text's spans, what is quoted, what language the rest is in, and its reassembly; the character-by-character reading it is held to | |
| `FormFields` | when a definition loads, when a submission's values are accepted, and the values written into a copy of the graph | `PromptTranslation` |
| `Submission` | from the definition files to the prompt: the registry, the forms served, and several submissions at once | `FormFields` |
| `WorkflowSync` | one sync after another: files, inventory, definitions, graphs, and the person who edits them | |
| `ConversionBridge` | how a sync gets a graph for a canvas: identity, snapshots, one browser with ComfyUI's page | |
| `InputSemantics` | what a graph's input is, by its name and its value (`semantics.py`) | |
| `RuntimeContract` | what the runtime declares about an input (`contract.py`) | `InputSemantics` |
| `GraphAnalysis` | wiring, fingerprints of nodes, the judgement of each input, its role | `RuntimeContract` |
| `FieldPlan` | which inputs are one field; its id, type, range, options and label | `GraphAnalysis` |
| `WorkflowImport` | a graph read input after input into a plan, exported again by its author, and read again | `FieldPlan` |
| `GeneratedDefinition` | the definition written from a plan, given to the loader of `FormFields` | `WorkflowImport`; `INSTANCE FormFields` |
| `LauncherLifecycle` | the launcher's queue and its one consumer, the scripts it runs and gives up, the monitor, the end of a Windows session | |
| `MC...` | what TLC instantiates: values of the constants, and the graphs, documents and inputs a run starts from | the module named |
| `JobStore_proofs`, `EventStream_proofs`, `AppSession_proofs`, `WorkflowSync_proofs`, `ConversionBridge_proofs`, `WorkflowImport_proofs`, `LauncherLifecycle_proofs` | the inductive invariant of the module named, and the theorems that follow; `WorkflowImport_proofs` also shows that what is written from a plan loads | the module named; `WorkflowImport_proofs` extends `GeneratedDefinition` |
| `Inputs_proofs` | the same of the two modules that say what a submission is made of | `MediaStore`, `Submission` |

Composition: `JobStore` refines `JobView` (`Promised == INSTANCE JobView WITH ...`),
and `EventStream` is built over `JobView` alone, so what is shown of the stream holds
of any store that publishes what `JobView` allows. `GeneratedDefinition` gives what
the importer writes to the same loader a gateway starts with. `WorkflowSync` takes of
the bridge that a run may or may not get a graph for a canvas, and `ConversionBridge`
shows whose graph it is; of the analysis it takes that a pair of a graph and a
contract is settled or not, and `WorkflowImport` shows what is settled.

A comment "a mistake to catch" or "mutant of" marks an operator that no model uses: it
is how a plausible slip in the code would read, kept beside the definition it
would replace, to show that the property it is named with would notice.

### JobStore and the code

A *worker* is a thread of the gateway that is inside the store: a request, the
poll of a stream, or a lifecycle event of ComfyUI's socket. `pc[w]` is cut where
the code calls ComfyUI or releases the lock:

| Label | Code |
|---|---|
| `submit`, `create` | `submit_job` (api/jobs.py:142, 162): ComfyUI first, the store after |
| `check` | `refresh`, jobs.py:313: the only check for an outcome, without the lock |
| `history`, `queue` | jobs.py:316, 330: the two calls |
| `apply`, `settle` | `_apply_history` under the lock: the state, then the payload; two steps because a reader without the lock can come between |
| `publish` | jobs.py:327: the second hold of the lock |
| `applyQueue` | jobs.py:336-366, one hold: a sighting, a confirmed deletion, or the gap |
| `decide`, `locate`, `delete`, `mark`, `interrupt` | `cancel` after its first refresh, jobs.py:438-471 |
| `respond`, `payload` | `to_view`, called by the routes after the lock was released |

Every call can fail before it took effect or after (`SubmitFails`,
`DeliveryFails`): the worker then returns as the code's `except` does. A
`snapshot`, a `change` (nobody is answered) and a `cancel` share `refresh`.

Data is reduced to what the properties tell apart: results and error are present
or absent, progress is a step or none, an id is a model value. A job and its
prompt share one id. A completed prompt is taken to have outputs to show; the
code leaves the list empty when a prompt produced none of the known kinds.

### EventStream and the code

`ReadPublished` is one pass of the loop of `job_events`: look at the published
view and version, send the deltas, close after an outcome, otherwise wait. The
refresh in the loop only publishes, and is part of what the store may do at any
time. `wire` is what was sent and not yet folded. A stream that breaks is
closed (`Disconnect`), and the app may open another.

### GenerationController, AppSession and the code

The app runs on one thread, so a step of `AppSession` is what the code does
between two `await`s, with everything it notifies on the way: the connection's
`notifyListeners` reaches `SessionController._onConnectionChanged` (`Told`), which
calls `attach`, `connectionLost` or `recoverJob` in the same step; a poll that
spends its budget calls the session, which begins a reconnect and sends its first
probe (`Begin`).

| State | Code |
|---|---|
| `gen.state`, `recovery`, `reconnecting`, `endpoint`, `job`, `cancelRequested`, `failures` | the fields of the same meaning, generation_controller.dart:225-308 |
| `gen.timer`, `gen.socket` | `_pollTimer`; `_subscription` with its listener |
| `gen.requests` | the futures that are out: submit, cancel, poll, recoveries, refresh, handshake; and the sockets that listen, one of which is `gen.socket` |
| a request's `mine`, `contact` | whether the `_token`, `_contactToken` it captured are still current. A bump clears the mark of what is out. A request whose answer can then change nothing is forgotten, except a poll (it holds `_polling`) and the last step of a reconnect (it is awaited) |
| a request's `answer` | what the gateway answered and the app has not seen |
| `conn` | phase, endpoint, and the operation that holds `isBusy`; an overtaken operation records nothing and is forgotten. `accepted` is the `await` in `_accept` between recording and telling |
| `session.waits` | where the code of `reconnect()` awaits; `made`, `failure`, and `attached`, the phase the session was last told |

`_polling` is not a variable: it is whether a poll is out. A failed request is a
timeout or an error at any time, before the gateway acted or after. A user acts
only through what the screen offers: the shell when the last notified phase is
connected, the connect screen when a server is needed, and nothing in between.
Result bytes, previews, export and the session's history of results change none
of this and are left out.

### MediaStore and the code

Each upload thread walks `MediaStore.store`: `Arrive` (the reap), `Reserve`,
`OpenFile`, `WriteChunk`, then `ReadClock` and `Settle`, or `Abandon` and
`Forget` (the `except`, whose unlink is outside the lock and whose pop is inside
it). Each region under `_lock` is one action. Each submission walks `resolve`:
`Ask` and `LookUp` are the two holds of the lock in `get`, `HandOver` takes the
item's own lock and opens the file, `ComfyStores` and `ComfyFails` are the answer.

| State | Code |
|---|---|
| `held` | `_items`: which upload's item is under an id |
| `upload[u]` | the thread (`at`, `id`, `written`) and the `MediaItem` it made (`bytes`, `created`, `resolved`), which lives on after the store dropped it; `expires_at` is always `created + TTL` |
| `disk`, `leftover` | the files of the store's directory; those whose unlink failed |
| `job[j]` | `ref` is the upload whose 201 the client quotes, `item` what `get` found under its id, `file` what was opened |
| `copies` | the files ComfyUI made of what it was sent, the last one's name |

An upload stands for its item, and an id may be drawn again once its item and
file are gone, so `item` can differ from `ref`; what the properties say of a job
they say of one that got its own. The code has
2^24 ids and the runs two, which makes that frequent. Whether a file somebody has open can be unlinked is the platform's choice:
both outcomes are modelled for a sweep. `Abandon` always removes its file: only
its writer has it open, short of an id drawn again in the moment between look-up
and opening. Of two items created at one instant either may be evicted first
(the code takes the one reserved first). `Close` runs when the server has
answered everything, which is when the framework ends the lifespan.

### PromptTranslation, FormFields, Submission and the code

A submission goes through the stages of `submit_job` that call something else, one
action each, so another client's stages, an edit of a file or a restart can come
between:

| Action | Code |
|---|---|
| `Start`, `Stop` | the registry is loaded once, from the files as they are then; what is served does not follow later edits |
| `GetWorkflow` | the form a client fetches and fills in, which may be of an older gateway than the one it submits to |
| `Submit` | `validate_inputs`: every check of every field, and the refusal that names all of them |
| `Apply`, `ApplyFails` | the translation stage |
| `Bind`, `BindFails` | `bind_values` into a copy of the graph, with `resolve` for its media; ComfyUI may be away |
| `Send` | `comfy.submit` |
| `Edit`, `Expire`, `ComfyGoesOrComes` | the curator, the media's time to live, ComfyUI |

`FormFields` holds `validate_definition` (types, options, defaults, bounds, bindings)
and `validate_inputs` as predicates over a field, a document and a value;
`PromptTranslation` scans a text for quoted literals, recognises the language of what
is outside them, has the cores of the pieces that are in it translated, and puts the
pieces together again. A text is a sequence of kinds of character (a quote, the
escape, white space, the script of a language, English), and a translator is the
external `Answer`: its answer holds no quote of its own. A number is counted in halves, which tells an integer from a fraction.
`bind_values` writes field after field; `BindValues` says what that leaves, input by
input: the value of the last field that names it, or the graph's own.

### WorkflowSync and the code

One run reads at its start and writes at its end. `Start` is the first part of
`run_sync`, which decides everything in memory: `Judged` (`_analyse`),
`IsDuplicate`, `Considered`, `ClaimsByContent` and `ClaimByPath`
(`_match_against_history`, in its phases), `Allocates` (`_allocate_ids`). Then each
file is `Keep`, `Refuse`, `Recognise`, or `Build` followed by `PlaceGraph` and
`PlaceDefinition`; `WriteFails` and `Stop` can come at any write;
`WriteInventory` is last.

| State | Code |
|---|---|
| `source[f]` | what the file at a path holds; paths are numbered in scan order |
| `inventory` | `inventory.json`: entries with id, path, content, canonical form, fingerprint, state |
| `defs`, `graphs` | `<id>.yaml` and the imported copies, whose names carry their content |
| `run` | the run's memory: the rows, the entries used, the file it is at and what it built |

The user moves, swaps, copies and edits sources (`Rearrange`) between runs, and edits
or deletes definitions (`Curate`, `Delete`) at any time, so also between a run's
reading and its writing. A content stands for bytes, `Meaning` for the canonical
form two spellings share (a reformatted copy is of the original's kind:
`MeaningAssumption`), and a run may or may not get a graph for a canvas. A dry
run writes nothing and is left out, and a run whose file names leave no spelling of
an id to try is not begun.

The words of a definition stand in places (`SlotsOf`): one for each field its graph
and contract plan (`FieldsOf`), whose label and help line go the same way and are one
place, and one for the presentation. In a place stand the importer's own words, known
by the graph and contract they were made from, or a person's (`Curator`).
`MergedWords` asks for each place of the new definition what `_field_label`,
`_field_help` and `_merge_presentation` ask: whether the file says something there,
whether there is a record of what was generated, and whether the two are equal. Words
in a place the new definition does not have are not asked for and go. Left out: the
translation setting and the presentation keys that nothing generates, which are
carried whatever happens.

### ConversionBridge and the code

`sync.step` is where the run is: `stats`, `nodes` (the two questions that establish
ComfyUI's identity), `next` (the canvas it is at), `spawn`, `page`, `ready` (a
browser of its own with a profile of its own), `send`, `convert`, `store`, `close`.
A call over the browser's debugging socket has a number; `wire` holds the calls the
page has not answered and the answers nobody has read. A call that is given up stays
there, so `Drop` is what `CdpSession.call` does with an answer to another number.
The page loads from the ComfyUI that runs at that moment, ComfyUI may stop and
start as another version, the browser may die, and `Interrupt` may end the
command at any step, whose `finally` is `Close`. `snapshots` is what earlier runs
stored per bytes and identity.

### The importer's modules and the code

`WorkflowImport` reads a graph as `analyse` does, one literal input after another.
`Consider` takes exactly one of the decisions of the code, in the code's order:
`Lock`, `Hold`, `SetAside`, `HasNoRole`, `Admit`; `Conclude` makes the plan. Then
the author may export the graph again with other node numbers (`Renumber`) or a
number spelt `1.0` that was `1` (`Respell`), and it is read anew; `before` keeps the
first plan.

The rules themselves are operators, in the order in which they rest on each other:
`InputSemantics` (what a name and a value say), `RuntimeContract` (what
`/object_info` declares and what it may overrule), `GraphAnalysis` (upstream and
downstream wiring, fingerprints within a number of hops, the authorities asked one
after another), `FieldPlan` (grouping, the marks that tell groups apart, ids, joint
ranges, options, labels and their rounds of distinction). `GeneratedDefinition`
writes the document and asks `FormFields` whether it loads.

What is abstracted: a text is the set of patterns it matches (`Looks`); a digest is
what it is a digest of, so digests do not collide; a title is taken as already
sanitised; the order of letters is the constant `Alphabet`; and the sentences written for a
curator, help texts and the order of the fields are left out.

### LauncherLifecycle and the code

One consumer takes one work from the queue at a time (`WorkerLoopAsync`), and a
work acts on the runtime only through a script. `work.step` is the place between
two `await`s of the consumer; `Call` starts a script, `ScriptReturns` is its
outcome, `GiveUp` the launcher's patience at its end: the script then stays in
`scripts` and is remembered in `abandoned`, and `ScriptEndsAlone` does what it
was for, later. The steps in `Questions` wait for the user: those that ask, and those that
show what has to be dismissed. One of these is `showLeft`, the message of an incomplete
stop, which stands between the confirmation and `FinishExit` unless the session ends.

| State | Code |
|---|---|
| `queue`, `work` | the channel and its one consumer |
| `commandClaimed`, `exitClaimed`, `tickQueued` | the flags of the same names, which say who may queue what |
| `state`, `gateway` | `LauncherState`; the instance expected, its health and the failures in a row |
| `abandoned`, `anyAbandoned` | the script a given-up call still runs |
| `sessionEnding`, `ui` | the end of the Windows session, whose handler runs on the UI thread: `ClaimSessionEnd` and `UiEnds` are its two halves, and other threads step between them |
| `scripts`, `up` | what runs: scripts, and what they started |
| `leaving`, `finish` | whether the exit says that something may be left, and how it ended |

A script that fails may have done any part of what it is for (`Effects`).

## Runs

The runs of `PROJECT.json`, each with the question it asks. The states are the
distinct ones TLC finds.

| Run | Shows | Bounds | States |
|---|---|---|---|
| `JobStoreConcurrent` | outcomes are ComfyUI's or asked for, complete publication, refinement of `JobView`; liveness `RecordedOutcomeSticks`, and `DeletionIsNoticed` of a deletion no older sighting can take back | one job, two workers, one step count, no restart | 167 k |
| `JobStoreOneThread` | an outcome is final when only one thread is in the store | one job, a foreign prompt, one worker, one restart | 100 k |
| `EventStream` | what the app holds at an outcome is whole, no change is missed, the outcome is delivered | one job, one stream, two step counts | 112 k |
| `StaleRefresh` (violation) | with two threads an outcome is revised | as `JobStoreConcurrent` | |
| `MediaStore` | items have their files, uploads in flight their reservations, every file is known, one hand-over per file | three uploads over two ids, two jobs, files of one or two chunks under a ceiling of two, time to live 1, one tick; symmetry over uploads, ids and jobs | 811 k |
| `AppSession` | the job is this server's, what is shown was proven, what the app claims to do it does, no job is forgotten | two servers, two jobs, two requests at once, one failure spends the budget, one attempt; symmetry over servers and over jobs | 2.7 M |
| `AppReconnect` | a reconnect ends | one server, one job, polling, two attempts, two launch attempts | 240 k |
| `Submission` | what is sent is what was asked of the form, literals survive translation, mending a file takes no other away | two clients (symmetric), two files, two edits, two submissions | 308 k |
| `WorkflowSync` | ids stay unique and with their content, no entry is lost, nor a person's words where the definition still has a place for them, a definition has its graph, a second sync is quiet | two paths; a workflow, a reformatted copy and a canvas; one or two fields with words; one change of the sources, one mishap | 400 k |
| `ConversionBridge` | a graph is of its own bytes and its own ComfyUI, one cause is told alike, no browser is forgotten | three canvases, one content the page refuses, two runs, two polls, two versions, two mishaps | 2.8 M |
| `WorkflowImport` | every input answered for, ids outlive a re-export, joint ranges are safe, labels differ, nothing structural is offered, the definition loads | seven families of small graphs, one kind of difficulty each; no runtime, or one that declares a seed INT, or FLOAT; one re-export | 38 k |
| `LauncherLifecycle` | no two scripts act at once, an exit that says nothing left nothing; liveness of a claimed exit and of a dead Gateway | two failed probes mean down, two requests, one call given up, one crash | 55 k |

**Why these are enough.** Jobs share nothing but the lock, ComfyUI's executor and,
in the app, one connection: one job exercises every race between threads, and a
second prompt is there where the race is between prompts. Two workers suffice for a
race between a reading and a write; the theorems hold for any number. Prompt ids
are never reused, so nothing counts without bound but restarts (`MaxRestarts`) and
the stream's unread messages: `MaxUnread = 0` lets a pass of the loop begin when
what the last one sent was read, and one pass already sends several.

In the app, an older and a newer server, and an older and a newer job, are what a
late answer can confuse. Two requests at once (`MaxRequests`) give an old answer and
the one that overtakes it, and two handshakes; the code's own guards allow little
more (one poll, one cancel). The failure budget is three in the app and one in the
runs, which only makes lost contact nearer.

Three uploads over two ids are the least in which an id is drawn again while another
upload is in flight, and one sweep meets a held, a settling and an unsettled item;
one tick separates what was created before from after.

Two clients and two files are the least for values, forms or graphs of one to reach
the other; two edits break a file and mend it.

Two paths can be swapped, one can be a copy of the other, and one id spelling can be
wanted by both. Each change or mishap can be any of several, at any of a run's steps,
and the runs after it show what became of it; the theorems hold for any number.

Of three canvases two can share bytes and one differ, and one can be refused; two
runs let one remember for the other; two versions are the one established and the
one that comes after.

The graphs of `MCWorkflowImport` are two to four nodes: two stages with equal or
different seeds, twins nothing tells apart, a chain whose middle looks the same two
hops far, numbers wired into what they set, pictures, prompts, and settings only the
runtime can settle. They hold the cases the rules distinguish, not every graph; of
any graph and any contract speak the theorems.

One restart or sync and one exit, or two exits, with one call given up, are what can
claim the launcher against each other. `Cardinality` of what acts is at stake from the second
script on, and one given-up call gives a second.

Deadlock is checked in `EventStream` and `WorkflowSync`. The others may really
stop: a gateway, a launcher or a store ends, or their bounds on edits, exports, runs
or prompts are spent.

### Fairness

`Fairness` of `JobStore`: a thread that was started goes on; a call to ComfyUI that
is repeated is answered some time, history and queue each (strong, because failures
take turns with answers); and each job is asked after again and again, as an open
stream's two-second poll and the app's own polling do. Nothing is assumed of
ComfyUI: it may never run a prompt. Nobody is assumed ever to cancel.
`RecordedOutcomeSticks` assumes in its own statement that history keeps the
outcome, since a restart forgets it.

`AppReconnect` assumes that what has a timeout ends: each request is answered or
fails, a timer goes off, a handshake is decided, the registry's reload comes back.
It is strong where the model's bound on requests can hold a step back between two
answers. Nothing is assumed of the user, nor that a gateway ever answers.

`EventStream` assumes that the loop goes on and that the app reads what was sent; the
delivery of an outcome is claimed while the connection holds.

`LauncherLifecycle` assumes that the consumer goes on (each call returns or its time
is up), that the monitor's timer ticks, that a script which was given up ends, and
that the UI thread, once in the handler of the session's end, goes on. Nothing is
assumed of the user, so `ExitIsDealtWith` allows a question to stay open, and the
message of an incomplete stop not to be dismissed.

The other specifications claim safety only and state no fairness.

## What is proved

For every value of the constants that the named assumptions allow, about 12000
obligations in eight modules. Each argument is an inductive invariant `IInv`:
`Init => IInv`, `IInv /\ [Next]_vars => IInv'`, one lemma or step per action.

**The job store** (`JobStore_proofs`): `TypeCorrect`, `OutcomesAreReal`,
`PublishedInvariants`, `JobStoreImplementsJobView`, which is the refinement, and
`OutcomesStandAlone`. `OutcomeIsComfys` is not inductive: `apply` writes what a worker read
some steps ago. `IInv` adds what keeps it true. A reading in flight is the prompt's
real fate (`ReadingsAreTrue`), which needs that fates are decided once
(`ComfyConsistent`); a deletion in flight or remembered was asked for
(`CancelsWereAsked`); the lock is held between two steps exactly while an outcome is
half written, and only that job may then be incoherent (`LockGuardsOutcomes`), from
which two threads never interleave inside one outcome; and a payload is always of
the real outcome, even in a job that a stale refresh reopened (`PayloadsAreReal`).
For the refinement, the steps that change no published view are stutters; those that
publish do so with `Snapshot` of a coherent record, and a first outcome is real by
`IInv`. `OutcomesStandAlone` is about the one thing the refinement cannot promise:
if there is one thread (`OneThread`), no outcome is revised. Then a refresh past its
check is of a job without an outcome, up to its last write (`RefreshesTheUnsettled`);
the run `StaleRefresh` shows that a second thread breaks exactly this.

**The event stream** (`EventStream_proofs`): `StreamTypes`, `OutcomesArriveWhole`,
`NothingIsMissed`, for any number of streams, jobs and unread messages. The checked
properties fold the messages still on the wire, and a fold over a sequence of any
length is out of the provers' reach. The invariant says the same by positions: what
a client will hold of a field is what the last message of that field carries
(`Newest`, `Reaches`), the payload goes before the state that needs it (`Ordered`),
and what it has already is whole (`Whole`).

**The app** (`AppSession_proofs`): `SessionInvariant` and from it
`JobsStayWithTheirServer`, `OutcomesAreProven`, `ClaimsStayTrue` and
`JobsAreNotForgotten`, for any number of servers, jobs, requests, attempts and
failures, with sockets or with polls. The properties speak of what the controller
shows; the invariant is about what is still out and may yet change it. A request
that counts (`mine`) asks the server of now about the job of now, and one that does
not can change nothing (`Attributed`); an answer on its way says what its gateway was
true of when it gave it, and still is of an outcome (`AnswerIsTrue`); ids are not
shared (`Identified`). `Sound` is these with what is shown (`JobIsKnown`), and it is
kept by every method of the controller and by the loss of any request, which the
lemmas of the module's first half say method by method. What is claimed to be
under way is out: the socket, the check of a job whose state is unknown, the cancel
(`SocketIsOut`, `CheckIsOut`, `CancelIsOut`), and the question about a job that a
ready form still has (`NothingForgotten`). The connection's and the session's parts
(`ConnectionOK`, `SessionOK`, `PhaseIsShown`) say where an operation of theirs may
stand between two awaits, which is what makes `recover` and `attach` find the server
they ask. `IInv` itself was first checked on both runs of the module.

**The media store** (`Inputs_proofs`): `ItemsHaveTheirFiles`,
`UploadsInFlightAreKept`, `FilesAreKnown`, `ExpiryIsExact`, `OneTransfer`. None is
inductive alone. An item has bytes exactly when it is accepted
(`SettledAreAccepted`), so a sweep, which takes only items with bytes, never takes
one being written; a writer's path holds its own file or none (`WritersFiles`); an
item is under its own id only (`HeldUnderItsId`); a job names an accepted upload and
so one whose fields no longer change (`JobsNameAccepted`); and one job at a time
sends an item nobody sent (`OneHandsOver`).

**Workflow sync** (`WorkflowSync_proofs`): `IdsStayUnique`, `GraphsComeFirst`,
`NothingIsForgotten`, `PersonsWordsAreKept`, `ContentKeepsItsId` and
`SyncingTwiceIsSyncingOnce`, for any number of files, contents, spellings, changes and
mishaps. A run that is under way gives different files
different ids, none of an entry it did not use (`RowsAreDistinct`); what it used is
the entry of some row (`UsedHaveRows`), so seen entries and carried ones together
hold every id; what it still has to do are graphs (`TodoAreGraphs`); and what it is
writing was built from the words it read (`WritesWhatItRead`), so that `MergedWords`
of the file it read is what it writes (`PersonsWordsAreKept`).
`ContentKeepsItsId` adds `ContentIsKnown`: from the start of a run on, each content
that an entry is the first to remember and some file still holds has a row with the
entry's id. `ContentIsKnownAtFirst` is the argument about the two phases: the file
claims the entry, unless an earlier one did, and that one holds the same content or a
copy of it.
`SyncingTwiceIsSyncingOnce` follows three states of affairs through each other
(`UpToDateInv`). A run that has gone well so far has every importable file it is done
with up to date: its record is what the importer makes of the file today, or is of a
run that knew more (`WellRunsBringUpToDate`). When it writes the inventory, each such
file has an entry of its own content, and only one that was seen
(`SettledIsUpToDate`), because of two files with one content, or one a reformatted
copy of the other, one is a duplicate (`GraphsAreOfOneFile`). So in the run after it
each file claims that entry by its content and is unchanged (`QuietAtFirst`), and
`IsKept` holds of every file the run comes to (`QuietRunsKeep`).

**The conversion bridge** (`ConversionBridge_proofs`): `GraphsStayTheirOwn`,
`AllAreToldTheSame`, `NoBrowserIsForgotten`, for any number of canvases, versions,
runs and mishaps. A browser is opened once, and what runs or has files is this run's or excused
(`OneBrowser`); the page is asked about a canvas only when nothing else answers for
it (`OneAtATime`); no number of a call is used twice, so an answer with the awaited
number is about the canvas at hand (`CallsAreNumbered`); the page and what was
established are of one version unless ComfyUI was replaced (`OneVersion`); only
canvases up to the one at hand are answered for (`AnsweredInOrder`), and what could
not be asked has the run's one cause (`OneCause`). The lemma `AnsweredStep` covers every way a canvas is answered
for, `WorldStays` what ComfyUI and the page do by themselves.

**The launcher** (`LauncherLifecycle_proofs`): `NoTwoAct` and `NothingIsLeftUnsaid`,
for any number of requests, crashes and given-up calls. Whoever acts is awaited,
or remembered as abandoned, or is `stop.ps1` of the exit (`EachIsKnown`);
what is awaited is alone (`AwaitedAlone`), and so is that `stop.ps1`
(`StopAllIsAlone`); after an exit nothing comes back (`LeftForGood`).

**Submission** (`Inputs_proofs`): `ServedIsLoaded`, what is served is the
registry of the files as they were at the start, and from it `FixingIsSafe`: by the
lemmas on `Registry`, a file is served exactly if it loads and claims its id alone,
and a claim of the other files does not change when one is mended.
`PromptsAreAsAsked`: what ComfyUI is sent meets every field of the form it was sent
from, writes what was given and nothing else into the graph, and names only media it
holds, for any clients, files, values, graphs and translations. Its invariant follows one
submission through its stages (`InProgress`): the definition it is judged by is one
that loads, over the graph that is bound; what was accepted still is what is bound,
but for the texts translated; and media that was handed over stays with ComfyUI.
The lemmas under it say what `BindValues` writes at each input (`Writers`,
`LastOf`) and when a field's media resolves (`MediaResolves`).

`LiteralsAreKept`, in the same module, is about the texts of a submission. A second
invariant over the first (`TextsInv`) says which text a request carries at each stage:
the one that was given, or its `Effective` once the stage has run and the field is
translated. What `Effective` does is a theorem on texts of any length,
`EffectiveKeepsItsWord`: the scanner, which cuts a text into spans by looking ahead for
where one ends, against the reference, which reads it once from left to right
(`Reading`). The scanner's functions are recursive in both directions, so each is first
shown to exist (`DefinedByRank`: a function may be defined by what it does at lower
ranks) and then followed. Reading two texts one after the other is reading them
apart, if the first leaves no literal open (`ReadingOfTwo`); up to its `LiteralEnd` a
quoted run is all literal (`LiteralEndFacts`); a run without a quote is all outside,
before and after translation (`ReadingOfPlain`, `TranslatedIsPlain`); so span by
span, from the last to the first, what is put together keeps the literals of the text
and has lost the language (`OneMoreKeeps`, `SplitKeeps`).

**The importer** (`WorkflowImport_proofs`): `StructureStaysHidden`,
`SharedRangesAreSafe`, `InputsAreAnswered`, `LabelsAreApart`, `IdsAreStable` and
`PlansAreLoaded`, for any graphs, runtimes and exports.
The invariant of a reading (`ReadingIsOfTheGraph`) is short, because the work is in
the operators: what was admitted is judged as the rules say, of the graph as it is
(`CandidatesAreJudged`), and a field is the field of a group of these
(`FieldsAreOfGroups`). What follows from it is said of one candidate, group or field
at a time.

- `StructureStaysHidden`. A chain of rules gives one of its rules (`FirstApplies`), and
  of each rule that exposes an input the lemmas say what its guard leaves out
  (`ExposedFits`, `ListedFits`, `UnlistedFits`). Which type a field has then decides
  which of them its members came through (`TypeOfAField`).
- `SharedRangesAreSafe`. The bounds of a field come out of those its members declare by
  folds over sets; `GreatestOfTheLeast` and `LeastOfTheGreatest` say what a fold over
  any finite set of numbers gives, and `ResolvedBounds` when it can be used.
- `InputsAreAnswered`. Groups cover the candidates (`GroupsCover`) and share none
  (`GroupsAreApart`); the second is about the joining of the spellings of one number,
  where a group must be all of a kind (`GroupsAreWholes`). That two fields never have
  one id is the hard half: groups that are told apart at some depth must still be told
  apart at the depth the role ends at, which is a greater one. `ShapesTellLess`: nodes
  alike within more hops are alike within fewer. Upstream a shape names its inputs;
  downstream it counts its consumers, so the proof pairs the consumers of the two nodes
  and carries the pairing one hop inwards (`Pairing`, `PairsCountAlike`).
- `LabelsAreApart`. Relabelling is repeated a number of times fixed beforehand, the
  number of all the names there are to try. A round that changes anything moves a field
  up its ladder, and the steps climbed cannot be more than there are (`ClimbsEnd`), so
  the last round changes nothing. Then two fields called the same would both be at the
  end of their ladders (`NamesEndApart`), where each has its id, and no two have one
  (`MarksTellApart`).
- `IdsAreStable`. The only property here about two readings. A second invariant,
  `ReadingInv`, says that a reading is a function of the graph and the contract alone:
  what was admitted, what was held and the plan's ids are `CandidatesOf`, `IsHeld` and
  `IdsIn`, whatever the order of judging; and that the plan before is that of a graph
  of which this one is an export. So it is enough to compare `IdsIn` of two graphs.
  `Carries` says that one is the other under a bijection of the nodes, and operator
  after operator is shown to follow it: `ConsumersCarried`, `UpCarried` and
  `DownCarried` (histories of the shapes, hop by hop), `MarksCarried`, `ReachCarried`
  and `LabelsCarried`, `JudgedAlike`, then for sets of candidates that match,
  `GroupsMatch`, `DepthsMatch`, `RolesMatch` and `IdsMatch`. Other node numbers change
  no literal, so every reading is carried over with its key (`ReadingCarried`). Another
  spelling does change one: `NumberReadAgain` shows that a number exposed in one
  spelling is exposed in the other by the same rule and with the same role (the rules
  tell no number from another, `RulesForNumbers`), and `OneGroup` that, where the runtime
  declares alike the numbers of that value and role, they are one group in either
  spelling, and the other groups are what they would be without them. That no input's
  path goes through the respelled one is needed: a contract may declare a number
  `a.b` while a shape of `a` declares `a.b` as a choice of shapes whose keys are
  numbers; `1` and `1.0` then choose differently what is asked of `a.b.c`. No run has
  such a contract; the proof would not go through without the condition.
- `PlansAreLoaded`. The loader's checks of a field one by one, each against what is
  known of the group the field was made of: the keys its type allows (`KeysLoad`); the
  options, which are non-empty texts and finite numbers listed once, whether declared
  by the runtime or by name (`AreChoices`, `OptionsForAreChoices`, `OptionsLoad`); the
  bounds, which `NumericBounds` drops where they do not fit (`NumbersLoad`); the
  default, whose kind is that of the judgement (`CandidatesKinds`) and which lies in the
  range, is one of the options, and is not blank where it must be given
  (`DefaultsLoad`); and the bindings, which name inputs that hold a literal
  (`BindsLoad`). Across fields, no two share an id or an input (`OneFieldEach`, from
  `EveryInputIsAnswered` and the groups being apart). So `SavedAsAFloat`, the finding
  below, is for every graph and contract the only plan without a problem that does not
  load. The theorem has the hypothesis `NoneIsNoFunction`: what stands for an absent
  key is no record and no list. Of a TLC model value that holds; it quantifies over
  everything, so TLC cannot evaluate it and it is not an `ASSUME`.

Induction is by the least number principle (`Least`), from the library's theorem that
a well-founded order has minimal elements: a counterexample of least depth, or a
history of the iteration that first differs. The theorems with an induction scheme,
which take an operator, are not used.

**Assumptions.** They are named where the constants are declared, and every run
evaluates them. Most say that a bound is a number and that "none" is none of the
values (`MediaAssumption`, `SyncAssumption`, `BridgeAssumption`,
`LauncherAssumption`, `SubmissionAssumption`, `FreeAssumption`,
`NoProgressAssumption`, `MaxUnreadAssumption`, `MaxRestartsAssumption`,
`NoneAssumption`, `DeclarationAssumption`, and those of `GenerationController` and
`AppSession`). The others are

- that jobs are prompts (`JobStore`'s `JobsAssumption`);
- that an id has a place in the order and a slug a list of spellings
  (`SyncAssumption`);
- that documents equal in their canonical form are of one format
  (`MeaningAssumption`: both are read off the parsed document, classify.py:197-230);
- that a file starts as something it may say (`SubmissionAssumption`), that what a
  file says has the shape of a definition, though it may not load, and that its graph
  names no file ComfyUI was handed (`DocumentsAssumption`);
- that a submitted value has a kind and a text is a sequence of characters
  (`InputsAssumption`), and that the languages recognised are listed once and their
  scripts are apart from quotes, the escape, white space and English
  (`SourcesAssumption`);
- that letters have places (`AlphabetAssumption`), and that a graph is what a parsed
  file holds: finitely many numbered nodes with finitely many inputs, named in the
  alphabet, and finite numbers (`GraphsAssumption`);
- that the empty text is a blank one (`BlankAssumption`).

`LooksAssumption` is only used by runs.

**Only model-checked.** Liveness (`RecordedOutcomeSticks`, `DeletionIsNoticed`,
`OutcomeIsDelivered`, `ReconnectEnds`, `ExitIsDealtWith`, `DownIsNoticed`) is out of
the prover's reach, and so is `ENABLED`. Every safety property a passing run checks is
proved. Of the job store's properties, `OutcomeIsFinal` is proved for one thread and
false for two.

## Where the code differs from what it says

Found while modelling; `PROJECT.json` "findings" quotes the lines. `StaleRefresh` is
the one with a run of its own.

- *Job store.* `refresh` does not look at the state again before it writes; a
  deletion is remembered only when its answer arrives, and no later cancel repairs it; `/interrupt` can stop another
  prompt; a sighting in the queue that is older than a deletion takes its claim back, and
  the job stays queued for ever; a deletion that came too late is read as a cancellation in the gap; the
  routes read a job without the lock.
- *App.* Answers of polls and cancels are applied over an outcome; an unknown job can
  be without the buttons its text names; a probe takes the connection from the
  user's attempt and then leaves its phase behind.
- *Media store.* A file evicted between look-up and transfer is reported as ComfyUI
  not running; an upload can be evicted by its own settling; a file that could not be
  unlinked is not tried again.
- *Workflow sync.* A run that stops before its inventory, and a workflow that is then
  put back as it was, leave the definition of the other graph, and the next run keeps
  it as unchanged; a file that cannot be read once is said to be gone and gets a
  second id; a label or help line a person wrote for a field that the edited workflow
  no longer has is dropped, which the header of the file says never happens.
- *Conversion.* An interrupt while the browser opens leaves it and its profile; a
  ComfyUI replaced after its identity was read makes graphs filed under the old one.
- *Importer.* A list of web addresses the runtime declares is offered as a select,
  while the rules' own text says that an address never is; a whole number saved as
  `20.0` makes a default the loader refuses; a label's hint is taken from the lowest
  node number and changes with a re-export.
- *Definitions.* An option `1` may have the default `1.0`, which validation refuses.
- *Launcher.* The end of a session queues no exit while one is claimed, although the
  user may just have answered no to it; it then waits its whole bound and nothing is
  stopped.

The properties say around these what remains true. `OutcomeIsFinal` is false with
two threads, but the outcome returns (`RecordedOutcomeSticks`), no reopened job carries
a wrong payload (`PayloadsAreReal`), and no other outcome takes its place without
being real (`OutcomeIsComfys`). A marked deletion is reported for good once no thread
carries a sighting from before it (`DeletionIsNoticed`). A person's words stay wherever
the new definition has their place (`WordsReadAreKept`). `GraphsAreTheirOwn` speaks of graphs made while
ComfyUI was not replaced (`steady`), `BrowsersAreAccountedFor` excuses the
interrupted opening, and `PlansLoad` excuses `SavedAsAFloat` and nothing else.

## Not modelled, and why

- *Layout and wording*: the app's screens, theme and languages, the launcher's
  windows, catalogues, help texts, the sync's report.
- *Input and output without state*: configuration, route registration, discovery
  announcements, pairing and QR text, the command line, the bytes of results and
  previews.
- *Process glue*: the PowerShell scripts, except for what the launcher expects of
  them.
- *External code*: the translation backends and their models, ComfyUI and its page,
  the browser; each is modelled as the code uses it.
- *Test doubles*.
- *Within modelled components*: the second launcher instance and its signal, the
  durations that split the session's time, the reader thread of ComfyUI's socket, the
  sniffing of a media file's head, what decides the class of a source file.

## Plan

In order of what a failure would cost the user:

1. (Done) The job store and its abstract view, the event stream, the app's
   generation, session and connection, the media store.
2. (Done) The launcher's lifecycle; workflow sync and conversion; the importer; forms,
   translation and submission.
3. ComfyUI's event socket: to which prompt progress is attributed across reconnects.
4. The translation warm-up, with pairs that fail while others work, and the order of
   the gateway's start and stop.
5. The app's workflows controller with its drafts and the media field: overlapping
   fetches, the upload that ends after a newer pick.
6. (Done) Proofs of the safety properties of every module a run checks. What is left
   for a proof comes with points 3 to 5.

The runs are kept few: one for each question, and a finding that needs no run to be
seen stays a finding.
