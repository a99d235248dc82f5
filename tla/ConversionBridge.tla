-------------------------- MODULE ConversionBridge --------------------------
(***************************************************************************)
(* How a sync gets a graph for each canvas: it asks ComfyUI what it is,    *)
(* takes what an earlier run remembered, and otherwise opens ComfyUI's own *)
(* page in a browser with a profile of its own and asks the page.          *)
(*                                                                         *)
(* The page answers in its own time, so an answer can come after the call  *)
(* was given up; ComfyUI can stop, restart and be another version when it  *)
(* is back; the browser can die; the command can be interrupted.           *)
(***************************************************************************)
EXTENDS Naturals, FiniteSets

CONSTANTS
    TargetCount,    \* the canvases of a run are 1..TargetCount, in scan order
    Contents,       \* what a canvas may hold
    Refused,        \* the contents the page cannot turn into a usable graph
    MaxRuns,        \* bound: syncs
    MaxPolls,       \* bound: questions whether the page is ready, standing for its deadline
    MaxVersion,     \* bound: versions of ComfyUI, 0..MaxVersion
    MaxMishaps,     \* bound: ComfyUI stopping, browsers dying, interrupts
    None

Targets == 1..TargetCount
Versions == 0..MaxVersion

VARIABLES
    source,     \* source[t]: what canvas t holds
    comfy,      \* ComfyUI: the version installed, and whether it is running
    snapshots,  \* snapshots[<<content, identity>>]: the graph remembered, or None
    sync,       \* the run: where it is, which canvas, and what the bridge holds
    records,    \* records[t]: what was said of canvas t in this run
    wire,       \* calls the page has not answered, and answers nobody has read
    page,       \* the page of the bridge's browser: not loaded, loading, ready
    running,    \* the sessions whose browser process runs
    profiles,   \* the sessions whose temporary profile is on disk
    excused,    \* history: sessions lost to an interrupt, profiles that would not go
    mishaps     \* history: what MaxMishaps bounds

vars == <<source, comfy, snapshots, sync, records, wire, page, running, profiles,
          excused, mishaps>>

-----------------------------------------------------------------------------
(* Data *)

\* ComfyIdentity: the versions from /system_stats, the node types from
\* /object_info.  They are two requests and can be answered by two versions.
Identities == Versions \X Versions

\* A converted graph: of which content, made by which version.  "steady" is
\* history: no other version started during the run that made it.
Graph == [of : Contents, by : Versions, steady : BOOLEAN]

\* BridgeError.category, and that of a workflow the page could not convert.
Errors == {"unreachable", "not_ready", "no_browser", "not_started",
           "frontend", "bridge"}

Converted(graph) == [status |-> "CONVERTED", graph |-> graph, error |-> None]
Reused(graph) == [status |-> "REUSED", graph |-> graph, error |-> None]
Rejected == [status |-> "FAILED", graph |-> None, error |-> "rejected"]
Unavailable(error) == [status |-> "UNAVAILABLE", graph |-> None, error |-> error]

Records == [status : {"CONVERTED", "REUSED", "FAILED", "UNAVAILABLE"},
            graph : Graph \cup {None}, error : Errors \cup {"rejected", None}]

ASSUME BridgeAssumption ==
    /\ TargetCount \in Nat \ {0} /\ MaxRuns \in Nat
    /\ MaxPolls \in Nat /\ MaxVersion \in Nat /\ MaxMishaps \in Nat
    /\ Refused \subseteq Contents
    /\ None \notin Contents \cup Versions \cup Identities \cup Graph \cup Errors \cup Records

Closed == [loaded |-> None, ready |-> FALSE]

Opening == {"spawn", "page", "ready"}

\* This run's browser.
Session == <<sync.number, sync.launched>>

Current == source[sync.at]

-----------------------------------------------------------------------------
(* One run: engine._convert around ConversionBridge.convert *)

\* "identity", "blocked" and "kept" are the bridge's fields, "kept" for _session.
Begin(dry) ==
    /\ sync.step = "idle" /\ sync.number < MaxRuns
    /\ sync' = [step |-> "stats", number |-> sync.number + 1, dry |-> dry, at |-> 1,
                versions |-> None, identity |-> None, blocked |-> None, kept |-> FALSE,
                launched |-> 0, call |-> 0, awaited |-> None, polls |-> 0, steady |-> TRUE]
    /\ records' = [t \in Targets |-> None]
    /\ wire' = [asked |-> {}, answers |-> {}]
    /\ page' = Closed
    /\ UNCHANGED <<source, comfy, snapshots, running, profiles, excused, mishaps>>

\* _probe_comfy, in two requests; the contract is that of the second.
FetchStats ==
    /\ sync.step = "stats" /\ comfy.up
    /\ sync' = [sync EXCEPT !.step = "nodes", !.versions = comfy.version]
    /\ UNCHANGED <<source, comfy, snapshots, records, wire, page, running, profiles,
                   excused, mishaps>>

FetchNodes ==
    /\ sync.step = "nodes" /\ comfy.up
    /\ sync' = [sync EXCEPT !.step = "next",
                            !.identity = <<sync.versions, comfy.version>>]
    /\ UNCHANGED <<source, comfy, snapshots, records, wire, page, running, profiles,
                   excused, mishaps>>

\* No identity, no conversion: every canvas is told the same.
NoIdentity ==
    /\ sync.step \in {"stats", "nodes"} /\ ~comfy.up
    /\ records' = [t \in Targets |->
                     Unavailable(IF sync.step = "stats" THEN "unreachable" ELSE "not_ready")]
    /\ sync' = [sync EXCEPT !.step = "close"]
    /\ UNCHANGED <<source, comfy, snapshots, wire, page, running, profiles, excused, mishaps>>

AtTarget == sync.step = "next" /\ sync.at <= TargetCount

\* Canvas sync.at is dealt with, and the bridge is left as given.
Answered(record, bridge) ==
    /\ records' = [records EXCEPT ![sync.at] = record]
    /\ sync' = [bridge EXCEPT !.step = "next", !.at = sync.at + 1, !.awaited = None]

\* The canvases of this run that held the same, which is converted_this_run.
SameBefore == {t \in 1..(sync.at - 1) : source[t] = Current}

Repeat ==
    /\ AtTarget /\ SameBefore # {}
    /\ \E t \in SameBefore : Answered(records[t], sync)
    /\ UNCHANGED <<source, comfy, snapshots, wire, page, running, profiles, excused, mishaps>>

\* Mutant of Snapshot: what any ComfyUI made of these bytes will do.
SnapshotOfTheBytes ==
    LET known == {i \in Identities : snapshots[<<Current, i>>] # None}
    IN  IF known = {} THEN None ELSE snapshots[<<Current, CHOOSE i \in known : TRUE>>]

\* snapshot_path, read_snapshot: the bytes and the identity are in the name.
Snapshot == snapshots[<<Current, sync.identity>>]

Reuse ==
    /\ AtTarget /\ SameBefore = {} /\ Snapshot # None
    /\ Answered(Reused(Snapshot), sync)
    /\ UNCHANGED <<source, comfy, snapshots, wire, page, running, profiles, excused, mishaps>>

Needed == AtTarget /\ SameBefore = {} /\ Snapshot = None

TellBlocked ==
    /\ Needed /\ sync.blocked # None
    /\ Answered(Unavailable(sync.blocked), sync)
    /\ UNCHANGED <<source, comfy, snapshots, wire, page, running, profiles, excused, mishaps>>

\* _ensure_session returns the session there is, whatever became of its browser.
Proceed ==
    /\ Needed /\ sync.blocked = None /\ sync.kept
    /\ sync' = [sync EXCEPT !.step = "send"]
    /\ UNCHANGED <<source, comfy, snapshots, records, wire, page, running, profiles,
                   excused, mishaps>>

NoBrowser ==
    /\ Needed /\ sync.blocked = None /\ ~sync.kept
    /\ Answered(Unavailable("no_browser"), [sync EXCEPT !.blocked = "no_browser"])
    /\ UNCHANGED <<source, comfy, snapshots, wire, page, running, profiles, excused, mishaps>>

-----------------------------------------------------------------------------
(* BrowserSession *)

\* open(): the profile, then the process, then its port, its page, the connection.
MakeProfile ==
    /\ Needed /\ sync.blocked = None /\ ~sync.kept
    /\ sync' = [sync EXCEPT !.step = "spawn", !.launched = @ + 1]
    /\ profiles' = profiles \cup {<<sync.number, sync.launched + 1>>}
    /\ page' = Closed
    /\ UNCHANGED <<source, comfy, snapshots, records, wire, running, excused, mishaps>>

Spawn ==
    /\ sync.step = "spawn"
    /\ sync' = [sync EXCEPT !.step = "page"]
    /\ running' = running \cup {Session}
    /\ UNCHANGED <<source, comfy, snapshots, records, wire, page, profiles, excused, mishaps>>

\* _await_port, _await_page, connect and Runtime.enable.
Attach ==
    /\ sync.step = "page" /\ page.loaded # None /\ Session \in running
    /\ sync' = [sync EXCEPT !.step = "ready"]
    /\ UNCHANGED <<source, comfy, snapshots, records, wire, page, running, profiles,
                   excused, mishaps>>

\* close(): the process through its handle, then the profile, whose removal is
\* not insisted on (remove_own_profile ignores errors).
CloseSession ==
    /\ running' = running \ {Session}
    /\ \/ profiles' = profiles \ {Session} /\ excused' = excused
       \/ UNCHANGED profiles /\ excused' = excused \cup {Session}

\* Mutant of OpenFails: the next canvas tries again.
OpenFailsAlone(error) ==
    /\ sync.step \in Opening
    /\ error \in IF sync.step = "ready" THEN {"frontend"} ELSE {"not_started", "bridge"}
    /\ CloseSession
    /\ Answered(Unavailable(error), sync)
    /\ UNCHANGED <<source, comfy, snapshots, wire, page, mishaps>>

\* Any step of opening fails, or the page is never ready.  "bridge" is the
\* category of a Runtime.enable that is not answered.
OpenFails(error) ==
    /\ sync.step \in Opening
    /\ error \in IF sync.step = "ready" THEN {"frontend"} ELSE {"not_started", "bridge"}
    /\ CloseSession
    /\ Answered(Unavailable(error), [sync EXCEPT !.blocked = error])
    /\ UNCHANGED <<source, comfy, snapshots, wire, page, mishaps>>

-----------------------------------------------------------------------------
(* CdpSession: one call at a time, each with a number of its own *)

Call(about, step) ==
    /\ sync' = [sync EXCEPT !.step = step, !.call = @ + 1, !.awaited = sync.call + 1,
                            !.polls = IF about = None THEN @ + 1 ELSE @]
    /\ wire' = [wire EXCEPT !.asked = @ \cup {[id |-> sync.call + 1, about |-> about]}]

\* _await_frontend asks, and asks again when it gets nothing.
Poll ==
    /\ sync.step = "ready" /\ sync.awaited = None /\ sync.polls < MaxPolls
    /\ Call(None, "ready")
    /\ UNCHANGED <<source, comfy, snapshots, records, page, running, profiles, excused, mishaps>>

GiveUpPoll ==
    /\ sync.step = "ready" /\ sync.awaited # None
    /\ sync' = [sync EXCEPT !.awaited = None]
    /\ UNCHANGED <<source, comfy, snapshots, records, wire, page, running, profiles,
                   excused, mishaps>>

\* evaluate(conversion_expression(...))
Ask ==
    /\ sync.step = "send"
    /\ Call(Current, "convert")
    /\ UNCHANGED <<source, comfy, snapshots, records, page, running, profiles, excused, mishaps>>

\* Mutant of Matches: whatever arrives is the answer.
MatchesAnything(answer) == TRUE

\* An answer with another number is of a call that was given up, and is dropped.
Matches(answer) == answer.id = sync.awaited

Received(answer) == wire' = [wire EXCEPT !.answers = @ \ {answer}]

Drop(answer) ==
    /\ sync.awaited # None /\ answer \in wire.answers /\ ~Matches(answer)
    /\ Received(answer)
    /\ UNCHANGED <<source, comfy, snapshots, sync, records, page, running, profiles,
                   excused, mishaps>>

\* The session is stored in the bridge only now (_ensure_session).
ReceiveReady(answer) ==
    /\ sync.step = "ready" /\ sync.awaited # None
    /\ answer \in wire.answers /\ Matches(answer)
    /\ Received(answer)
    /\ sync' = IF answer.ready
               THEN [sync EXCEPT !.step = "send", !.kept = TRUE, !.awaited = None]
               ELSE [sync EXCEPT !.awaited = None]
    /\ UNCHANGED <<source, comfy, snapshots, records, page, running, profiles, excused, mishaps>>

\* _judge: a refusal and a graph that is not importable are this canvas's own.
ReceiveGraph(answer) ==
    /\ sync.step = "convert"
    /\ answer \in wire.answers /\ Matches(answer)
    /\ Received(answer)
    /\ IF answer.graph = None
       THEN Answered(Rejected, sync)
       ELSE /\ records' = [records EXCEPT ![sync.at] = Converted(answer.graph)]
            /\ sync' = [sync EXCEPT !.step = IF sync.dry THEN "next" ELSE "store",
                                    !.at = IF sync.dry THEN @ + 1 ELSE @,
                                    !.awaited = None]
    /\ UNCHANGED <<source, comfy, snapshots, page, running, profiles, excused, mishaps>>

\* A transport failure stops the run's conversions: no answer in time, or the
\* browser gone.  The session stays the bridge's.
ConvertFails ==
    /\ sync.step \in {"send", "convert"}
    /\ Answered(Unavailable("bridge"), [sync EXCEPT !.blocked = "bridge"])
    /\ UNCHANGED <<source, comfy, snapshots, wire, page, running, profiles, excused, mishaps>>

-----------------------------------------------------------------------------
(* Snapshots, and the end *)

Store ==
    /\ sync.step = "store"
    /\ snapshots' = [snapshots EXCEPT ![<<Current, sync.identity>>] = records[sync.at].graph]
    /\ sync' = [sync EXCEPT !.step = "next", !.at = @ + 1]
    /\ UNCHANGED <<source, comfy, records, wire, page, running, profiles, excused, mishaps>>

\* A cache that cannot be written is a warning.
StoreFails ==
    /\ sync.step = "store"
    /\ sync' = [sync EXCEPT !.step = "next", !.at = @ + 1]
    /\ UNCHANGED <<source, comfy, snapshots, records, wire, page, running, profiles,
                   excused, mishaps>>

Finish ==
    /\ sync.step = "next" /\ sync.at > TargetCount
    /\ sync' = [sync EXCEPT !.step = "close"]
    /\ UNCHANGED <<source, comfy, snapshots, records, wire, page, running, profiles,
                   excused, mishaps>>

\* ConversionBridge.close, in the finally of the command.
Close ==
    /\ sync.step = "close"
    /\ IF sync.kept THEN CloseSession ELSE UNCHANGED <<running, profiles, excused>>
    /\ sync' = [sync EXCEPT !.step = "idle", !.kept = FALSE]
    /\ UNCHANGED <<source, comfy, snapshots, records, wire, page, mishaps>>

Mishap ==
    /\ mishaps < MaxMishaps
    /\ mishaps' = mishaps + 1

\* Ctrl-C is not an Exception: nothing closes a session that is being opened.
Interrupt ==
    /\ sync.step \notin {"idle", "close"}
    /\ sync' = [sync EXCEPT !.step = "close"]
    /\ excused' = IF sync.step \in Opening THEN excused \cup {Session} ELSE excused
    /\ Mishap
    /\ UNCHANGED <<source, comfy, snapshots, records, wire, page, running, profiles>>

-----------------------------------------------------------------------------
(* The browser, its page and ComfyUI *)

PageLoads ==
    /\ sync.step \in Opening /\ Session \in running
    /\ page.loaded = None /\ comfy.up
    /\ page' = [loaded |-> comfy.version, ready |-> FALSE]
    /\ UNCHANGED <<source, comfy, snapshots, sync, records, wire, running, profiles,
                   excused, mishaps>>

PageReadies ==
    /\ page.loaded # None /\ ~page.ready /\ Session \in running
    /\ page' = [page EXCEPT !.ready = TRUE]
    /\ UNCHANGED <<source, comfy, snapshots, sync, records, wire, running, profiles,
                   excused, mishaps>>

\* The page works with what it loaded, whatever ComfyUI has become since.
PageAnswers(asked) ==
    /\ Session \in running /\ asked \in wire.asked
    /\ wire' = [asked |-> wire.asked \ {asked},
                answers |-> wire.answers \cup
                  {[id |-> asked.id,
                    ready |-> asked.about = None /\ page.ready,
                    graph |-> IF asked.about \in {None} \cup Refused THEN None
                              ELSE [of |-> asked.about, by |-> page.loaded,
                                    steady |-> sync.steady]]}]
    /\ UNCHANGED <<source, comfy, snapshots, sync, records, page, running, profiles,
                   excused, mishaps>>

BrowserDies ==
    /\ running \ excused # {}
    /\ running' = excused \cap running
    /\ wire' = [asked |-> {}, answers |-> {}]
    /\ Mishap
    /\ UNCHANGED <<source, comfy, snapshots, sync, records, page, profiles, excused>>

ComfyStops ==
    /\ comfy.up
    /\ comfy' = [comfy EXCEPT !.up = FALSE]
    /\ Mishap
    /\ UNCHANGED <<source, snapshots, sync, records, wire, page, running, profiles, excused>>

ComfyStarts(version) ==
    /\ ~comfy.up
    /\ comfy' = [version |-> version, up |-> TRUE]
    /\ sync' = [sync EXCEPT !.steady = @ /\ version = comfy.version]
    /\ UNCHANGED <<source, snapshots, records, wire, page, running, profiles, excused, mishaps>>

-----------------------------------------------------------------------------

Init ==
    /\ source \in [Targets -> Contents]
    /\ comfy = [version |-> 0, up |-> TRUE]
    /\ snapshots = [key \in Contents \X Identities |-> None]
    /\ sync = [step |-> "idle", number |-> 0, dry |-> FALSE, at |-> 1, versions |-> None,
               identity |-> None, blocked |-> None, kept |-> FALSE, launched |-> 0,
               call |-> 0, awaited |-> None, polls |-> 0, steady |-> TRUE]
    /\ records = [t \in Targets |-> None]
    /\ wire = [asked |-> {}, answers |-> {}]
    /\ page = Closed
    /\ running = {} /\ profiles = {} /\ excused = {}
    /\ mishaps = 0

SyncStep ==
    \/ \E dry \in BOOLEAN : Begin(dry)
    \/ FetchStats \/ FetchNodes \/ NoIdentity
    \/ Repeat \/ Reuse \/ TellBlocked \/ Proceed \/ NoBrowser
    \/ MakeProfile \/ Spawn \/ Attach \/ \E error \in Errors : OpenFails(error)
    \/ Poll \/ GiveUpPoll \/ Ask
    \/ \E answer \in wire.answers :
          Drop(answer) \/ ReceiveReady(answer) \/ ReceiveGraph(answer)
    \/ ConvertFails \/ Store \/ StoreFails \/ Finish \/ Close \/ Interrupt

WorldStep ==
    \/ PageLoads \/ PageReadies \/ \E asked \in wire.asked : PageAnswers(asked)
    \/ BrowserDies \/ ComfyStops \/ \E version \in Versions : ComfyStarts(version)

Next == SyncStep \/ WorldStep

Spec == Init /\ [][Next]_vars

-----------------------------------------------------------------------------
(* Properties *)

\* A graph is of the canvas it is filed under, and made by the ComfyUI the run
\* established (read_snapshot, CdpSession.call) as long as that ComfyUI was not
\* replaced under the run: no late answer to another question and no snapshot of
\* other bytes or another ComfyUI is taken for it.
GraphsAreTheirOwn ==
    /\ \A t \in Targets :
          records[t] # None /\ records[t].graph # None =>
             LET graph == records[t].graph IN
             /\ graph.of = source[t]
             /\ graph.steady => sync.identity = <<graph.by, graph.by>>
    /\ \A content \in Contents, identity \in Identities :
          LET graph == snapshots[<<content, identity>>] IN
          graph # None => /\ graph.of = content
                          /\ graph.steady => identity = <<graph.by, graph.by>>

\* "Every workflow is told the same actionable thing" (ConversionBridge): one
\* cause per run for all the canvases it could not ask about, and the same answer
\* for the same bytes.  A canvas the page refuses is told what holds of itself.
ToldTheSame ==
    \A s, t \in Targets :
        (records[s] # None /\ records[t] # None) =>
           /\ (records[s].status = "UNAVAILABLE" /\ records[t].status = "UNAVAILABLE")
                 => records[s] = records[t]
           /\ source[s] = source[t] => records[s] = records[t]
           /\ records[t].status = "FAILED" => source[t] \in Refused

\* One browser for the whole run (engine._convert), and none of it left when the
\* command ends, neither process nor profile: except a session whose opening was
\* interrupted and a profile whose files would not go.
BrowsersAreAccountedFor ==
    /\ sync.launched <= 1
    /\ running \cup profiles \subseteq excused \cup {Session}
    /\ sync.step = "idle" => running \cup profiles \subseteq excused

=============================================================================
