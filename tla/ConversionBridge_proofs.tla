----------------------- MODULE ConversionBridge_proofs -----------------------
(***************************************************************************)
(* Theorems about ConversionBridge for any number of canvases, syncs,      *)
(* questions, versions of ComfyUI and mishaps.                             *)
(***************************************************************************)
EXTENDS ConversionBridge, TLAPS

\* The steps of a run while it deals with one canvas.
Busy == {"spawn", "page", "ready", "send", "convert", "store"}

Syncs == [step : Busy \cup {"idle", "stats", "nodes", "next", "close"}, number : Nat,
          dry : BOOLEAN, at : 1..(TargetCount + 1), versions : Versions \cup {None},
          identity : Identities \cup {None}, blocked : Errors \cup {None}, kept : BOOLEAN,
          launched : Nat, call : Nat, awaited : Nat \cup {None}, polls : Nat,
          steady : BOOLEAN]

TypeOK ==
  /\ source \in [Targets -> Contents]
  /\ comfy \in [version : Versions, up : BOOLEAN]
  /\ snapshots \in [Contents \X Identities -> Graph \cup {None}]
  /\ sync \in Syncs
  /\ records \in [Targets -> Records \cup {None}]
  /\ wire \in [asked : SUBSET [id : Nat, about : Contents \cup {None}],
               answers : SUBSET [id : Nat, ready : BOOLEAN, graph : Graph \cup {None}]]
  /\ page \in [loaded : Versions \cup {None}, ready : BOOLEAN]

\* A run opens a browser only before it has one, and closes it on every way out.
OneBrowser ==
  /\ sync.step \in {"stats", "nodes"} => sync.launched = 0
  /\ sync.step = "next" /\ sync.blocked = None /\ ~sync.kept => sync.launched = 0
  /\ sync.step \in {"send", "convert", "store"} => sync.kept
  /\ sync.step \in Opening \cup {"idle", "stats", "nodes"} => ~sync.kept
  /\ sync.step \in Opening => sync.launched = 1
  /\ sync.launched \in {0, 1}
  /\ running \cup profiles \subseteq excused \cup {Session}
  /\ ~sync.kept /\ sync.step \notin Opening => running \cup profiles \subseteq excused

\* A canvas is asked about only when nothing else answers for it.
OneAtATime ==
  sync.step \in Busy =>
    /\ sync.at \in Targets /\ SameBefore = {} /\ sync.blocked = None

\* As long as ComfyUI was not replaced under the run, all that is known of it is of
\* the one version.
OneVersion ==
  sync.steady =>
    /\ sync.step = "nodes" => sync.versions = comfy.version
    /\ sync.step \in Busy \cup {"next"} \/ (\E asked \in wire.asked : asked.about # None) =>
         sync.identity = <<comfy.version, comfy.version>>
    /\ page.loaded \in {None, comfy.version}

\* A call's answer is found by its number, and no number is used twice in a run.
CallsAreNumbered ==
  /\ \A asked \in wire.asked : asked.id <= sync.call
  /\ \A answer \in wire.answers : answer.id <= sync.call
  /\ wire.asked # {} \/ wire.answers # {} \/ sync.kept \/ sync.step = "ready" =>
       page.loaded # None /\ sync.launched = 1
  /\ sync.step = "convert" =>
       /\ sync.awaited = sync.call
       /\ \A asked \in wire.asked : asked.id = sync.call => asked.about = Current
       /\ \A answer \in wire.answers : answer.id = sync.call =>
            IF answer.graph = None THEN Current \in Refused ELSE answer.graph.of = Current
  /\ \A answer \in wire.answers :
       answer.graph # None /\ answer.graph.steady =>
         sync.identity = <<answer.graph.by, answer.graph.by>>

\* The canvases before this one are answered for, and no other.
AnsweredInOrder ==
  /\ sync.step \in {"stats", "nodes"} => \A t \in Targets : records[t] = None
  /\ sync.step \in Busy \cup {"next"} =>
       \A t \in Targets : records[t] # None => t < sync.at \/ (t = sync.at /\ sync.step = "store")
  /\ sync.step = "store" => records[sync.at] # None
  /\ sync.step = "nodes" => sync.versions # None
  /\ sync.step \in Busy \cup {"next"} => sync.identity # None

\* One cause for all the canvases nobody could be asked about.
OneCause ==
  \/ \A t \in Targets :
       records[t] # None /\ records[t].status = "UNAVAILABLE" =>
         sync.blocked # None /\ records[t] = Unavailable(sync.blocked)
  \/ sync.step \in {"close", "idle"} /\ \E error : \A t \in Targets : records[t] = Unavailable(error)

IInv ==
  /\ TypeOK /\ OneBrowser /\ OneAtATime /\ OneVersion /\ CallsAreNumbered
  /\ AnsweredInOrder /\ OneCause /\ GraphsAreTheirOwn /\ ToldTheSame

LEMMA InitIInv == Init => IInv
<1> SUFFICES ASSUME Init PROVE IInv
  OBVIOUS
<1>1. /\ source \in [Targets -> Contents] /\ comfy = [version |-> 0, up |-> TRUE]
      /\ snapshots = [key \in Contents \X Identities |-> None]
      /\ records = [t \in Targets |-> None]
      /\ wire = [asked |-> {}, answers |-> {}] /\ page = [loaded |-> None, ready |-> FALSE]
      /\ running = {} /\ profiles = {}
  BY DEF Init, Closed
<1>2. /\ sync \in Syncs /\ sync.step = "idle" /\ sync.launched = 0 /\ ~sync.kept
      /\ sync.call = 0
  BY BridgeAssumption DEF Init, Syncs
<1>3. TypeOK
  BY <1>1, <1>2, BridgeAssumption DEF TypeOK, Versions
<1>4. OneBrowser /\ OneAtATime
  BY <1>1, <1>2 DEF OneBrowser, OneAtATime, Busy, Opening
<1>5. OneVersion /\ CallsAreNumbered /\ AnsweredInOrder /\ OneCause
  BY <1>1, <1>2 DEF OneVersion, CallsAreNumbered, AnsweredInOrder, OneCause, Busy
<1>6. GraphsAreTheirOwn /\ ToldTheSame
  BY <1>1 DEF GraphsAreTheirOwn, ToldTheSame
<1> QED
  BY <1>3, <1>4, <1>5, <1>6 DEF IInv

\* What has been said of the canvases is not touched.
LEMMA RecordsStay ==
  ASSUME IInv, UNCHANGED <<source, snapshots, records>>, sync'.identity = sync.identity
  PROVE  GraphsAreTheirOwn' /\ ToldTheSame'
  BY DEF IInv, GraphsAreTheirOwn, ToldTheSame

(***************************************************************************)
(* The browser, its page and ComfyUI.                                      *)
(***************************************************************************)

\* Nothing of the run changes but what arrives.
LEMMA WorldStays ==
  ASSUME IInv, UNCHANGED <<source, snapshots, sync, records>>, TypeOK',
         comfy'.version = comfy.version
  PROVE  /\ OneAtATime' /\ AnsweredInOrder' /\ OneCause' /\ GraphsAreTheirOwn'
         /\ ToldTheSame'
         /\ (running' \subseteq running /\ profiles' = profiles /\ excused' = excused
               => OneBrowser')
         /\ (page'.loaded = page.loaded /\ wire'.asked \subseteq wire.asked => OneVersion')
<1>1. Current' = Current /\ SameBefore' = SameBefore /\ Session' = Session
  BY DEF Current, SameBefore, Session
<1>2. OneAtATime' /\ AnsweredInOrder' /\ OneCause'
  BY <1>1 DEF IInv, OneAtATime, AnsweredInOrder, OneCause
<1>3. GraphsAreTheirOwn' /\ ToldTheSame'
  BY RecordsStay
<1>4. running' \subseteq running /\ profiles' = profiles /\ excused' = excused => OneBrowser'
  BY <1>1 DEF IInv, OneBrowser
<1>5. page'.loaded = page.loaded /\ wire'.asked \subseteq wire.asked => OneVersion'
  BY DEF IInv, OneVersion
<1> QED
  BY <1>2, <1>3, <1>4, <1>5

LEMMA PageLoadsStep == ASSUME IInv, PageLoads PROVE IInv'
<1>1. /\ UNCHANGED <<source, comfy, snapshots, sync, records, wire, running, profiles, excused>>
      /\ sync.step \in Opening /\ page' = [loaded |-> comfy.version, ready |-> FALSE]
  BY DEF PageLoads
<1>2. TypeOK'
  BY <1>1 DEF IInv, TypeOK
<1>3. OneVersion'
  BY <1>1 DEF IInv, OneVersion
<1>4. comfy.version # None
  BY BridgeAssumption DEF IInv, TypeOK
<1>5. CallsAreNumbered'
  BY <1>1, <1>4 DEF IInv, CallsAreNumbered, Current
<1> QED
  BY <1>1, <1>2, <1>3, <1>5, WorldStays DEF IInv

LEMMA PageReadiesStep == ASSUME IInv, PageReadies PROVE IInv'
<1>1. /\ UNCHANGED <<source, comfy, snapshots, sync, records, wire, running, profiles, excused>>
      /\ page' = [page EXCEPT !.ready = TRUE]
  BY DEF PageReadies
<1>2. page'.loaded = page.loaded /\ TypeOK'
  BY <1>1 DEF IInv, TypeOK
<1>3. CallsAreNumbered'
  BY <1>1, <1>2 DEF IInv, CallsAreNumbered, Current
<1> QED
  BY <1>1, <1>2, <1>3, WorldStays DEF IInv

LEMMA PageAnswersStep ==
  ASSUME IInv, NEW asked \in wire.asked, PageAnswers(asked)
  PROVE  IInv'
<1> DEFINE answer == [id |-> asked.id, ready |-> asked.about = None /\ page.ready,
                      graph |-> IF asked.about \in {None} \cup Refused THEN None
                                ELSE [of |-> asked.about, by |-> page.loaded,
                                      steady |-> sync.steady]]
<1>1. /\ UNCHANGED <<source, comfy, snapshots, sync, records, page, running, profiles, excused>>
      /\ wire' = [asked |-> wire.asked \ {asked}, answers |-> wire.answers \cup {answer}]
  BY DEF PageAnswers
<1>2. asked \in [id : Nat, about : Contents \cup {None}] /\ page.loaded \in Versions
  BY DEF IInv, TypeOK, CallsAreNumbered
<1>3. answer.graph \in Graph \cup {None}
  BY <1>2 DEF Graph, IInv, TypeOK, Syncs
<1>4. answer \in [id : Nat, ready : BOOLEAN, graph : Graph \cup {None}]
  <2>1. page.ready \in BOOLEAN
    BY DEF IInv, TypeOK
  <2> QED
    BY <1>2, <1>3, <2>1
<1>5. wire'.asked = wire.asked \ {asked} /\ wire'.answers = wire.answers \cup {answer}
  BY <1>1
<1>6. TypeOK'
  BY <1>1, <1>4 DEF IInv, TypeOK
<1>7. answer.id = asked.id /\ asked.id <= sync.call
  BY DEF IInv, CallsAreNumbered
<1>8. ASSUME sync.step = "convert", asked.id = sync.call
      PROVE  IF answer.graph = None THEN Current \in Refused ELSE answer.graph.of = Current
  <2>1. asked.about = Current /\ Current \in Contents
    BY <1>8 DEF IInv, CallsAreNumbered, OneAtATime, Busy, TypeOK, Current
  <2>2. asked.about # None
    BY <2>1, BridgeAssumption
  <2>3. CASE asked.about \in Refused
    BY <2>1, <2>3
  <2>4. CASE asked.about \notin Refused
    <3>1. answer.graph = [of |-> asked.about, by |-> page.loaded, steady |-> sync.steady]
      BY <2>2, <2>4
    <3>2. answer.graph # None
      BY <1>3, <2>1, <2>2, <2>4, <3>1, <1>2, BridgeAssumption DEF Graph, IInv, TypeOK, Syncs
    <3> QED
      BY <2>1, <3>1, <3>2
  <2> QED
    BY <2>3, <2>4
<1>9. ASSUME answer.graph # None, answer.graph.steady
      PROVE  sync.identity = <<answer.graph.by, answer.graph.by>>
  <2>1. /\ answer.graph = [of |-> asked.about, by |-> page.loaded, steady |-> sync.steady]
        /\ asked.about # None
    BY <1>9
  <2>2. sync.steady /\ answer.graph.by = page.loaded
    BY <1>9, <2>1
  <2>3. page.loaded = comfy.version
    BY <1>2, <2>2, BridgeAssumption DEF IInv, OneVersion
  <2> QED
    BY <2>1, <2>2, <2>3 DEF IInv, OneVersion
<1> HIDE DEF answer
<1>10. CallsAreNumbered'
  BY <1>1, <1>5, <1>7, <1>8, <1>9 DEF IInv, CallsAreNumbered, Current
<1> QED
  BY <1>1, <1>5, <1>6, <1>10, WorldStays DEF IInv

LEMMA BrowserDiesStep == ASSUME IInv, BrowserDies PROVE IInv'
<1>1. /\ UNCHANGED <<source, comfy, snapshots, sync, records, page, profiles, excused>>
      /\ running' = excused \cap running /\ wire' = [asked |-> {}, answers |-> {}]
  BY DEF BrowserDies
<1>2. wire'.asked = {} /\ wire'.answers = {} /\ TypeOK'
  BY <1>1 DEF IInv, TypeOK
<1>3. CallsAreNumbered'
  BY <1>1, <1>2 DEF IInv, CallsAreNumbered, Current
<1> QED
  BY <1>1, <1>2, <1>3, WorldStays DEF IInv

LEMMA ComfyStopsStep == ASSUME IInv, ComfyStops PROVE IInv'
<1>1. /\ UNCHANGED <<source, snapshots, sync, records, wire, page, running, profiles, excused>>
      /\ comfy' = [comfy EXCEPT !.up = FALSE]
  BY DEF ComfyStops
<1>2. comfy'.version = comfy.version /\ TypeOK'
  BY <1>1 DEF IInv, TypeOK
<1>3. CallsAreNumbered'
  BY <1>1 DEF IInv, CallsAreNumbered, Current
<1> QED
  BY <1>1, <1>2, <1>3, WorldStays DEF IInv

\* Another version: the run is no longer steady.
LEMMA ComfyStartsStep ==
  ASSUME IInv, NEW version \in Versions, ComfyStarts(version)
  PROVE  IInv'
<1> DEFINE still == sync.steady /\ version = comfy.version
<1>1. /\ UNCHANGED <<source, snapshots, records, wire, page, running, profiles, excused>>
      /\ comfy' = [version |-> version, up |-> TRUE]
      /\ sync' = [sync EXCEPT !.steady = still]
      /\ still \in BOOLEAN /\ (still => sync.steady /\ version = comfy.version)
  BY DEF ComfyStarts
<1> HIDE DEF still
<1>2. /\ sync' \in Syncs /\ sync'.step = sync.step /\ sync'.number = sync.number
      /\ sync'.at = sync.at /\ sync'.versions = sync.versions /\ sync'.identity = sync.identity
      /\ sync'.blocked = sync.blocked /\ sync'.kept = sync.kept
      /\ sync'.launched = sync.launched /\ sync'.call = sync.call
      /\ sync'.awaited = sync.awaited
      /\ (sync'.steady => sync.steady /\ version = comfy.version)
  BY <1>1 DEF IInv, TypeOK, Syncs
<1>3. Current' = Current /\ SameBefore' = SameBefore /\ Session' = Session
  BY <1>1, <1>2 DEF Current, SameBefore, Session
<1>4. TypeOK'
  BY <1>1, <1>2 DEF IInv, TypeOK
<1>5. OneBrowser' /\ OneAtATime'
  BY <1>1, <1>2, <1>3 DEF IInv, OneBrowser, OneAtATime
<1>6. OneVersion'
  BY <1>1, <1>2 DEF IInv, OneVersion
<1>7. CallsAreNumbered'
  BY <1>1, <1>2, <1>3 DEF IInv, CallsAreNumbered
<1>8. AnsweredInOrder' /\ OneCause'
  BY <1>1, <1>2 DEF IInv, AnsweredInOrder, OneCause
<1> QED
  BY <1>1, <1>2, <1>4, <1>5, <1>6, <1>7, <1>8, RecordsStay DEF IInv

(***************************************************************************)
(* A canvas is answered for.                                               *)
(***************************************************************************)

\* An answer that fits the canvas and the run keeps all that is known of both.
LEMMA AnsweredStep ==
  ASSUME IInv, NEW record \in Records \cup {None},
         UNCHANGED <<source, comfy, snapshots, page>>,
         records' = [records EXCEPT ![sync.at] = record],
         sync.step \in (Busy \ {"store"}) \cup {"next"}, sync.at \in Targets,
         sync' \in Syncs, sync'.number = sync.number, sync'.identity = sync.identity,
         sync'.kept = sync.kept, sync'.launched = sync.launched, sync'.call = sync.call,
         sync'.steady = sync.steady,
         sync.blocked # None => sync'.blocked = sync.blocked,
         \/ sync'.step = "next" /\ sync'.at = sync.at + 1
         \/ /\ sync'.step = "store" /\ sync'.at = sync.at /\ sync'.blocked = None
            /\ record # None /\ sync.kept /\ SameBefore = {},
         record # None =>
           /\ record.graph # None =>
                /\ record.graph.of = Current
                /\ record.graph.steady => sync.identity = <<record.graph.by, record.graph.by>>
           /\ record.status = "UNAVAILABLE" =>
                sync'.blocked # None /\ record = Unavailable(sync'.blocked)
           /\ record.status = "FAILED" => Current \in Refused,
         \A t \in SameBefore : records[t] # None /\ record # None => record = records[t],
         wire'.asked \subseteq wire.asked, wire'.answers \subseteq wire.answers,
         wire' \in [asked : SUBSET [id : Nat, about : Contents \cup {None}],
                    answers : SUBSET [id : Nat, ready : BOOLEAN, graph : Graph \cup {None}]],
         ~sync.kept /\ sync'.blocked = None => sync.launched = 0,
         running' \cup profiles' \subseteq excused' \cup {Session},
         ~sync.kept => running' \cup profiles' \subseteq excused'
  PROVE  IInv'
<1>1. TypeOK'
  BY DEF IInv, TypeOK
<1>2. OneBrowser'
  <2>1. Session' = Session
    BY DEF Session
  <2> QED
    BY <2>1 DEF IInv, OneBrowser, Opening
<1>3. OneAtATime'
  <2>1. sync'.at = sync.at => Current' = Current /\ SameBefore' = SameBefore
    BY DEF Current, SameBefore
  <2> QED
    BY <2>1 DEF OneAtATime, Busy
<1>4. OneVersion'
  BY DEF IInv, OneVersion, Busy
<1>5. CallsAreNumbered'
  BY DEF IInv, CallsAreNumbered
<1>6. \A t \in Targets : records'[t] = IF t = sync.at THEN record ELSE records[t]
  BY DEF IInv, TypeOK
<1>7. sync.at \in Nat /\ \A t \in Targets : t \in Nat
  BY BridgeAssumption DEF Targets
<1>8. \A t \in Targets : records[t] # None => t < sync.at
  BY DEF IInv, AnsweredInOrder
<1>9. AnsweredInOrder'
  BY <1>6, <1>7, <1>8 DEF IInv, AnsweredInOrder, Busy
<1>10. OneCause'
  <2>1. \A t \in Targets : records[t] # None /\ records[t].status = "UNAVAILABLE" =>
          sync.blocked # None /\ records[t] = Unavailable(sync.blocked)
    BY DEF IInv, OneCause, Busy
  <2> QED
    BY <1>6, <2>1 DEF OneCause
<1>11. GraphsAreTheirOwn'
  BY <1>6 DEF IInv, GraphsAreTheirOwn, Current
<1>12. \A t \in Targets : t # sync.at /\ records[t] # None /\ record # None =>
         /\ records[t].status = "UNAVAILABLE" /\ record.status = "UNAVAILABLE" => records[t] = record
         /\ source[t] = Current => records[t] = record
  <2>1. \A t \in Targets : records[t] # None /\ records[t].status = "UNAVAILABLE" =>
          sync.blocked # None /\ records[t] = Unavailable(sync.blocked)
    BY DEF IInv, OneCause, Busy
  <2>2. \A t \in Targets : records[t] # None /\ source[t] = Current => t \in SameBefore
    BY <1>7, <1>8 DEF SameBefore, Targets
  <2> QED
    BY <2>1, <2>2
<1>13. ToldTheSame'
  <2> SUFFICES ASSUME NEW s \in Targets, NEW t \in Targets,
                      records'[s] # None, records'[t] # None
               PROVE  /\ (records'[s].status = "UNAVAILABLE" /\ records'[t].status = "UNAVAILABLE")
                            => records'[s] = records'[t]
                      /\ source[s] = source[t] => records'[s] = records'[t]
                      /\ records'[t].status = "FAILED" => source[t] \in Refused
    BY DEF ToldTheSame
  <2>1. CASE s = sync.at /\ t = sync.at
    BY <1>6, <2>1 DEF Current
  <2>2. CASE s = sync.at /\ t # sync.at
    BY <1>6, <1>12, <2>2 DEF Current, IInv, ToldTheSame
  <2>3. CASE s # sync.at /\ t = sync.at
    BY <1>6, <1>12, <2>3 DEF Current, IInv, ToldTheSame
  <2>4. CASE s # sync.at /\ t # sync.at
    BY <1>6, <2>4 DEF IInv, ToldTheSame
  <2> QED
    BY <2>1, <2>2, <2>3, <2>4
<1> QED
  BY <1>1, <1>2, <1>3, <1>4, <1>5, <1>9, <1>10, <1>11, <1>13 DEF IInv

\* What Answered makes of the run.
LEMMA AnsweredSync ==
  ASSUME NEW bridge \in Syncs, sync \in Syncs, sync.at \in Targets, NEW record,
         Answered(record, bridge)
  PROVE  /\ records' = [records EXCEPT ![sync.at] = record]
         /\ sync' \in Syncs /\ sync'.number = bridge.number
         /\ sync'.identity = bridge.identity /\ sync'.kept = bridge.kept
         /\ sync'.launched = bridge.launched /\ sync'.call = bridge.call
         /\ sync'.steady = bridge.steady /\ sync'.blocked = bridge.blocked
         /\ sync'.step = "next" /\ sync'.at = sync.at + 1
<1> DEFINE after == sync.at + 1
<1>1. after \in 1..(TargetCount + 1)
  BY BridgeAssumption DEF Targets
<1>2. sync' = [bridge EXCEPT !.step = "next", !.at = after, !.awaited = None]
  BY DEF Answered
<1> HIDE DEF after
<1>3. /\ sync' \in Syncs /\ sync'.number = bridge.number
      /\ sync'.identity = bridge.identity /\ sync'.kept = bridge.kept
      /\ sync'.launched = bridge.launched /\ sync'.call = bridge.call
      /\ sync'.steady = bridge.steady /\ sync'.blocked = bridge.blocked
      /\ sync'.step = "next" /\ sync'.at = after
  BY <1>1, <1>2 DEF Syncs
<1> QED
  BY <1>3 DEF after, Answered

LEMMA RepeatStep == ASSUME IInv, Repeat PROVE IInv'
<1>1. PICK t \in SameBefore : Answered(records[t], sync)
  BY DEF Repeat
<1>2. /\ UNCHANGED <<source, comfy, snapshots, wire, page, running, profiles, excused>>
      /\ sync.step = "next" /\ sync.at \in Targets
  BY BridgeAssumption DEF Repeat, AtTarget, IInv, TypeOK, Syncs, Targets
<1>3. sync \in Syncs
  BY DEF IInv, TypeOK
<1>4. /\ records' = [records EXCEPT ![sync.at] = records[t]]
      /\ sync' \in Syncs /\ sync'.number = sync.number /\ sync'.identity = sync.identity
      /\ sync'.kept = sync.kept /\ sync'.launched = sync.launched /\ sync'.call = sync.call
      /\ sync'.steady = sync.steady /\ sync'.blocked = sync.blocked
      /\ sync'.step = "next" /\ sync'.at = sync.at + 1
  BY <1>1, <1>2, <1>3, AnsweredSync
<1>5. t \in Targets /\ source[t] = Current
  BY <1>2, BridgeAssumption DEF SameBefore, Targets
<1>6. records[t] \in Records \cup {None}
  BY <1>5 DEF IInv, TypeOK
<1>7. records[t] # None =>
        /\ records[t].graph # None =>
             /\ records[t].graph.of = Current
             /\ records[t].graph.steady =>
                  sync.identity = <<records[t].graph.by, records[t].graph.by>>
        /\ records[t].status = "FAILED" => Current \in Refused
  BY <1>5 DEF IInv, GraphsAreTheirOwn, ToldTheSame
<1>8. records[t] # None /\ records[t].status = "UNAVAILABLE" =>
        sync.blocked # None /\ records[t] = Unavailable(sync.blocked)
  BY <1>2, <1>5 DEF IInv, OneCause
<1>9. \A s \in SameBefore : records[s] # None /\ records[t] # None => records[t] = records[s]
  <2>1. \A s \in SameBefore : s \in Targets /\ source[s] = Current
    BY <1>2, BridgeAssumption DEF SameBefore, Targets
  <2> QED
    BY <1>5, <2>1 DEF IInv, ToldTheSame
<1>10. /\ ~sync.kept /\ sync.blocked = None => sync.launched = 0
       /\ running \cup profiles \subseteq excused \cup {Session}
       /\ ~sync.kept => running \cup profiles \subseteq excused
  BY <1>2 DEF IInv, OneBrowser, Opening
<1>11. wire \in [asked : SUBSET [id : Nat, about : Contents \cup {None}],
                 answers : SUBSET [id : Nat, ready : BOOLEAN, graph : Graph \cup {None}]]
  BY DEF IInv, TypeOK
<1> QED
  BY <1>2, <1>4, <1>6, <1>7, <1>8, <1>9, <1>10, <1>11, AnsweredStep

\* Nothing but the step and what the browser holds changes while a canvas is asked
\* about.
LEMMA MovesOn ==
  ASSUME IInv, UNCHANGED <<source, comfy, snapshots, records>>,
         sync.step \in (Busy \ {"store"}) \cup {"next"}, sync'.step \in Busy \ {"store"},
         sync.at \in Targets, SameBefore = {}, sync.blocked = None,
         sync'.number = sync.number, sync'.at = sync.at, sync'.identity = sync.identity,
         sync'.blocked = sync.blocked, sync'.steady = sync.steady,
         page'.loaded \in {page.loaded, None}
  PROVE  /\ OneAtATime' /\ OneVersion' /\ AnsweredInOrder' /\ OneCause'
         /\ GraphsAreTheirOwn' /\ ToldTheSame'
<1>1. Current' = Current /\ SameBefore' = SameBefore
  BY DEF Current, SameBefore
<1>2. OneAtATime' /\ OneVersion'
  BY <1>1 DEF IInv, OneAtATime, OneVersion, Busy
<1>3. AnsweredInOrder' /\ OneCause'
  BY DEF IInv, AnsweredInOrder, OneCause, Busy
<1> QED
  BY <1>2, <1>3, RecordsStay

\* The run is over, or as good as.
LEMMA Over ==
  ASSUME IInv, UNCHANGED <<source, comfy, snapshots, records, wire, page>>,
         sync'.step \in {"close", "idle"}, sync'.identity = sync.identity,
         sync'.number = sync.number, sync'.blocked = sync.blocked,
         sync'.steady = sync.steady, sync'.call = sync.call,
         sync'.launched = sync.launched, sync'.kept => sync.kept,
         sync'.step = "idle" => sync.step = "close"
  PROVE  /\ OneAtATime' /\ OneVersion' /\ CallsAreNumbered' /\ AnsweredInOrder'
         /\ GraphsAreTheirOwn' /\ ToldTheSame'
         /\ (sync.step \in {"close"} \cup Busy \cup {"next", "stats", "nodes"} => OneCause')
<1>1. OneAtATime' /\ OneVersion' /\ AnsweredInOrder'
  BY DEF IInv, OneAtATime, OneVersion, AnsweredInOrder, Busy
<1>2. CallsAreNumbered'
  BY DEF IInv, CallsAreNumbered
<1>3. sync.step \in {"close"} \cup Busy \cup {"next", "stats", "nodes"} => OneCause'
  BY DEF IInv, OneCause, Busy
<1> QED
  BY <1>1, <1>2, <1>3, RecordsStay

\* The canvases that hold the same are told the same: nothing to compare with.
LEMMA AnsweredAlone ==
  ASSUME IInv, NEW record \in Records, NEW bridge \in Syncs, Answered(record, bridge),
         UNCHANGED <<source, comfy, snapshots, page>>,
         sync.step \in (Busy \ {"store"}) \cup {"next"}, sync.at \in Targets,
         SameBefore = {},
         bridge.number = sync.number, bridge.identity = sync.identity,
         bridge.kept = sync.kept, bridge.launched = sync.launched,
         bridge.call = sync.call, bridge.steady = sync.steady,
         sync.blocked # None => bridge.blocked = sync.blocked,
         record.graph # None =>
           /\ record.graph.of = Current
           /\ record.graph.steady => sync.identity = <<record.graph.by, record.graph.by>>,
         record.status = "UNAVAILABLE" =>
           bridge.blocked # None /\ record = Unavailable(bridge.blocked),
         record.status = "FAILED" => Current \in Refused,
         wire'.asked \subseteq wire.asked, wire'.answers \subseteq wire.answers,
         wire' \in [asked : SUBSET [id : Nat, about : Contents \cup {None}],
                    answers : SUBSET [id : Nat, ready : BOOLEAN, graph : Graph \cup {None}]],
         ~sync.kept /\ bridge.blocked = None => sync.launched = 0,
         running' \cup profiles' \subseteq excused' \cup {Session},
         ~sync.kept => running' \cup profiles' \subseteq excused'
  PROVE  IInv'
<1>1. sync \in Syncs
  BY DEF IInv, TypeOK
<1>2. /\ records' = [records EXCEPT ![sync.at] = record]
      /\ sync' \in Syncs /\ sync'.number = sync.number
      /\ sync'.identity = sync.identity /\ sync'.kept = sync.kept
      /\ sync'.launched = sync.launched /\ sync'.call = sync.call
      /\ sync'.steady = sync.steady /\ sync'.blocked = bridge.blocked
      /\ sync'.step = "next" /\ sync'.at = sync.at + 1
  BY <1>1, AnsweredSync
<1>3. record \in Records \cup {None}
  OBVIOUS
<1>4. \A t \in SameBefore : records[t] # None /\ record # None => record = records[t]
  OBVIOUS
<1> QED
  BY <1>2, <1>3, <1>4, AnsweredStep

\* A cause that becomes, or is, that of the whole run.
LEMMA AnsweredUnavailable ==
  ASSUME IInv, NEW error \in Errors,
         Answered(Unavailable(error), [sync EXCEPT !.blocked = error]),
         UNCHANGED <<source, comfy, snapshots, page, wire>>,
         sync.step \in (Busy \ {"store"}) \cup {"next"}, sync.at \in Targets,
         SameBefore = {}, sync.blocked \in {None, error},
         running' \cup profiles' \subseteq excused' \cup {Session},
         ~sync.kept => running' \cup profiles' \subseteq excused'
  PROVE  IInv'
<1> DEFINE record == Unavailable(error)
           bridge == [sync EXCEPT !.blocked = error]
<1>1. /\ record \in Records /\ record.graph = None /\ record.status = "UNAVAILABLE"
      /\ record = Unavailable(error)
  BY DEF Unavailable, Records
<1>2. error # None
  BY BridgeAssumption
<1>3. /\ bridge \in Syncs /\ bridge.number = sync.number
      /\ bridge.identity = sync.identity /\ bridge.kept = sync.kept
      /\ bridge.launched = sync.launched /\ bridge.call = sync.call
      /\ bridge.steady = sync.steady /\ bridge.blocked = error
  BY DEF IInv, TypeOK, Syncs
<1>4. wire' \in [asked : SUBSET [id : Nat, about : Contents \cup {None}],
                 answers : SUBSET [id : Nat, ready : BOOLEAN, graph : Graph \cup {None}]]
  BY DEF IInv, TypeOK
<1>5. Answered(record, bridge)
  OBVIOUS
<1> HIDE DEF record, bridge
<1> QED
  BY <1>1, <1>2, <1>3, <1>4, <1>5, AnsweredAlone

LEMMA AtTargetFacts ==
  ASSUME IInv, AtTarget PROVE sync.step = "next" /\ sync.at \in Targets
  BY BridgeAssumption DEF AtTarget, IInv, TypeOK, Syncs, Targets

\* What is known of the browser, read off the invariant.
LEMMA BrowserFacts ==
  ASSUME IInv
  PROVE  /\ running \cup profiles \subseteq excused \cup {Session}
         /\ sync.step = "next" /\ ~sync.kept => running \cup profiles \subseteq excused
         /\ sync.step = "next" /\ ~sync.kept /\ sync.blocked = None => sync.launched = 0
         /\ sync.step = "close" /\ ~sync.kept => running \cup profiles \subseteq excused
         /\ sync.step \in Busy => sync.at \in Targets /\ SameBefore = {} /\ sync.blocked = None
  BY DEF IInv, OneBrowser, Opening, OneAtATime, Busy

LEMMA ReuseStep == ASSUME IInv, Reuse PROVE IInv'
<1> DEFINE record == Reused(Snapshot)
<1>1. /\ UNCHANGED <<source, comfy, snapshots, wire, page, running, profiles, excused>>
      /\ SameBefore = {} /\ Snapshot # None /\ Answered(record, sync) /\ AtTarget
  BY DEF Reuse
<1>2. sync.step = "next" /\ sync.at \in Targets
  BY <1>1, AtTargetFacts
<1>3. /\ sync \in Syncs
      /\ wire \in [asked : SUBSET [id : Nat, about : Contents \cup {None}],
                   answers : SUBSET [id : Nat, ready : BOOLEAN, graph : Graph \cup {None}]]
  BY DEF IInv, TypeOK
<1>4. Current \in Contents
  BY <1>2 DEF Current, IInv, TypeOK
<1>5. sync.identity \in Identities
  <2>1. sync.step = "next" => sync.identity # None
    BY DEF IInv, AnsweredInOrder
  <2> QED
    BY <1>2, <1>3, <2>1 DEF Syncs
<1>6. Snapshot \in Graph
  BY <1>1, <1>4, <1>5 DEF Snapshot, IInv, TypeOK
<1>7. /\ Snapshot.of = Current
      /\ Snapshot.steady => sync.identity = <<Snapshot.by, Snapshot.by>>
  BY <1>1, <1>4, <1>5 DEF Snapshot, IInv, GraphsAreTheirOwn
<1>8. record \in Records /\ record.graph = Snapshot /\ record.status = "REUSED"
  BY <1>6 DEF Reused, Records
<1>9. /\ ~sync.kept /\ sync.blocked = None => sync.launched = 0
      /\ running \cup profiles \subseteq excused \cup {Session}
      /\ ~sync.kept => running \cup profiles \subseteq excused
  BY <1>2, BrowserFacts
<1> HIDE DEF record
<1> QED
  BY <1>1, <1>2, <1>3, <1>7, <1>8, <1>9, AnsweredAlone

LEMMA TellBlockedStep == ASSUME IInv, TellBlocked PROVE IInv'
<1>1. /\ UNCHANGED <<source, comfy, snapshots, wire, page, running, profiles, excused>>
      /\ SameBefore = {} /\ sync.blocked # None /\ AtTarget
      /\ Answered(Unavailable(sync.blocked), sync)
  BY DEF TellBlocked, Needed
<1>2. sync.step = "next" /\ sync.at \in Targets
  BY <1>1, AtTargetFacts
<1>3. sync.blocked \in Errors /\ sync = [sync EXCEPT !.blocked = sync.blocked]
  BY <1>1 DEF IInv, TypeOK, Syncs
<1>4. Answered(Unavailable(sync.blocked), [sync EXCEPT !.blocked = sync.blocked])
  BY <1>1, <1>3
<1> QED
  BY <1>1, <1>2, <1>3, <1>4, BrowserFacts, AnsweredUnavailable

LEMMA NoBrowserStep == ASSUME IInv, NoBrowser PROVE IInv'
<1>1. /\ UNCHANGED <<source, comfy, snapshots, wire, page, running, profiles, excused>>
      /\ SameBefore = {} /\ sync.blocked = None /\ AtTarget
      /\ Answered(Unavailable("no_browser"), [sync EXCEPT !.blocked = "no_browser"])
  BY DEF NoBrowser, Needed
<1>2. sync.step = "next" /\ sync.at \in Targets /\ "no_browser" \in Errors
  BY <1>1, AtTargetFacts DEF Errors
<1> QED
  BY <1>1, <1>2, BrowserFacts, AnsweredUnavailable

\* A browser that is closed leaves nothing that is not excused.
LEMMA ClosedIsClean ==
  ASSUME running \cup profiles \subseteq excused \cup {Session}, CloseSession
  PROVE  running' \cup profiles' \subseteq excused'
  BY DEF CloseSession

LEMMA OpenFailsStep ==
  ASSUME IInv, NEW error \in Errors, OpenFails(error) PROVE IInv'
<1>1. /\ UNCHANGED <<source, comfy, snapshots, wire, page>>
      /\ sync.step \in Busy \ {"store"} /\ CloseSession
      /\ Answered(Unavailable(error), [sync EXCEPT !.blocked = error])
  BY DEF OpenFails, Opening, Busy
<1>2. /\ sync.at \in Targets /\ SameBefore = {} /\ sync.blocked = None
      /\ running \cup profiles \subseteq excused \cup {Session}
  BY <1>1, BrowserFacts
<1>3. running' \cup profiles' \subseteq excused'
  BY <1>1, <1>2, ClosedIsClean
<1> QED
  BY <1>1, <1>2, <1>3, AnsweredUnavailable

LEMMA ConvertFailsStep == ASSUME IInv, ConvertFails PROVE IInv'
<1>1. /\ UNCHANGED <<source, comfy, snapshots, wire, page, running, profiles, excused>>
      /\ sync.step \in {"send", "convert"} /\ "bridge" \in Errors
      /\ Answered(Unavailable("bridge"), [sync EXCEPT !.blocked = "bridge"])
  BY DEF ConvertFails, Errors
<1>2. /\ sync.at \in Targets /\ SameBefore = {} /\ sync.blocked = None
      /\ running \cup profiles \subseteq excused \cup {Session}
      /\ sync.step \in Busy \ {"store"}
  BY <1>1, BrowserFacts DEF Busy
<1>3. sync.kept
  BY <1>1 DEF IInv, OneBrowser
<1> QED
  BY <1>1, <1>2, <1>3, AnsweredUnavailable

\* What the page answered to this very call.
LEMMA ReceiveGraphStep ==
  ASSUME IInv, NEW answer \in wire.answers, ReceiveGraph(answer)
  PROVE  IInv'
<1>1. /\ UNCHANGED <<source, comfy, snapshots, page, running, profiles, excused>>
      /\ sync.step = "convert" /\ answer.id = sync.awaited
      /\ wire' = [wire EXCEPT !.answers = @ \ {answer}]
  BY DEF ReceiveGraph, Matches, Received
<1>2. /\ sync.at \in Targets /\ SameBefore = {} /\ sync.blocked = None
      /\ running \cup profiles \subseteq excused \cup {Session}
      /\ sync.step \in Busy \ {"store"} /\ sync.kept
  BY <1>1, BrowserFacts DEF Busy, IInv, OneBrowser
<1>3. /\ wire'.asked = wire.asked /\ wire'.answers = wire.answers \ {answer}
      /\ wire' \in [asked : SUBSET [id : Nat, about : Contents \cup {None}],
                    answers : SUBSET [id : Nat, ready : BOOLEAN, graph : Graph \cup {None}]]
      /\ sync \in Syncs /\ answer.graph \in Graph \cup {None}
  BY <1>1 DEF IInv, TypeOK
<1>4. /\ IF answer.graph = None THEN Current \in Refused ELSE answer.graph.of = Current
      /\ answer.graph # None /\ answer.graph.steady =>
           sync.identity = <<answer.graph.by, answer.graph.by>>
  BY <1>1 DEF IInv, CallsAreNumbered
<1>5. CASE answer.graph = None
  <2>1. Answered(Rejected, sync) /\ Current \in Refused
    BY <1>1, <1>4, <1>5 DEF ReceiveGraph
  <2>2. Rejected \in Records /\ Rejected.graph = None /\ Rejected.status = "FAILED"
    BY DEF Rejected, Records
  <2> QED
    BY <1>1, <1>2, <1>3, <2>1, <2>2, AnsweredAlone
<1>6. CASE answer.graph # None
  <2> DEFINE record == Converted(answer.graph)
             after == IF sync.dry THEN sync.at + 1 ELSE sync.at
             step == IF sync.dry THEN "next" ELSE "store"
  <2>1. /\ records' = [records EXCEPT ![sync.at] = record]
        /\ sync' = [sync EXCEPT !.step = step, !.at = after, !.awaited = None]
    BY <1>1, <1>6 DEF ReceiveGraph
  <2>2. /\ record \in Records /\ record.graph = answer.graph /\ record.status = "CONVERTED"
    BY <1>3, <1>6 DEF Converted, Records
  <2>3. after \in 1..(TargetCount + 1) /\ step \in {"next", "store"}
    BY <1>2, BridgeAssumption DEF Targets
  <2>4. \/ step = "next" /\ after = sync.at + 1
        \/ step = "store" /\ after = sync.at
    OBVIOUS
  <2>5. record # None /\ record \in Records \cup {None}
    BY <2>2, BridgeAssumption
  <2> HIDE DEF record, after, step
  <2>6. /\ sync' \in Syncs /\ sync'.number = sync.number
        /\ sync'.identity = sync.identity /\ sync'.kept = sync.kept
        /\ sync'.launched = sync.launched /\ sync'.call = sync.call
        /\ sync'.steady = sync.steady /\ sync'.blocked = sync.blocked
        /\ sync'.step = step /\ sync'.at = after
    BY <1>3, <2>1, <2>3 DEF Syncs, Busy
  <2>7. \/ sync'.step = "next" /\ sync'.at = sync.at + 1
        \/ /\ sync'.step = "store" /\ sync'.at = sync.at /\ sync'.blocked = None
           /\ record # None /\ sync.kept /\ SameBefore = {}
    BY <1>2, <2>4, <2>5, <2>6
  <2>8. \A t \in SameBefore : records[t] # None /\ record # None => record = records[t]
    BY <1>2
  <2>9. /\ record.graph # None =>
             /\ record.graph.of = Current
             /\ record.graph.steady => sync.identity = <<record.graph.by, record.graph.by>>
        /\ record.status # "UNAVAILABLE" /\ record.status # "FAILED"
    BY <1>4, <1>6, <2>2
  <2> QED
    BY <1>1, <1>2, <1>3, <2>1, <2>5, <2>6, <2>7, <2>8, <2>9, AnsweredStep
<1> QED
  BY <1>5, <1>6

(***************************************************************************)
(* A canvas is asked about.                                                *)
(***************************************************************************)

LEMMA ProceedStep == ASSUME IInv, Proceed PROVE IInv'
<1>1. /\ UNCHANGED <<source, comfy, snapshots, records, wire, page, running, profiles, excused>>
      /\ sync' = [sync EXCEPT !.step = "send"] /\ sync.kept
      /\ AtTarget /\ SameBefore = {} /\ sync.blocked = None
  BY DEF Proceed, Needed
<1>2. sync.step = "next" /\ sync.at \in Targets
  BY <1>1, AtTargetFacts
<1>3. /\ sync' \in Syncs /\ sync'.number = sync.number /\ sync'.at = sync.at
      /\ sync'.identity = sync.identity /\ sync'.blocked = sync.blocked
      /\ sync'.kept = sync.kept /\ sync'.launched = sync.launched
      /\ sync'.call = sync.call /\ sync'.steady = sync.steady /\ sync'.step = "send"
  <2>1. sync \in Syncs
    BY DEF IInv, TypeOK
  <2>2. sync' = [sync EXCEPT !.step = "send"]
    BY <1>1
  <2> QED
    BY <2>1, <2>2 DEF Syncs, Busy
<1>4. TypeOK'
  BY <1>1, <1>3 DEF IInv, TypeOK
<1>5. OneBrowser'
  <2>1. Session' = Session
    BY <1>3 DEF Session
  <2> QED
    BY <1>1, <1>2, <1>3, <2>1 DEF IInv, OneBrowser, Opening
<1>6. CallsAreNumbered'
  BY <1>1, <1>2, <1>3 DEF IInv, CallsAreNumbered
<1>7. sync'.step \in Busy \ {"store"}
  BY <1>3 DEF Busy
<1> QED
  BY <1>1, <1>2, <1>3, <1>4, <1>5, <1>6, <1>7, MovesOn DEF IInv

LEMMA MakeProfileStep == ASSUME IInv, MakeProfile PROVE IInv'
<1>1. /\ UNCHANGED <<source, comfy, snapshots, records, wire, running, excused>>
      /\ sync' = [sync EXCEPT !.step = "spawn", !.launched = sync.launched + 1] /\ ~sync.kept
      /\ profiles' = profiles \cup {<<sync.number, sync.launched + 1>>}
      /\ page' = [loaded |-> None, ready |-> FALSE]
      /\ AtTarget /\ SameBefore = {} /\ sync.blocked = None
  BY DEF MakeProfile, Needed, Closed
<1>2. sync.step = "next" /\ sync.at \in Targets
  BY <1>1, AtTargetFacts
<1>3. sync.launched = 0 /\ running \cup profiles \subseteq excused
  BY <1>1, <1>2, BrowserFacts
<1>4. /\ sync' = [sync EXCEPT !.step = "spawn", !.launched = 1]
      /\ profiles' = profiles \cup {<<sync.number, 1>>}
  BY <1>1, <1>3
<1>5. /\ sync' \in Syncs /\ sync'.number = sync.number /\ sync'.at = sync.at
      /\ sync'.identity = sync.identity /\ sync'.blocked = sync.blocked
      /\ sync'.kept = sync.kept /\ sync'.launched = 1
      /\ sync'.call = sync.call /\ sync'.steady = sync.steady /\ sync'.step = "spawn"
  BY <1>4 DEF IInv, TypeOK, Syncs, Busy
<1>6. TypeOK' /\ page'.loaded = None
  BY <1>1, <1>5 DEF IInv, TypeOK
<1>7. OneBrowser'
  <2>1. Session' = <<sync.number, 1>> /\ profiles' = profiles \cup {Session'}
    BY <1>4, <1>5 DEF Session
  <2> QED
    BY <1>1, <1>3, <1>5, <2>1 DEF OneBrowser, Opening
<1>8. CallsAreNumbered'
  <2>1. wire.asked = {} /\ wire.answers = {}
    BY <1>3 DEF IInv, CallsAreNumbered
  <2> QED
    BY <1>1, <1>5, <2>1 DEF IInv, CallsAreNumbered
<1>9. sync'.step \in Busy \ {"store"}
  BY <1>5 DEF Busy
<1> QED
  BY <1>1, <1>2, <1>5, <1>6, <1>7, <1>8, <1>9, MovesOn DEF IInv

LEMMA SpawnStep == ASSUME IInv, Spawn PROVE IInv'
<1>1. /\ UNCHANGED <<source, comfy, snapshots, records, wire, page, profiles, excused>>
      /\ sync.step = "spawn" /\ sync' = [sync EXCEPT !.step = "page"]
      /\ running' = running \cup {Session}
  BY DEF Spawn
<1>2. /\ sync' \in Syncs /\ sync'.number = sync.number /\ sync'.at = sync.at
      /\ sync'.identity = sync.identity /\ sync'.blocked = sync.blocked
      /\ sync'.kept = sync.kept /\ sync'.launched = sync.launched
      /\ sync'.call = sync.call /\ sync'.steady = sync.steady /\ sync'.step = "page"
  BY <1>1 DEF IInv, TypeOK, Syncs, Busy
<1>3. TypeOK'
  BY <1>1, <1>2 DEF IInv, TypeOK
<1>4. OneBrowser'
  <2>1. Session' = Session
    BY <1>2 DEF Session
  <2> QED
    BY <1>1, <1>2, <2>1 DEF IInv, OneBrowser, Opening
<1>5. CallsAreNumbered'
  BY <1>1, <1>2 DEF IInv, CallsAreNumbered
<1>6. sync'.step \in Busy \ {"store"} /\ sync.step \in Busy \ {"store"}
  BY <1>1, <1>2 DEF Busy
<1> QED
  BY <1>1, <1>2, <1>3, <1>4, <1>5, <1>6, BrowserFacts, MovesOn DEF IInv

LEMMA AttachStep == ASSUME IInv, Attach PROVE IInv'
<1>1. /\ UNCHANGED <<source, comfy, snapshots, records, wire, page, running, profiles, excused>>
      /\ sync.step = "page" /\ sync' = [sync EXCEPT !.step = "ready"]
      /\ page.loaded # None
  BY DEF Attach
<1>2. /\ sync' \in Syncs /\ sync'.number = sync.number /\ sync'.at = sync.at
      /\ sync'.identity = sync.identity /\ sync'.blocked = sync.blocked
      /\ sync'.kept = sync.kept /\ sync'.launched = sync.launched
      /\ sync'.call = sync.call /\ sync'.steady = sync.steady /\ sync'.step = "ready"
  BY <1>1 DEF IInv, TypeOK, Syncs, Busy
<1>3. TypeOK'
  BY <1>1, <1>2 DEF IInv, TypeOK
<1>4. OneBrowser' /\ sync.launched = 1
  <2>1. Session' = Session
    BY <1>2 DEF Session
  <2> QED
    BY <1>1, <1>2, <2>1 DEF IInv, OneBrowser, Opening
<1>5. CallsAreNumbered'
  BY <1>1, <1>2, <1>4 DEF IInv, CallsAreNumbered
<1>6. sync'.step \in Busy \ {"store"} /\ sync.step \in Busy \ {"store"}
  BY <1>1, <1>2 DEF Busy
<1> QED
  BY <1>1, <1>2, <1>3, <1>4, <1>5, <1>6, BrowserFacts, MovesOn DEF IInv

\* A question whether the page is ready, with a number nothing has had.
LEMMA PollStep == ASSUME IInv, Poll PROVE IInv'
<1> DEFINE call == sync.call + 1
           polls == sync.polls + 1
<1>1. /\ UNCHANGED <<source, comfy, snapshots, records, page, running, profiles, excused>>
      /\ sync.step = "ready"
      /\ sync' = [sync EXCEPT !.step = "ready", !.call = call, !.awaited = call,
                              !.polls = polls]
      /\ wire' = [wire EXCEPT !.asked = @ \cup {[id |-> call, about |-> None]}]
  BY DEF Poll, Call
<1>2. call \in Nat /\ polls \in Nat /\ sync.call < call /\ sync.call \in Nat
  BY DEF IInv, TypeOK, Syncs
<1> HIDE DEF call, polls
<1>3. /\ sync' \in Syncs /\ sync'.number = sync.number /\ sync'.at = sync.at
      /\ sync'.identity = sync.identity /\ sync'.blocked = sync.blocked
      /\ sync'.kept = sync.kept /\ sync'.launched = sync.launched
      /\ sync'.call = call /\ sync'.steady = sync.steady /\ sync'.step = "ready"
  BY <1>1, <1>2 DEF IInv, TypeOK, Syncs, Busy
<1>4. /\ wire'.asked = wire.asked \cup {[id |-> call, about |-> None]}
      /\ wire'.answers = wire.answers
      /\ wire.asked \subseteq [id : Nat, about : Contents \cup {None}]
      /\ wire.answers \subseteq [id : Nat, ready : BOOLEAN, graph : Graph \cup {None}]
  BY <1>1 DEF IInv, TypeOK
<1>5. TypeOK'
  BY <1>1, <1>2, <1>3 DEF IInv, TypeOK
<1>6. OneBrowser'
  <2>1. Session' = Session
    BY <1>3 DEF Session
  <2> QED
    BY <1>1, <1>3, <2>1 DEF IInv, OneBrowser
<1>7. CallsAreNumbered'
  <2>1. /\ \A asked \in wire'.asked : asked.id <= sync'.call
        /\ \A answer \in wire'.answers : answer.id <= sync'.call
    BY <1>2, <1>3, <1>4 DEF IInv, CallsAreNumbered
  <2> QED
    BY <1>1, <1>3, <1>4, <2>1 DEF IInv, CallsAreNumbered
<1>8. sync'.step \in Busy \ {"store"} /\ sync.step \in Busy \ {"store"}
  BY <1>1, <1>3 DEF Busy
<1> QED
  BY <1>1, <1>3, <1>5, <1>6, <1>7, <1>8, BrowserFacts, MovesOn DEF IInv

LEMMA GiveUpPollStep == ASSUME IInv, GiveUpPoll PROVE IInv'
<1>1. /\ UNCHANGED <<source, comfy, snapshots, records, wire, page, running, profiles, excused>>
      /\ sync.step = "ready" /\ sync' = [sync EXCEPT !.awaited = None]
  BY DEF GiveUpPoll
<1>2. /\ sync' \in Syncs /\ sync'.number = sync.number /\ sync'.at = sync.at
      /\ sync'.identity = sync.identity /\ sync'.blocked = sync.blocked
      /\ sync'.kept = sync.kept /\ sync'.launched = sync.launched
      /\ sync'.call = sync.call /\ sync'.steady = sync.steady /\ sync'.step = "ready"
  BY <1>1 DEF IInv, TypeOK, Syncs
<1>3. TypeOK'
  BY <1>1, <1>2 DEF IInv, TypeOK
<1>4. OneBrowser'
  <2>1. Session' = Session
    BY <1>2 DEF Session
  <2> QED
    BY <1>1, <1>2, <2>1 DEF IInv, OneBrowser
<1>5. CallsAreNumbered'
  BY <1>1, <1>2 DEF IInv, CallsAreNumbered
<1>6. sync'.step \in Busy \ {"store"} /\ sync.step \in Busy \ {"store"}
  BY <1>1, <1>2 DEF Busy
<1> QED
  BY <1>1, <1>2, <1>3, <1>4, <1>5, <1>6, BrowserFacts, MovesOn DEF IInv

\* The question about the canvas: only its answer has this number.
LEMMA AskStep == ASSUME IInv, Ask PROVE IInv'
<1> DEFINE call == sync.call + 1
<1>1. Current \in Contents /\ Current # None
  <2>1. sync.step = "send" => sync.at \in Targets
    BY DEF IInv, OneAtATime, Busy
  <2> QED
    BY <2>1, BridgeAssumption DEF Ask, Current, IInv, TypeOK
<1>2. /\ UNCHANGED <<source, comfy, snapshots, records, page, running, profiles, excused>>
      /\ sync.step = "send"
      /\ sync' = [sync EXCEPT !.step = "convert", !.call = call, !.awaited = call,
                              !.polls = sync.polls]
      /\ wire' = [wire EXCEPT !.asked = @ \cup {[id |-> call, about |-> Current]}]
  BY <1>1 DEF Ask, Call
<1>3. call \in Nat /\ sync.call < call /\ sync.call \in Nat
  BY DEF IInv, TypeOK, Syncs
<1> HIDE DEF call
<1>4. /\ sync' \in Syncs /\ sync'.number = sync.number /\ sync'.at = sync.at
      /\ sync'.identity = sync.identity /\ sync'.blocked = sync.blocked
      /\ sync'.kept = sync.kept /\ sync'.launched = sync.launched
      /\ sync'.call = call /\ sync'.awaited = call
      /\ sync'.steady = sync.steady /\ sync'.step = "convert"
  BY <1>2, <1>3 DEF IInv, TypeOK, Syncs, Busy
<1>5. /\ wire'.asked = wire.asked \cup {[id |-> call, about |-> Current]}
      /\ wire'.answers = wire.answers
      /\ wire.asked \subseteq [id : Nat, about : Contents \cup {None}]
      /\ wire.answers \subseteq [id : Nat, ready : BOOLEAN, graph : Graph \cup {None}]
  BY <1>2 DEF IInv, TypeOK
<1>6. TypeOK'
  BY <1>1, <1>2, <1>3, <1>4 DEF IInv, TypeOK
<1>7. OneBrowser'
  <2>1. Session' = Session
    BY <1>4 DEF Session
  <2> QED
    BY <1>2, <1>4, <2>1 DEF IInv, OneBrowser, Opening
<1>8. CallsAreNumbered'
  <2>1. /\ \A asked \in wire'.asked : asked.id <= sync'.call
        /\ \A answer \in wire'.answers : answer.id <= sync'.call
    BY <1>3, <1>4, <1>5 DEF IInv, CallsAreNumbered
  <2>2. \A asked \in wire'.asked : asked.id = sync'.call => asked.about = Current
    BY <1>3, <1>4, <1>5 DEF IInv, CallsAreNumbered
  <2>3. \A answer \in wire'.answers : answer.id # sync'.call
    BY <1>3, <1>4, <1>5 DEF IInv, CallsAreNumbered
  <2>4. page.loaded # None /\ sync.launched = 1
    BY <1>2 DEF IInv, OneBrowser, CallsAreNumbered
  <2>5. Current' = Current
    BY <1>2, <1>4 DEF Current
  <2> QED
    BY <1>2, <1>4, <1>5, <2>1, <2>2, <2>3, <2>4, <2>5 DEF IInv, CallsAreNumbered
<1>9. sync'.step \in Busy \ {"store"} /\ sync.step \in Busy \ {"store"}
  BY <1>2, <1>4 DEF Busy
<1> QED
  BY <1>2, <1>4, <1>6, <1>7, <1>8, <1>9, BrowserFacts, MovesOn DEF IInv

LEMMA DropStep ==
  ASSUME IInv, NEW answer \in wire.answers, Drop(answer) PROVE IInv'
<1>1. /\ UNCHANGED <<source, comfy, snapshots, sync, records, page, running, profiles, excused>>
      /\ wire' = [wire EXCEPT !.answers = @ \ {answer}]
  BY DEF Drop, Received
<1>2. /\ TypeOK' /\ wire'.asked = wire.asked /\ wire'.answers = wire.answers \ {answer}
  BY <1>1 DEF IInv, TypeOK
<1>3. CallsAreNumbered'
  BY <1>1, <1>2 DEF IInv, CallsAreNumbered, Current
<1> QED
  BY <1>1, <1>2, <1>3, WorldStays DEF IInv

LEMMA ReceiveReadyStep ==
  ASSUME IInv, NEW answer \in wire.answers, ReceiveReady(answer) PROVE IInv'
<1>1. answer.ready \in BOOLEAN /\ sync \in Syncs
  BY DEF IInv, TypeOK
<1>2. ~sync.kept /\ sync.launched = 1 /\ sync.step = "ready"
  BY DEF ReceiveReady, IInv, OneBrowser, Opening
<1>3. /\ UNCHANGED <<source, comfy, snapshots, records, page, running, profiles, excused>>
      /\ wire' = [wire EXCEPT !.answers = @ \ {answer}]
      /\ sync' = IF answer.ready
                 THEN [sync EXCEPT !.step = "send", !.kept = TRUE, !.awaited = None]
                 ELSE [sync EXCEPT !.awaited = None]
  BY DEF ReceiveReady, Received
<1>4. /\ sync' \in Syncs /\ sync'.number = sync.number /\ sync'.at = sync.at
      /\ sync'.identity = sync.identity /\ sync'.blocked = sync.blocked
      /\ sync'.launched = sync.launched
      /\ sync'.call = sync.call /\ sync'.steady = sync.steady
      /\ \/ sync'.step = "send" /\ sync'.kept
         \/ sync'.step = "ready" /\ ~sync'.kept
  <2>1. CASE answer.ready
    BY <1>1, <1>2, <1>3, <2>1 DEF Syncs, Busy
  <2>2. CASE ~answer.ready
    BY <1>1, <1>2, <1>3, <2>2 DEF Syncs, Busy
  <2> QED
    BY <2>1, <2>2
<1>5. TypeOK' /\ wire'.asked = wire.asked /\ wire'.answers = wire.answers \ {answer}
  BY <1>3, <1>4 DEF IInv, TypeOK
<1>6. OneBrowser'
  <2>1. Session' = Session
    BY <1>4 DEF Session
  <2> QED
    BY <1>2, <1>3, <1>4, <2>1 DEF IInv, OneBrowser, Opening
<1>7. CallsAreNumbered'
  BY <1>2, <1>3, <1>4, <1>5 DEF IInv, CallsAreNumbered
<1>8. sync'.step \in Busy \ {"store"} /\ sync.step \in Busy \ {"store"}
  BY <1>2, <1>4 DEF Busy
<1> QED
  BY <1>2, <1>3, <1>4, <1>5, <1>6, <1>7, <1>8, BrowserFacts, MovesOn DEF IInv

(***************************************************************************)
(* The beginning and the end of a run.                                     *)
(***************************************************************************)

LEMMA BeginStep == ASSUME IInv, NEW dry \in BOOLEAN, Begin(dry) PROVE IInv'
<1>1. /\ UNCHANGED <<source, comfy, snapshots, running, profiles, excused>>
      /\ sync.step = "idle"
      /\ sync' = [step |-> "stats", number |-> sync.number + 1, dry |-> dry, at |-> 1,
                  versions |-> None, identity |-> None, blocked |-> None, kept |-> FALSE,
                  launched |-> 0, call |-> 0, awaited |-> None, polls |-> 0, steady |-> TRUE]
      /\ records' = [t \in Targets |-> None]
      /\ wire' = [asked |-> {}, answers |-> {}]
      /\ page' = [loaded |-> None, ready |-> FALSE]
  BY DEF Begin, Closed
<1>2. sync.number + 1 \in Nat /\ 1 \in 1..(TargetCount + 1)
  BY BridgeAssumption DEF IInv, TypeOK, Syncs
<1>3. /\ sync' \in Syncs /\ sync'.step = "stats" /\ sync'.launched = 0 /\ ~sync'.kept
      /\ sync'.call = 0
  BY <1>1, <1>2 DEF Syncs
<1>4. TypeOK'
  BY <1>1, <1>3 DEF IInv, TypeOK
<1>5. OneBrowser'
  BY <1>1, <1>3 DEF IInv, OneBrowser, Opening
<1>6. OneAtATime' /\ OneVersion'
  BY <1>1, <1>3 DEF OneAtATime, OneVersion, Busy
<1>7. CallsAreNumbered'
  BY <1>1, <1>3 DEF CallsAreNumbered
<1>8. AnsweredInOrder' /\ OneCause'
  BY <1>1, <1>3 DEF AnsweredInOrder, OneCause, Busy
<1>9. GraphsAreTheirOwn' /\ ToldTheSame'
  BY <1>1 DEF IInv, GraphsAreTheirOwn, ToldTheSame
<1> QED
  BY <1>4, <1>5, <1>6, <1>7, <1>8, <1>9 DEF IInv

\* Before the first canvas nothing has been said, asked or opened.
LEMMA NothingYet ==
  ASSUME IInv, sync.step \in {"stats", "nodes"}
  PROVE  /\ sync.launched = 0 /\ ~sync.kept /\ wire.asked = {} /\ wire.answers = {}
         /\ \A t \in Targets : records[t] = None
         /\ running \cup profiles \subseteq excused
  BY DEF IInv, OneBrowser, Opening, CallsAreNumbered, AnsweredInOrder

\* A request before the first canvas is answered.
LEMMA Identifies ==
  ASSUME IInv, sync.step \in {"stats", "nodes"},
         UNCHANGED <<source, comfy, snapshots, records, wire, page, running, profiles, excused>>,
         sync' \in Syncs, sync'.number = sync.number, sync'.at = sync.at,
         sync'.blocked = sync.blocked, sync'.kept = sync.kept,
         sync'.launched = sync.launched, sync'.call = sync.call, sync'.steady = sync.steady,
         \/ /\ sync'.step = "nodes" /\ sync'.versions = comfy.version
         \/ /\ sync'.step = "next" /\ sync'.identity = <<sync.versions, comfy.version>>
            /\ sync.step = "nodes"
  PROVE  IInv'
<1>1. /\ sync.launched = 0 /\ ~sync.kept /\ wire.asked = {} /\ wire.answers = {}
      /\ \A t \in Targets : records[t] = None
      /\ running \cup profiles \subseteq excused
  BY NothingYet
<1>2. TypeOK' /\ comfy.version \in Versions /\ comfy.version # None
  BY BridgeAssumption DEF IInv, TypeOK
<1>3. OneBrowser'
  BY <1>1 DEF IInv, OneBrowser, Opening, Session
<1>4. OneAtATime'
  BY DEF OneAtATime, Busy
<1>5. OneVersion'
  BY <1>1 DEF IInv, OneVersion, Busy
<1>6. CallsAreNumbered'
  BY <1>1 DEF CallsAreNumbered
<1>7. sync'.step = "next" => sync'.identity # None
  <2>1. sync'.step = "next" => sync.versions \in Versions
    BY DEF IInv, TypeOK, Syncs, AnsweredInOrder
  <2>2. sync'.step = "next" => sync'.identity \in Identities
    BY <1>2, <2>1 DEF Identities
  <2> QED
    BY <2>2, BridgeAssumption
<1>8. AnsweredInOrder' /\ OneCause'
  BY <1>1, <1>2, <1>7 DEF AnsweredInOrder, OneCause, Busy
<1>9. GraphsAreTheirOwn' /\ ToldTheSame'
  BY <1>1 DEF IInv, GraphsAreTheirOwn, ToldTheSame
<1> QED
  BY <1>2, <1>3, <1>4, <1>5, <1>6, <1>8, <1>9 DEF IInv

LEMMA FetchStatsStep == ASSUME IInv, FetchStats PROVE IInv'
<1>1. /\ UNCHANGED <<source, comfy, snapshots, records, wire, page, running, profiles, excused>>
      /\ sync.step = "stats"
      /\ sync' = [sync EXCEPT !.step = "nodes", !.versions = comfy.version]
  BY DEF FetchStats
<1>2. comfy.version \in Versions
  BY DEF IInv, TypeOK
<1>3. /\ sync' \in Syncs /\ sync'.number = sync.number /\ sync'.at = sync.at
      /\ sync'.blocked = sync.blocked /\ sync'.kept = sync.kept
      /\ sync'.launched = sync.launched /\ sync'.call = sync.call
      /\ sync'.steady = sync.steady
      /\ sync'.step = "nodes" /\ sync'.versions = comfy.version
  BY <1>1, <1>2 DEF IInv, TypeOK, Syncs
<1> QED
  BY <1>1, <1>3, Identifies

LEMMA FetchNodesStep == ASSUME IInv, FetchNodes PROVE IInv'
<1> DEFINE identity == <<sync.versions, comfy.version>>
<1>1. /\ UNCHANGED <<source, comfy, snapshots, records, wire, page, running, profiles, excused>>
      /\ sync.step = "nodes"
      /\ sync' = [sync EXCEPT !.step = "next", !.identity = identity]
  BY DEF FetchNodes
<1>2. identity \in Identities
  BY <1>1 DEF IInv, TypeOK, Syncs, AnsweredInOrder, Identities
<1> HIDE DEF identity
<1>3. /\ sync' \in Syncs /\ sync'.number = sync.number /\ sync'.at = sync.at
      /\ sync'.blocked = sync.blocked /\ sync'.kept = sync.kept
      /\ sync'.launched = sync.launched /\ sync'.call = sync.call
      /\ sync'.steady = sync.steady
      /\ sync'.step = "next" /\ sync'.identity = identity
  BY <1>1, <1>2 DEF IInv, TypeOK, Syncs
<1> QED
  BY <1>1, <1>3, Identifies DEF identity

\* Every canvas is told what stopped the run.
LEMMA NoIdentityStep == ASSUME IInv, NoIdentity PROVE IInv'
<1> DEFINE error == IF sync.step = "stats" THEN "unreachable" ELSE "not_ready"
<1>1. /\ UNCHANGED <<source, comfy, snapshots, wire, page, running, profiles, excused>>
      /\ sync.step \in {"stats", "nodes"}
      /\ records' = [t \in Targets |-> Unavailable(error)]
      /\ sync' = [sync EXCEPT !.step = "close"]
  BY DEF NoIdentity
<1>2. error \in Errors
  BY DEF Errors
<1> HIDE DEF error
<1>3. /\ sync' \in Syncs /\ sync'.number = sync.number /\ sync'.identity = sync.identity
      /\ sync'.kept = sync.kept /\ sync'.launched = sync.launched
      /\ sync'.call = sync.call /\ sync'.steady = sync.steady /\ sync'.step = "close"
  BY <1>1 DEF IInv, TypeOK, Syncs
<1>4. /\ sync.launched = 0 /\ ~sync.kept /\ wire.asked = {} /\ wire.answers = {}
      /\ running \cup profiles \subseteq excused
  BY <1>1, NothingYet
<1>5. /\ Unavailable(error) \in Records /\ Unavailable(error).graph = None
      /\ Unavailable(error).status = "UNAVAILABLE"
  BY <1>2 DEF Unavailable, Records
<1>6. \A t \in Targets : records'[t] = Unavailable(error)
  BY <1>1
<1>7. TypeOK'
  BY <1>1, <1>3, <1>5 DEF IInv, TypeOK
<1>8. OneBrowser'
  BY <1>1, <1>3, <1>4 DEF OneBrowser, Opening
<1>9. OneAtATime' /\ OneVersion'
  BY <1>1, <1>3, <1>4 DEF IInv, OneAtATime, OneVersion, Busy
<1>10. CallsAreNumbered'
  BY <1>1, <1>3, <1>4 DEF CallsAreNumbered
<1>11. AnsweredInOrder' /\ OneCause'
  BY <1>3, <1>6 DEF AnsweredInOrder, OneCause, Busy
<1>12. GraphsAreTheirOwn'
  BY <1>1, <1>3, <1>5, <1>6 DEF IInv, GraphsAreTheirOwn
<1>13. ToldTheSame'
  BY <1>5, <1>6 DEF ToldTheSame
<1> QED
  BY <1>7, <1>8, <1>9, <1>10, <1>11, <1>12, <1>13 DEF IInv

\* Remembered or not, a converted canvas is done with.
LEMMA StoredOrNot ==
  ASSUME IInv, sync.step = "store",
         UNCHANGED <<source, comfy, records, wire, page, running, profiles, excused>>,
         \/ UNCHANGED snapshots
         \/ snapshots' = [snapshots EXCEPT ![<<Current, sync.identity>>] =
                            records[sync.at].graph],
         sync' = [sync EXCEPT !.step = "next", !.at = @ + 1]
  PROVE  IInv'
<1> DEFINE after == sync.at + 1
<1>1. /\ sync.at \in Targets /\ sync.kept /\ sync.blocked = None /\ records[sync.at] # None
      /\ sync.identity # None /\ after \in 1..(TargetCount + 1)
  BY BridgeAssumption DEF IInv, OneAtATime, OneBrowser, AnsweredInOrder, Busy, Targets
<1>2. sync' = [sync EXCEPT !.step = "next", !.at = after] /\ after = sync.at + 1
  OBVIOUS
<1> HIDE DEF after
<1>3. /\ sync' \in Syncs /\ sync'.number = sync.number /\ sync'.at = after
      /\ sync'.identity = sync.identity /\ sync'.blocked = sync.blocked
      /\ sync'.kept = sync.kept /\ sync'.launched = sync.launched
      /\ sync'.call = sync.call /\ sync'.steady = sync.steady /\ sync'.step = "next"
  <2>1. sync \in Syncs
    BY DEF IInv, TypeOK
  <2> QED
    BY <1>1, <1>2, <2>1 DEF Syncs
<1>4. /\ records[sync.at] \in Records /\ records[sync.at].graph \in Graph \cup {None}
      /\ Current \in Contents /\ sync.identity \in Identities
  BY <1>1 DEF IInv, TypeOK, Syncs, Records, Current
<1>5. \A content \in Contents, identity \in Identities :
        \/ snapshots'[<<content, identity>>] = snapshots[<<content, identity>>]
        \/ /\ content = Current /\ identity = sync.identity
           /\ snapshots'[<<content, identity>>] = records[sync.at].graph
  BY <1>4 DEF IInv, TypeOK
<1>6. TypeOK'
  BY <1>3, <1>4 DEF IInv, TypeOK
<1>7. OneBrowser'
  <2>1. Session' = Session
    BY <1>3 DEF Session
  <2> QED
    BY <1>1, <1>3, <2>1 DEF IInv, OneBrowser, Opening
<1>8. OneAtATime' /\ OneVersion'
  BY <1>3 DEF IInv, OneAtATime, OneVersion, Busy
<1>9. CallsAreNumbered'
  BY <1>1, <1>3 DEF IInv, CallsAreNumbered
<1>10. AnsweredInOrder' /\ OneCause'
  <2>1. sync.at \in Nat /\ \A t \in Targets : t \in Nat
    BY <1>1, BridgeAssumption DEF Targets
  <2>2. \A t \in Targets : records[t] # None => t < after
    BY <1>2, <2>1 DEF IInv, AnsweredInOrder, Busy
  <2> QED
    BY <1>1, <1>3, <2>2 DEF IInv, AnsweredInOrder, OneCause, Busy
<1>11. GraphsAreTheirOwn'
  <2>1. records[sync.at].graph # None =>
          /\ records[sync.at].graph.of = Current
          /\ records[sync.at].graph.steady =>
               sync.identity = <<records[sync.at].graph.by, records[sync.at].graph.by>>
    BY <1>1 DEF IInv, GraphsAreTheirOwn, Current
  <2> QED
    BY <1>3, <1>5, <2>1 DEF IInv, GraphsAreTheirOwn
<1>12. ToldTheSame'
  BY DEF IInv, ToldTheSame
<1> QED
  BY <1>6, <1>7, <1>8, <1>9, <1>10, <1>11, <1>12 DEF IInv

LEMMA StoreStep == ASSUME IInv, Store PROVE IInv'
  BY StoredOrNot DEF Store

LEMMA StoreFailsStep == ASSUME IInv, StoreFails PROVE IInv'
  BY StoredOrNot DEF StoreFails

LEMMA FinishStep == ASSUME IInv, Finish PROVE IInv'
<1>1. /\ UNCHANGED <<source, comfy, snapshots, records, wire, page, running, profiles, excused>>
      /\ sync.step = "next" /\ sync' = [sync EXCEPT !.step = "close"]
  BY DEF Finish
<1>2. /\ sync' \in Syncs /\ sync'.number = sync.number /\ sync'.identity = sync.identity
      /\ sync'.blocked = sync.blocked /\ sync'.kept = sync.kept
      /\ sync'.launched = sync.launched /\ sync'.call = sync.call
      /\ sync'.steady = sync.steady /\ sync'.step = "close"
  BY <1>1 DEF IInv, TypeOK, Syncs
<1>3. TypeOK'
  BY <1>1, <1>2 DEF IInv, TypeOK
<1>4. OneBrowser'
  <2>1. Session' = Session
    BY <1>2 DEF Session
  <2> QED
    BY <1>1, <1>2, <2>1 DEF IInv, OneBrowser, Opening
<1> QED
  BY <1>1, <1>2, <1>3, <1>4, Over DEF IInv

LEMMA CloseStep == ASSUME IInv, Close PROVE IInv'
<1>1. /\ UNCHANGED <<source, comfy, snapshots, records, wire, page>>
      /\ sync.step = "close" /\ sync' = [sync EXCEPT !.step = "idle", !.kept = FALSE]
  BY DEF Close
<1>2. /\ sync' \in Syncs /\ sync'.number = sync.number /\ sync'.identity = sync.identity
      /\ sync'.blocked = sync.blocked /\ ~sync'.kept
      /\ sync'.launched = sync.launched /\ sync'.call = sync.call
      /\ sync'.steady = sync.steady /\ sync'.step = "idle"
  BY <1>1 DEF IInv, TypeOK, Syncs
<1>3. TypeOK'
  BY <1>1, <1>2 DEF IInv, TypeOK
<1>4. running' \cup profiles' \subseteq excused'
  <2>1. CASE sync.kept
    BY <2>1, BrowserFacts, ClosedIsClean DEF Close
  <2>2. CASE ~sync.kept
    BY <1>1, <2>2, BrowserFacts DEF Close
  <2> QED
    BY <2>1, <2>2
<1>5. OneBrowser'
  BY <1>2, <1>4 DEF IInv, OneBrowser, Opening
<1> QED
  BY <1>1, <1>2, <1>3, <1>5, Over DEF IInv

\* A session that is being opened stays, and is excused.
LEMMA InterruptStep == ASSUME IInv, Interrupt PROVE IInv'
<1>1. /\ UNCHANGED <<source, comfy, snapshots, records, wire, page, running, profiles>>
      /\ sync.step \notin {"idle", "close"} /\ sync' = [sync EXCEPT !.step = "close"]
      /\ excused' = IF sync.step \in Opening THEN excused \cup {Session} ELSE excused
  BY DEF Interrupt
<1>2. /\ sync' \in Syncs /\ sync'.number = sync.number /\ sync'.identity = sync.identity
      /\ sync'.blocked = sync.blocked /\ sync'.kept = sync.kept
      /\ sync'.launched = sync.launched /\ sync'.call = sync.call
      /\ sync'.steady = sync.steady /\ sync'.step = "close"
  BY <1>1 DEF IInv, TypeOK, Syncs
<1>3. TypeOK'
  BY <1>1, <1>2 DEF IInv, TypeOK
<1>4. OneBrowser'
  <2>1. Session' = Session
    BY <1>2 DEF Session
  <2>2. CASE sync.step \in Opening
    BY <1>1, <1>2, <2>1, <2>2 DEF IInv, OneBrowser, Opening
  <2>3. CASE sync.step \notin Opening
    BY <1>1, <1>2, <2>1, <2>3 DEF IInv, OneBrowser, Opening
  <2> QED
    BY <2>2, <2>3
<1>5. sync.step \in Busy \cup {"next", "stats", "nodes"}
  BY <1>1 DEF IInv, TypeOK, Syncs
<1> QED
  BY <1>1, <1>2, <1>3, <1>4, <1>5, Over DEF IInv

-----------------------------------------------------------------------------

LEMMA StutterStep == ASSUME IInv, UNCHANGED vars PROVE IInv'
<1>1. UNCHANGED <<source, comfy, snapshots, sync, records, wire, page, running, profiles, excused>>
  BY DEF vars
<1>2. TypeOK'
  BY <1>1 DEF IInv, TypeOK
<1>3. CallsAreNumbered'
  BY <1>1 DEF IInv, CallsAreNumbered, Current
<1> QED
  BY <1>1, <1>2, <1>3, WorldStays DEF IInv

\* The invariant: types, one browser, one canvas at a time, one version unless
\* ComfyUI was replaced, numbered calls, one cause, and what the runs check.
THEOREM Inductive == Spec => []IInv
<1>1. IInv /\ [Next]_vars => IInv'
  <2> SUFFICES ASSUME IInv, [Next]_vars PROVE IInv'
    OBVIOUS
  <2>1. CASE SyncStep
    BY <2>1, BeginStep, FetchStatsStep, FetchNodesStep, NoIdentityStep, RepeatStep,
       ReuseStep, TellBlockedStep, ProceedStep, NoBrowserStep, MakeProfileStep, SpawnStep,
       AttachStep, OpenFailsStep, PollStep, GiveUpPollStep, AskStep, DropStep,
       ReceiveReadyStep, ReceiveGraphStep, ConvertFailsStep, StoreStep, StoreFailsStep,
       FinishStep, CloseStep, InterruptStep
       DEF SyncStep
  <2>2. CASE WorldStep
    BY <2>2, PageLoadsStep, PageReadiesStep, PageAnswersStep, BrowserDiesStep,
       ComfyStopsStep, ComfyStartsStep
       DEF WorldStep
  <2>3. CASE UNCHANGED vars
    BY <2>3, StutterStep
  <2> QED
    BY <2>1, <2>2, <2>3 DEF Next
<1> QED
  BY <1>1, InitIInv, PTL DEF Spec

\* A graph is of the canvas it is filed under, and made by the ComfyUI that the run
\* established unless that was replaced under it: no answer to another call, and no
\* snapshot of other bytes or another ComfyUI, is ever taken for it.
THEOREM GraphsStayTheirOwn == Spec => []GraphsAreTheirOwn
<1>1. IInv => GraphsAreTheirOwn
  BY DEF IInv
<1> QED
  BY <1>1, Inductive, PTL

\* One cause for all the canvases nobody could be asked about, and one answer for
\* the same bytes (ConversionBridge, converted_this_run).
THEOREM AllAreToldTheSame == Spec => []ToldTheSame
<1>1. IInv => ToldTheSame
  BY DEF IInv
<1> QED
  BY <1>1, Inductive, PTL

\* One browser for a run, and neither process nor profile of it left when the command
\* ends, but for an interrupt while it was being opened and files that would not go.
THEOREM NoBrowserIsForgotten == Spec => []BrowsersAreAccountedFor
<1>1. IInv => BrowsersAreAccountedFor
  BY DEF IInv, OneBrowser, BrowsersAreAccountedFor, Opening
<1> QED
  BY <1>1, Inductive, PTL

=============================================================================
