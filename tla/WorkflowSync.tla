---------------------------- MODULE WorkflowSync ----------------------------
(***************************************************************************)
(* One workflow sync after another: the files of the source folders, the   *)
(* inventory that remembers which file is which workflow, and the          *)
(* definitions and graph copies written for the gateway.                   *)
(*                                                                         *)
(* A run reads everything at its start (sources, inventory), decides in    *)
(* memory, then writes one definition at a time and the inventory last, so *)
(* it can stop between any two writes.  A user edits sources between runs  *)
(* and definitions at any time.  A dry run takes none of the steps that    *)
(* write and is left out, and so is a workflow's report.                   *)
(***************************************************************************)
EXTENDS Naturals, FiniteSets, Sequences

CONSTANTS
    FileCount,      \* the paths a source folder may hold are 1..FileCount, in scan order
    Stem,           \* Stem[f]: the slug of a path's file name
    Spelling,       \* Spelling[s]: the ids tried for a slug, in order: s, s-2, s-3, ...
    Ids, Rank,      \* the ids, and their place in the order of their spelling
    Contents,       \* what a file may hold
    Format,         \* Format[c]: "api" export, "ui" canvas, or "bad", which is no workflow
    Meaning,        \* Meaning[c]: its canonical form, the same for a reformatted copy
    MaxChanges,     \* bound: changes of the sources, and files that cannot be read
    MaxMishaps,     \* bound: definitions edited, inventories lost, writes that fail, runs
                    \* that stop
    Clear,          \* the pairs <<content, contract>> the analysis can settle
    FieldsOf,       \* FieldsOf[<<content, contract>>]: the ids of the fields it plans
    None,           \* no file, no record, no id
    Curator,        \* the words of a person in one place of a definition
    Garbled         \* a definition saved in a state nobody can parse

Files == 1..FileCount

VARIABLES
    source,     \* source[f]: what the file at path f holds
    inventory,  \* the set of entries; their order on disk is Before
    defs,       \* defs[i]: the definition i.yaml
    graphs,     \* the imported copies <<id, content>>: a copy's name carries its content
    run,        \* the sync that is running, or Idle
    settled,    \* history: the last run met no difficulty and nothing has changed since
    changes,    \* history: what MaxChanges bounds
    mishaps     \* history: what MaxMishaps bounds

vars == <<source, inventory, defs, graphs, run, settled, changes, mishaps>>

-----------------------------------------------------------------------------
(* Data *)

\* What the importer generates on its own from a graph: the fingerprint covers
\* the graph, what ComfyUI declared about its inputs, and the file's name.
Fingerprint == [graph : Contents, contract : BOOLEAN, name : DOMAIN Spelling]

\* Where a definition has words: the label and help line of each field, and its
\* presentation, which every definition has.
SlotsOf(c, contract) == FieldsOf[<<c, contract>>] \cup {"presentation"}

\* The importer's own words in one place, known by the graph they were made from.
OwnWords == [graph : Contents, contract : BOOLEAN]

\* The words that go with a fingerprint.
WordsOf(fp) ==
    [slot \in SlotsOf(fp.graph, fp.contract) |->
        [graph |-> fp.graph, contract |-> fp.contract]]

Wordings ==
    UNION {[SlotsOf(plan[1], plan[2]) -> OwnWords \cup {Curator}] :
              plan \in Contents \X BOOLEAN}

Words == Wordings \cup {Garbled}

Definition ==
    [graph : Contents, contract : BOOLEAN, name : DOMAIN Spelling, words : Words]

SeenStates == {"ATTENTION", "NEW", "CHANGED", "UNCHANGED"}

\* InventoryEntry.  "content" is None for a file that could not be read, whose
\* hash is the hash of no bytes at all.
Entry == [id : Ids, state : SeenStates \cup {"REMOVED"}, path : Files,
          content : Contents \cup {None}, record : Fingerprint \cup {None}]

\* SyncedWorkflow of a file that was found.
Row == [state : SeenStates \cup {"DUPLICATE"}, id : Ids \cup {None},
        content : Contents \cup {None}, record : Fingerprint \cup {None}]

ASSUME SyncAssumption ==
    /\ FileCount \in Nat /\ MaxChanges \in Nat /\ MaxMishaps \in Nat
    /\ Stem \in [Files -> DOMAIN Spelling]
    /\ \A s \in DOMAIN Spelling : Spelling[s] \in Seq(Ids)
    /\ Rank \in [Ids -> Nat]
    /\ Clear \subseteq Contents \X BOOLEAN
    /\ None \notin Contents \cup Ids
    /\ None \notin Definition \cup Entry \cup Fingerprint
    /\ Curator \notin OwnWords /\ Garbled \notin Wordings

\* The canonical form is of the parsed document (_canonical_hash), and so is what
\* the document is classified as: a reformatted copy has the format of the original.
ASSUME MeaningAssumption ==
    \A c, d \in Contents :
        Meaning[c] = Meaning[d] /\ Meaning[c] # None => Format[c] = Format[d]

Idle == [phase |-> "idle"]

Present == {f \in Files : source[f] # None}

\* A run between two files, and one that is writing a definition.
AtFile ==
    [phase : {"next"}, todo : SUBSET Present, rows : [Present -> Row],
     used : SUBSET inventory, contract : BOOLEAN, expects : BOOLEAN,
     regenerate : BOOLEAN, well : BOOLEAN, quiet : BOOLEAN]
AtWrite ==
    [phase : {"graph", "definition"}, built : Definition, read : Definition \cup {None},
     todo : SUBSET Present, rows : [Present -> Row],
     used : SUBSET inventory, contract : BOOLEAN, expects : BOOLEAN,
     regenerate : BOOLEAN, well : BOOLEAN, quiet : BOOLEAN]

\* The order of the entries in the document: those of files that were seen, in
\* scan order, then those carried forward, by id.
Before(e, d) ==
    \/ e.state # "REMOVED" /\ d.state = "REMOVED"
    \/ e.state # "REMOVED" /\ d.state # "REMOVED" /\ e.path < d.path
    \/ e.state = "REMOVED" /\ d.state = "REMOVED" /\ Rank[e.id] < Rank[d.id]

\* A look-up table keeps the first of the entries that share a key.
First(S) ==
    LET first == {e \in S : \A d \in S \ {e} : Before(e, d)}
    IN  IF first = {} THEN None ELSE CHOOSE e \in first : TRUE

ByContent(c) == First({e \in inventory : e.content = c})
ByCanonical(c) ==
    IF Meaning[c] = None THEN None
    ELSE First({e \in inventory : e.content # None /\ Meaning[e.content] = Meaning[c]})
BySourcePath(f) == First({e \in inventory : e.path = f})

InventoryIds == {e.id : e \in inventory}

-----------------------------------------------------------------------------
(* What a run decides from what it read.  "seen" maps each path found to the
   content read there, None where the file could not be read; "converted" are
   the canvases this run's ComfyUI turned into graphs. *)

HasGraph(c, converted) ==
    c # None /\ (Format[c] = "api" \/ c \in converted)

\* The state after classification, conversion and analysis.
Judged(c, converted, contract) ==
    IF HasGraph(c, converted) /\ <<c, contract>> \in Clear
    THEN "NEW" ELSE "ATTENTION"

\* Only workflows with a graph are grouped, by the meaning of the source.
IsDuplicate(f, seen, converted) ==
    /\ HasGraph(seen[f], converted)
    /\ \E g \in DOMAIN seen :
          /\ g < f
          /\ HasGraph(seen[g], converted)
          /\ Meaning[seen[g]] = Meaning[seen[f]]

\* Mutant of Considered: a duplicate claims the entry of its path.
ConsideredWithDuplicates(seen, converted) == {f \in DOMAIN seen : seen[f] # None}

\* The files that may claim an entry: readable ones that are no duplicates.
Considered(seen, converted) ==
    {f \in DOMAIN seen : seen[f] # None /\ ~IsDuplicate(f, seen, converted)}

\* Mutant of ClaimsByContent: one pass, in which a path is as good as content.
ClaimsInOnePass(claim, seen) ==
    \A f \in DOMAIN claim :
        LET taken == {claim[g] : g \in {h \in DOMAIN claim : h < f}}
        IN  claim[f] = IF ByContent(seen[f]) # None /\ ByContent(seen[f]) \notin taken
                       THEN ByContent(seen[f])
                       ELSE IF BySourcePath(f) \notin taken THEN BySourcePath(f)
                       ELSE None

\* Mutant of ClaimsByContent: nothing is known by its content.
ClaimsByPathOnly(claim, seen) == \A f \in DOMAIN claim : claim[f] = None

\* Phase 1: content across every candidate, in scan order.  The rule determines
\* the claims; each entry is claimed once.
ClaimsByContent(claim, seen) ==
    \A f \in DOMAIN claim :
        LET taken == {claim[g] : g \in {h \in DOMAIN claim : h < f}}
            byContent == ByContent(seen[f])
            byCanonical == ByCanonical(seen[f])
        IN  claim[f] = IF byContent # None /\ byContent \notin taken THEN byContent
                       ELSE IF byCanonical \notin taken THEN byCanonical
                       ELSE None

\* Phase 2: the path, over what content did not claim.
ClaimByPath(f, claim) ==
    LET entry == BySourcePath(f)
    IN  IF entry \in {claim[g] : g \in DOMAIN claim} THEN None ELSE entry

\* Mutant of Allocates: the ids of entries no file explains are given again.
AllocatesForgotten(id) ==
    \A f \in DOMAIN id :
        \E n \in DOMAIN Spelling[Stem[f]] :
            LET taken == {id[g] : g \in {h \in DOMAIN id : h < f}} IN
            /\ id[f] = Spelling[Stem[f]][n] /\ id[f] \notin taken
            /\ \A m \in 1..(n - 1) : Spelling[Stem[f]][m] \in taken

\* _allocate_ids: an entry's id travels with it; the rest are given in scan order,
\* each the first spelling of its slug that is not taken (_unique).  Bound: a run
\* for which the spellings do not suffice is not begun.
Allocates(id) ==
    \A f \in DOMAIN id :
        \E n \in DOMAIN Spelling[Stem[f]] :
            LET taken == InventoryIds \cup {id[g] : g \in {h \in DOMAIN id : h < f}} IN
            /\ id[f] = Spelling[Stem[f]][n] /\ id[f] \notin taken
            /\ \A m \in 1..(n - 1) : Spelling[Stem[f]][m] \in taken

-----------------------------------------------------------------------------
(* A run *)

\* run_sync up to the first write.  "asked" is whether a bridge reached ComfyUI,
\* which is only tried for a canvas; "converted" what it made of the canvases.
Start(unreadable, asked, converted, regenerate) ==
    LET seen == [f \in Present |-> IF f \in unreadable THEN None ELSE source[f]]
        canvases == {seen[f] : f \in {g \in Present :
                        seen[g] # None /\ Format[seen[g]] = "ui"}}
        considered == Considered(seen, converted)
        contract == asked
    IN
    /\ run = Idle
    /\ unreadable \subseteq Present
    /\ changes + Cardinality(unreadable) <= MaxChanges
    /\ asked => canvases # {}
    /\ converted \subseteq (IF asked THEN canvases ELSE {})
    /\ \E claim \in [considered -> inventory \cup {None}] :
       /\ ClaimsByContent(claim, seen)
       /\ LET entry == [f \in considered |->
                          IF claim[f] # None THEN claim[f] ELSE ClaimByPath(f, claim)]
              matched == {f \in considered : entry[f] # None}
              duplicates == {f \in Present : IsDuplicate(f, seen, converted)}
              fresh == Present \ (matched \cup duplicates)
              state == [f \in Present |->
                          IF f \in duplicates THEN "DUPLICATE"
                          ELSE IF f \in matched /\ Judged(seen[f], converted, contract) = "NEW"
                          THEN IF claim[f] # None THEN "UNCHANGED" ELSE "CHANGED"
                          ELSE Judged(seen[f], converted, contract)]
          IN \E new \in [fresh -> Ids] :
             /\ Allocates(new)
             /\ run' =
                 [phase |-> "next",
                  todo |-> {f \in Present : state[f] \in {"NEW", "CHANGED", "UNCHANGED"}},
                  rows |-> [f \in Present |->
                     [state |-> state[f],
                      id |-> IF f \in duplicates THEN None
                             ELSE IF f \in matched THEN entry[f].id ELSE new[f],
                      content |-> seen[f],
                      record |-> IF f \in matched THEN entry[f].record ELSE None]],
                  used |-> {entry[f] : f \in matched},
                  contract |-> contract,
                  expects |-> canvases # {},
                  regenerate |-> regenerate,
                  well |-> unreadable = {} /\ (asked \/ canvases = {})
                             /\ converted = canvases,
                  quiet |-> settled /\ ~regenerate /\ unreadable = {}
                             /\ (asked \/ canvases = {}) /\ converted = canvases]
    /\ settled' = FALSE
    /\ changes' = changes + Cardinality(unreadable)
    /\ UNCHANGED <<source, inventory, defs, graphs, mishaps>>

\* _generate_definitions takes the files in scan order, one after another.
IsCurrent(f) == \A g \in run.todo : f <= g
Current == CHOOSE f \in run.todo : IsCurrent(f)
Target == run.rows[Current].id

Generated == [graph |-> run.rows[Current].content, contract |-> run.contract,
              name |-> Stem[Current]]

AsRecorded == run.rows[Current].record = Generated

\* _kept_for_want_of_a_contract: a run that knows less than the one that wrote
\* the definition may not rewrite it.
KeptForWantOfAContract ==
    LET record == run.rows[Current].record IN
    /\ ~run.contract
    /\ IF record = None THEN run.expects ELSE record.contract

\* An unchanged workflow whose definition is left as it is.
IsKept ==
    /\ run.rows[Current].state = "UNCHANGED"
    /\ defs[Target] # None
    /\ IF AsRecorded THEN ~run.regenerate ELSE KeptForWantOfAContract

\* Mutant of MergedWords: a workflow that changed gets new words.
MergedWordsOfTheUnchanged(file) ==
    IF file = None \/ run.regenerate \/ run.rows[Current].state = "CHANGED"
    THEN WordsOf(Generated)
    ELSE file.words

\* _field_label, _field_help, _merge_presentation: what the file says in a place is
\* kept unless it is the importer's own, which is told by the record of what it last
\* generated there.  Only the fields of the new plan are asked for: what the file
\* says of any other is left out.
MergedWords(file) ==
    LET record == run.rows[Current].record
        Known(slot) == record # None /\ slot \in DOMAIN WordsOf(record)
        Kept(slot) ==
            /\ file # None /\ ~run.regenerate
            /\ slot \in DOMAIN file.words
            /\ Known(slot) => file.words[slot] # WordsOf(record)[slot]
    IN  [slot \in DOMAIN WordsOf(Generated) |->
            IF Kept(slot) THEN file.words[slot] ELSE WordsOf(Generated)[slot]]

\* build_definition: the name is the file's, everything else is generated.
Built(file) ==
    [graph |-> Generated.graph, contract |-> Generated.contract,
     name |-> IF file = None THEN Generated.name ELSE file.name,
     words |-> MergedWords(file)]

\* The current file is done: its row is "row", and "well" whether it went well.
Done(row, well) ==
    run' = [phase |-> "next", todo |-> run.todo \ {Current},
            rows |-> [run.rows EXCEPT ![Current] = row],
            used |-> run.used, contract |-> run.contract, expects |-> run.expects,
            regenerate |-> run.regenerate,
            well |-> run.well /\ well, quiet |-> run.quiet]

Recorded == [run.rows[Current] EXCEPT !.record = Generated]
Failed == [run.rows[Current] EXCEPT !.state = "ATTENTION"]

AtNext == run.phase = "next" /\ \E f \in run.todo : IsCurrent(f)

Keep ==
    /\ AtNext
    /\ IsKept
    /\ Done(run.rows[Current], TRUE)
    /\ UNCHANGED <<source, inventory, defs, graphs, settled, changes, mishaps>>

\* read_curated: a definition that cannot be parsed may hold somebody's words.
Unreadable(file) == file # None /\ file.words = Garbled

Refuse ==
    /\ AtNext
    /\ ~IsKept
    /\ Unreadable(defs[Target])
    /\ Done(Failed, FALSE)
    /\ UNCHANGED <<source, inventory, defs, graphs, settled, changes, mishaps>>

\* What would be written is there, byte for byte: only the record moves.
IsOnDisk ==
    /\ run.rows[Current].state = "UNCHANGED"
    /\ defs[Target] # None
    /\ Built(defs[Target]) = defs[Target]
    /\ <<Target, Generated.graph>> \in graphs

Recognise ==
    /\ AtNext
    /\ ~IsKept
    /\ ~Unreadable(defs[Target]) /\ IsOnDisk
    /\ Done(Recorded, TRUE)
    /\ UNCHANGED <<source, inventory, defs, graphs, settled, changes, mishaps>>

\* The file is read and the definition built and validated; nothing is written yet.
Build ==
    /\ AtNext
    /\ ~IsKept
    /\ ~Unreadable(defs[Target]) /\ ~IsOnDisk
    /\ run' = [phase |-> "graph", built |-> Built(defs[Target]), read |-> defs[Target],
               todo |-> run.todo, rows |-> run.rows, used |-> run.used,
               contract |-> run.contract, expects |-> run.expects,
               regenerate |-> run.regenerate, well |-> run.well, quiet |-> run.quiet]
    /\ UNCHANGED <<source, inventory, defs, graphs, settled, changes, mishaps>>

\* Mutant of PlaceGraph: an existing definition is trusted to have its graph.
PlaceGraphOnce ==
    /\ run.phase = "graph"
    /\ graphs' = IF run.read = None THEN graphs \cup {<<Target, run.built.graph>>} ELSE graphs
    /\ run' = [run EXCEPT !.phase = "definition"]
    /\ UNCHANGED <<source, inventory, defs, settled, changes, mishaps>>

\* write_definition: the graph first, under a name of its own content.
PlaceGraph ==
    /\ run.phase = "graph"
    /\ graphs' = graphs \cup {<<Target, run.built.graph>>}
    /\ run' = [run EXCEPT !.phase = "definition"]
    /\ UNCHANGED <<source, inventory, defs, settled, changes, mishaps>>

PlaceDefinition ==
    /\ run.phase = "definition"
    /\ defs' = [defs EXCEPT ![Target] = run.built]
    /\ Done(Recorded, TRUE)
    /\ UNCHANGED <<source, inventory, graphs, settled, changes, mishaps>>

Mishap ==
    /\ mishaps < MaxMishaps
    /\ mishaps' = mishaps + 1

\* A definition that does not load, a full disk, a file held open: this workflow
\* needs attention, whatever definition it had is still there.
WriteFails ==
    /\ run.phase \in {"graph", "definition"}
    /\ Done(Failed, FALSE)
    /\ Mishap
    /\ UNCHANGED <<source, inventory, defs, graphs, settled, changes>>

\* _entry_for a file that was found; a duplicate has no entry of its own.
SeenEntries ==
    {[id |-> run.rows[f].id, state |-> run.rows[f].state, path |-> f,
      content |-> run.rows[f].content, record |-> run.rows[f].record] :
        f \in {g \in DOMAIN run.rows : run.rows[g].state # "DUPLICATE"}}

\* _carry_forward: the entries no file accounts for.
CarriedForward == {[e EXCEPT !.state = "REMOVED"] : e \in inventory \ run.used}

WriteInventory ==
    /\ run.phase = "next" /\ run.todo = {}
    /\ inventory' = SeenEntries \cup CarriedForward
    /\ run' = Idle
    /\ settled' = run.well
    /\ UNCHANGED <<source, defs, graphs, changes, mishaps>>

\* The inventory cannot be written, or the run is stopped anywhere.
Stop ==
    /\ run # Idle
    /\ run' = Idle
    /\ Mishap
    /\ UNCHANGED <<source, inventory, defs, graphs, settled, changes>>

-----------------------------------------------------------------------------
(* The user.  A run has read the sources before its first step here ends, so
   their edits are taken between runs; definitions are edited at any time. *)

\* Files are edited, renamed, swapped, removed.
Rearrange(files) ==
    /\ run = Idle
    /\ changes < MaxChanges
    /\ source # files
    /\ source' = files
    /\ changes' = changes + 1
    /\ settled' = FALSE
    /\ UNCHANGED <<inventory, defs, graphs, run, mishaps>>

\* The rest of a run that is disturbed makes no claim of its own.
Disturb ==
    /\ Mishap
    /\ settled' = FALSE
    /\ run' = IF run = Idle THEN Idle ELSE [run EXCEPT !.well = FALSE, !.quiet = FALSE]

\* What a person makes of a definition: their own words in one place, or a file
\* nobody can parse, which they mend in their own words.
Edits(file) ==
    IF file.words = Garbled
    THEN {[slot \in SlotsOf(file.graph, file.contract) |-> Curator]}
    ELSE {Garbled} \cup {[file.words EXCEPT ![slot] = Curator] : slot \in DOMAIN file.words}

Curate(i, words) ==
    /\ defs[i].words # words
    /\ defs' = [defs EXCEPT ![i].words = words]
    /\ Disturb
    /\ UNCHANGED <<source, inventory, graphs, changes>>

Delete(i) ==
    /\ defs[i] # None
    /\ defs' = [defs EXCEPT ![i] = None]
    /\ Disturb
    /\ UNCHANGED <<source, inventory, graphs, changes>>

\* The inventory is deleted, or damaged so that a run treats it as empty.
LoseInventory ==
    /\ run = Idle
    /\ inventory # {}
    /\ inventory' = {}
    /\ Disturb
    /\ UNCHANGED <<source, defs, graphs, changes>>

-----------------------------------------------------------------------------

Init ==
    /\ source \in [Files -> Contents \cup {None}]
    /\ inventory = {}
    /\ defs = [i \in Ids |-> None]
    /\ graphs = {}
    /\ run = Idle
    /\ settled = FALSE
    /\ changes = 0 /\ mishaps = 0

SyncStep ==
    \/ Keep \/ Refuse \/ Recognise \/ Build
    \/ PlaceGraph \/ PlaceDefinition \/ WriteFails
    \/ WriteInventory \/ Stop

UserStep ==
    \/ \E files \in [Files -> Contents \cup {None}] : Rearrange(files)
    \/ \E i \in Ids : defs[i] # None /\ \E words \in Edits(defs[i]) : Curate(i, words)
    \/ \E i \in Ids : Delete(i)
    \/ LoseInventory

Next ==
    \/ \E unreadable \in SUBSET Files, converted \in SUBSET Contents,
          asked, regenerate \in BOOLEAN :
          Start(unreadable, asked, converted, regenerate)
    \/ SyncStep
    \/ UserStep

Spec == Init /\ [][Next]_vars

-----------------------------------------------------------------------------
(* Properties *)

TypeOK ==
    /\ source \in [Files -> Contents \cup {None}]
    /\ inventory \subseteq Entry
    /\ defs \in [Ids -> Definition \cup {None}]
    /\ graphs \subseteq Ids \X Contents
    /\ run \in {Idle} \cup AtFile \cup AtWrite
    /\ settled \in BOOLEAN /\ changes \in 0..MaxChanges /\ mishaps \in 0..MaxMishaps

\* An id is what saved setups and imported profiles are keyed on (engine.py
\* _match_against_history, _allocate_ids): two workflows never share one, however
\* files came, went and swapped names, and one file has one seen entry.
IdsAreUnique ==
    \A e, d \in inventory :
        e # d => /\ e.id # d.id
                 /\ ~(e.state # "REMOVED" /\ d.state # "REMOVED" /\ e.path = d.path)

\* "Nothing has been deleted" (_carry_forward): an id the inventory held is held
\* after every run, whatever became of the files.
NothingForgotten ==
    [][WriteInventory => InventoryIds \subseteq {e.id : e \in inventory'}]_vars

\* Identity is content before it is a path (_match_against_history): while some
\* file still holds what an entry remembers, the entry's id stays with that
\* content, however the files were renamed and whatever was put in their place.
IdFollowsContent ==
    [][WriteInventory =>
        \A e \in inventory :
            (/\ e.content # None
             /\ e = ByContent(e.content)
             /\ \E f \in DOMAIN run.rows :
                   /\ run.rows[f].content = e.content
                   /\ run.rows[f].state # "DUPLICATE")
            => \E d \in inventory' :
                  /\ d.id = e.id
                  /\ d.content # None
                  /\ d.content = e.content \/ Meaning[d.content] = Meaning[e.content]
      ]_vars

\* The graph is placed before the definition that names it (write_definition):
\* a run may stop anywhere, and no definition on disk is without its graph.
DefinitionsHaveTheirGraphs ==
    \A i \in Ids : defs[i] # None => <<i, defs[i].graph>> \in graphs

\* The places of a definition where a person's words stand.
CuratedSlots(words) == {slot \in DOMAIN words : words[slot] = Curator}

\* A run that was not asked to regenerate takes a person's words out of no place the
\* new definition still has (_field_label, _field_help, _merge_presentation), whatever
\* became of the record of what was generated there, unless the person wrote them
\* after the run had read the file.  Of a place that it does not have, a field the
\* changed workflow is without, the words are dropped.
WordsReadAreKept ==
    [][PlaceDefinition /\ ~run.regenerate /\ run.read # None =>
        CuratedSlots(run.read.words) \cap SlotsOf(run.built.graph, run.built.contract)
            \subseteq CuratedSlots(defs'[Target].words)]_vars

\* A run over what the last run left, with nothing changed and nothing failing,
\* writes no definition (the fingerprint, _kept_for_want_of_a_contract,
\* _already_on_disk): syncing twice is syncing once.
QuietRunWritesNothing ==
    run # Idle /\ run.quiet => run.phase = "next"

=============================================================================
