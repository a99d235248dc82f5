------------------------ MODULE WorkflowSync_proofs ------------------------
(***************************************************************************)
(* Theorems about WorkflowSync for any number of files, any contents, ids  *)
(* and spellings, and any number of changes and mishaps.                   *)
(***************************************************************************)
EXTENDS WorkflowSync, FiniteSetTheorems, TLAPS

IsWorkflow(f) == run.rows[f].state # "DUPLICATE"

\* The rows of a run: each file that is no duplicate has an id of its own, which
\* is the id of no entry the run leaves for carrying forward.
RowsAreDistinct ==
  run # Idle =>
    /\ \A f \in Present : IsWorkflow(f) => run.rows[f].id \in Ids
    /\ \A f, g \in Present :
          IsWorkflow(f) /\ IsWorkflow(g) /\ f # g => run.rows[f].id # run.rows[g].id
    /\ \A f \in Present, e \in inventory \ run.used :
          IsWorkflow(f) => run.rows[f].id # e.id

\* An entry that a run used is the entry of some row.
UsedHaveRows ==
  run # Idle =>
    \A e \in run.used : \E f \in Present : IsWorkflow(f) /\ run.rows[f].id = e.id

\* The files still to be taken have graphs to write.
TodoAreGraphs ==
  run # Idle =>
    \A f \in run.todo : IsWorkflow(f) /\ run.rows[f].content \in Contents

\* The words of a person in what was read stand in what was built of it, wherever
\* that has a place for them.
WordsAreKept(read, built) ==
  CuratedSlots(read.words) \cap SlotsOf(built.graph, built.contract)
    \subseteq CuratedSlots(built.words)

\* What a run that is writing has made out of what it read.
WritesWhatItRead ==
  run # Idle /\ run.phase # "next" =>
    /\ \E f \in run.todo : IsCurrent(f)
    /\ run.phase = "definition" => <<Target, run.built.graph>> \in graphs
    /\ ~run.regenerate /\ run.read # None => WordsAreKept(run.read, run.built)

IInv ==
  /\ TypeOK /\ IdsAreUnique /\ DefinitionsHaveTheirGraphs
  /\ RowsAreDistinct /\ UsedHaveRows /\ TodoAreGraphs /\ WritesWhatItRead

\* Identity is content: while a row holds what an entry is the first to remember,
\* a row with that content, or its canonical form, has the entry's id.
ContentIsKnown ==
  run # Idle =>
    \A e \in inventory :
       (/\ e.content # None /\ e = ByContent(e.content)
        /\ \E f \in Present : IsWorkflow(f) /\ run.rows[f].content = e.content)
       => \E g \in Present :
             /\ IsWorkflow(g) /\ run.rows[g].id = e.id /\ run.rows[g].content # None
             /\ \/ run.rows[g].content = e.content
                \/ Meaning[run.rows[g].content] = Meaning[e.content]

\* What a run for which nothing fails reads, and what it makes of it: its ComfyUI
\* is asked, and converts every canvas, if there is any.
Sources == [f \in Present |-> source[f]]
Canvases == {Sources[f] : f \in {g \in Present : Sources[g] # None /\ Format[Sources[g]] = "ui"}}
Asked == Canvases # {}
Importable(f) ==
  /\ ~IsDuplicate(f, Sources, Canvases)
  /\ Judged(Sources[f], Canvases, Asked) = "NEW"

\* The record of a file whose definition the next such run would keep.
IsUpToDate(f, record) ==
  \/ record = [graph |-> Sources[f], contract |-> Asked, name |-> Stem[f]]
  \/ ~Asked /\ record # None /\ record.contract

\* A run that has met no difficulty leaves the files it is done with up to date.
WellRunsBringUpToDate ==
  run # Idle /\ run.well =>
    /\ run.contract = Asked /\ run.expects = Asked
    /\ \A f \in Present :
          /\ run.rows[f].content = Sources[f]
          /\ IsWorkflow(f) <=> ~IsDuplicate(f, Sources, Canvases)
          /\ Importable(f) /\ f \notin run.todo
               => IsUpToDate(f, run.rows[f].record) /\ defs[run.rows[f].id] # None

\* After such a run the inventory knows every file by its content, and as up to
\* date, until something changes.
SettledIsUpToDate ==
  settled =>
    /\ run = Idle
    /\ \A f \in Present : Importable(f) =>
          \E e \in inventory :
             /\ e.content = Sources[f] /\ e.state # "REMOVED"
             /\ \A d \in inventory : d.content = Sources[f] /\ d.state # "REMOVED" => d = e
             /\ IsUpToDate(f, e.record) /\ defs[e.id] # None

\* So a quiet run has only files to take whose definitions it keeps.
QuietRunsKeep ==
  run # Idle /\ run.quiet =>
    /\ run.phase = "next" /\ ~run.regenerate /\ run.contract = Asked
    /\ \A f \in run.todo :
          /\ run.rows[f].content = Sources[f] /\ run.rows[f].state = "UNCHANGED"
          /\ IsUpToDate(f, run.rows[f].record) /\ defs[run.rows[f].id] # None

LEMMA FirstIsOneOfThem == \A S : First(S) \in S \cup {None}
  BY DEF First

LEMMA FilesAreNumbers == Files \subseteq Nat
  BY SyncAssumption DEF Files

\* Phase 1 gives an entry to one file only.
LEMMA ClaimsAreDistinct ==
  ASSUME NEW S \in SUBSET Files, NEW claim \in [S -> inventory \cup {None}], NEW seen,
         ClaimsByContent(claim, seen)
  PROVE  \A f, g \in S : f # g /\ claim[f] # None => claim[f] # claim[g]
<1>1. \A f \in S : claim[f] # None =>
        claim[f] \notin {claim[g] : g \in {h \in S : h < f}}
  BY DEF ClaimsByContent
<1>2. \A f, g \in S : g < f /\ claim[f] # None => claim[f] # claim[g]
  BY <1>1
<1> QED
  BY <1>2, FilesAreNumbers

\* An id given by a run is no entry's id, and is given to one file only.
LEMMA NewIdsAreDistinct ==
  ASSUME NEW S \in SUBSET Files, NEW new \in [S -> Ids], Allocates(new)
  PROVE  /\ \A f \in S : new[f] \notin InventoryIds
         /\ \A f, g \in S : f # g => new[f] # new[g]
<1>1. \A f \in S : new[f] \notin InventoryIds \cup {new[g] : g \in {h \in S : h < f}}
  BY DEF Allocates
<1>2. \A f, g \in S : g < f => new[f] # new[g]
  BY <1>1
<1> QED
  BY <1>1, <1>2, FilesAreNumbers

LEMMA InitIInv == Init => IInv
<1> SUFFICES ASSUME Init PROVE IInv
  OBVIOUS
<1>1. run = Idle /\ inventory = {} /\ graphs = {}
  BY DEF Init
<1>2. TypeOK
  <2>1. defs \in [Ids -> Definition \cup {None}] /\ source \in [Files -> Contents \cup {None}]
    BY DEF Init
  <2>2. MaxChanges \in Nat /\ MaxMishaps \in Nat
    BY SyncAssumption
  <2>3. changes = 0 /\ mishaps = 0 /\ settled = FALSE
    BY DEF Init
  <2>4. changes \in 0..MaxChanges /\ mishaps \in 0..MaxMishaps
    BY <2>2, <2>3
  <2> QED
    BY <1>1, <2>1, <2>3, <2>4 DEF TypeOK
<1> QED
  BY <1>1, <1>2 DEF Init, IInv, IdsAreUnique, DefinitionsHaveTheirGraphs, RowsAreDistinct,
                    UsedHaveRows, TodoAreGraphs, WritesWhatItRead

\* What a run that has just decided looks like.
LEMMA StartFacts ==
  ASSUME IInv, NEW unreadable \in SUBSET Files, NEW converted \in SUBSET Contents,
         NEW asked \in BOOLEAN, NEW regenerate \in BOOLEAN,
         Start(unreadable, asked, converted, regenerate)
  PROVE  /\ run' \in AtFile' /\ run'.phase = "next"
         /\ RowsAreDistinct' /\ UsedHaveRows' /\ TodoAreGraphs'
<1> DEFINE seen == [f \in Present |-> IF f \in unreadable THEN None ELSE source[f]]
           considered == Considered(seen, converted)
           canvases == {seen[f] : f \in {g \in Present :
                           seen[g] # None /\ Format[seen[g]] = "ui"}}
           entry(claim) == [f \in considered |->
                          IF claim[f] # None THEN claim[f] ELSE ClaimByPath(f, claim)]
           matched(claim) == {f \in considered : entry(claim)[f] # None}
           duplicates == {f \in Present : IsDuplicate(f, seen, converted)}
           fresh(claim) == Present \ (matched(claim) \cup duplicates)
           state(claim) == [f \in Present |->
                          IF f \in duplicates THEN "DUPLICATE"
                          ELSE IF f \in matched(claim) /\ Judged(seen[f], converted, asked) = "NEW"
                          THEN IF claim[f] # None THEN "UNCHANGED" ELSE "CHANGED"
                          ELSE Judged(seen[f], converted, asked)]
           rows(claim, new) == [f \in Present |->
                     [state |-> state(claim)[f],
                      id |-> IF f \in duplicates THEN None
                             ELSE IF f \in matched(claim) THEN entry(claim)[f].id ELSE new[f],
                      content |-> seen[f],
                      record |-> IF f \in matched(claim) THEN entry(claim)[f].record ELSE None]]
<1>1. PICK claim \in [considered -> inventory \cup {None}] :
        /\ ClaimsByContent(claim, seen)
        /\ \E new \in [fresh(claim) -> Ids] :
             /\ Allocates(new)
             /\ run' = [phase |-> "next",
                  todo |-> {f \in Present : state(claim)[f] \in {"NEW", "CHANGED", "UNCHANGED"}},
                  rows |-> rows(claim, new),
                  used |-> {entry(claim)[f] : f \in matched(claim)},
                  contract |-> asked, expects |-> canvases # {}, regenerate |-> regenerate,
                  well |-> unreadable = {} /\ (asked \/ canvases = {}) /\ converted = canvases,
                  quiet |-> settled /\ ~regenerate /\ unreadable = {}
                             /\ (asked \/ canvases = {}) /\ converted = canvases]
  BY DEF Start
<1>2. PICK new \in [fresh(claim) -> Ids] :
             /\ Allocates(new)
             /\ run' = [phase |-> "next",
                  todo |-> {f \in Present : state(claim)[f] \in {"NEW", "CHANGED", "UNCHANGED"}},
                  rows |-> rows(claim, new),
                  used |-> {entry(claim)[f] : f \in matched(claim)},
                  contract |-> asked, expects |-> canvases # {}, regenerate |-> regenerate,
                  well |-> unreadable = {} /\ (asked \/ canvases = {}) /\ converted = canvases,
                  quiet |-> settled /\ ~regenerate /\ unreadable = {}
                             /\ (asked \/ canvases = {}) /\ converted = canvases]
  BY <1>1
<1> DEFINE entry1 == entry(claim)
           matched1 == matched(claim)
           fresh1 == fresh(claim)
           state1 == state(claim)
           rows1 == rows(claim, new)
<1>3. /\ inventory' = inventory /\ Present' = Present
      /\ source' = source
  BY DEF Start, Present
<1>4. /\ considered \subseteq Present
      /\ \A f \in considered : f \notin duplicates /\ seen[f] # None
  BY DEF Considered
<1>5. \A f \in Present : seen[f] \in Contents \cup {None}
  BY DEF IInv, TypeOK, Present
<1>6. \A f \in considered : entry1[f] \in inventory \cup {None}
  <2>1. \A f : BySourcePath(f) \in inventory \cup {None}
    BY FirstIsOneOfThem DEF BySourcePath
  <2> QED
    BY <2>1 DEF ClaimByPath
\* Content claims an entry once, and the path only what content left.
<1>7. \A f, g \in matched1 : f # g => entry1[f] # entry1[g]
  <2> SUFFICES ASSUME NEW f \in matched1, NEW g \in matched1, f # g
               PROVE  entry1[f] # entry1[g]
    OBVIOUS
  <2>1. considered \subseteq Files
    BY <1>4 DEF Present
  <2>2. \A h, k \in considered : h # k /\ claim[h] # None => claim[h] # claim[k]
    BY <1>1, <2>1, ClaimsAreDistinct
  <2>3. claim[f] # None \/ claim[g] # None => claim[f] # claim[g]
    <3> HIDE DEF considered, entry1
    <3> QED
      BY <2>2
  <2>4. \A h, k \in matched1 : claim[h] = None => entry1[h] # claim[k]
    BY DEF ClaimByPath
  <2>5. CASE claim[f] = None /\ claim[g] = None
    <3>1. /\ entry1[f] = BySourcePath(f) /\ entry1[f] # None
          /\ entry1[g] = BySourcePath(g) /\ entry1[g] # None
      BY <2>5 DEF ClaimByPath
    <3>2. entry1[f].path = f /\ entry1[g].path = g
      BY <3>1, FirstIsOneOfThem DEF BySourcePath
    <3> QED
      BY <3>2
  <2> QED
    BY <2>3, <2>4, <2>5
<1>8. /\ \A f \in fresh1 : new[f] \in Ids /\ new[f] \notin InventoryIds
      /\ \A f, g \in fresh1 : f # g => new[f] # new[g]
  <2>1. fresh1 \in SUBSET Files
    BY DEF Present
  <2> QED
    BY <1>2, <2>1, NewIdsAreDistinct, ZenonT(40)
<1>9. \A f \in Present : state1[f] \in SeenStates \cup {"DUPLICATE"}
  BY DEF Judged, SeenStates
<1>10. \A f \in Present : state1[f] # "DUPLICATE" <=> f \notin duplicates
  BY DEF Judged
<1>11. \A f \in Present :
        /\ rows1[f].state = state1[f] /\ rows1[f].content = seen[f]
        /\ f \in matched1 => rows1[f].id = entry1[f].id /\ rows1[f].record = entry1[f].record
        /\ f \in fresh1 => rows1[f].id = new[f] /\ rows1[f].record = None
        /\ f \in duplicates => rows1[f].id = None /\ rows1[f].record = None
        /\ f \in matched1 \/ f \in fresh1 \/ f \in duplicates
  BY <1>4
<1>12. \A f \in matched1 : entry1[f] \in inventory /\ f \in Present /\ f \notin duplicates
  BY <1>4, <1>6
<1>13. inventory \subseteq Entry /\ \A e, d \in inventory : e # d => e.id # d.id
  BY DEF IInv, TypeOK, IdsAreUnique
<1>14. \A e \in inventory : e.id \in Ids /\ e.record \in Fingerprint \cup {None}
  BY <1>13 DEF Entry
<1>15. /\ run'.phase = "next" /\ run'.rows = rows1
       /\ run'.used = {entry1[f] : f \in matched1}
       /\ run'.todo = {f \in Present : state1[f] \in {"NEW", "CHANGED", "UNCHANGED"}}
  BY <1>2
<1>21. run' = [phase |-> "next", todo |-> run'.todo, rows |-> rows1, used |-> run'.used,
                contract |-> run'.contract, expects |-> run'.expects,
                regenerate |-> run'.regenerate, well |-> run'.well, quiet |-> run'.quiet]
  BY <1>2
<1>22. /\ run'.contract \in BOOLEAN /\ run'.regenerate \in BOOLEAN
       /\ run'.expects \in BOOLEAN /\ run'.well \in BOOLEAN /\ run'.quiet \in BOOLEAN
  BY <1>2
<1> HIDE DEF entry1, matched1, fresh1, state1, rows1, duplicates, seen, considered, canvases
<1>16. \A f \in Present : rows1[f] \in Row
  <2> SUFFICES ASSUME NEW f \in Present PROVE rows1[f] \in Row
    OBVIOUS
  <2>1. rows1[f] = [state |-> rows1[f].state, id |-> rows1[f].id,
                    content |-> rows1[f].content, record |-> rows1[f].record]
    BY DEF rows1, rows
  <2>2. rows1[f].state \in SeenStates \cup {"DUPLICATE"} /\ rows1[f].content \in Contents \cup {None}
    BY <1>5, <1>9, <1>11
  <2>3. rows1[f].id \in Ids \cup {None} /\ rows1[f].record \in Fingerprint \cup {None}
    BY <1>8, <1>11, <1>12, <1>14
  <2> QED
    BY <2>1, <2>2, <2>3 DEF Row
<1>17. run' \in AtFile'
  <2>2. run'.todo \in SUBSET Present' /\ run'.used \in SUBSET inventory'
    BY <1>3, <1>12, <1>15
  <2>3. rows1 \in [Present' -> Row]
    BY <1>3, <1>16 DEF rows1, rows
  <2> QED
    BY <2>2, <2>3, <1>21, <1>22 DEF AtFile
<1>18. RowsAreDistinct'
  <2>1. \A f \in Present : f \notin duplicates => rows1[f].id \in Ids
    BY <1>8, <1>11, <1>12, <1>14
  <2>2. ASSUME NEW f \in Present, NEW g \in Present,
               f \notin duplicates, g \notin duplicates, f # g
        PROVE  rows1[f].id # rows1[g].id
    <3>1. CASE f \in matched1 /\ g \in matched1
      <4>1. entry1[f] # entry1[g] /\ entry1[f] \in inventory /\ entry1[g] \in inventory
        BY <2>2, <3>1, <1>7, <1>12
      <4>2. rows1[f].id = entry1[f].id /\ rows1[g].id = entry1[g].id
        BY <3>1, <1>11
      <4> QED
        BY <4>1, <4>2, <1>13
    <3>2. CASE f \in fresh1 /\ g \in fresh1
      <4>1. rows1[f].id = new[f] /\ rows1[g].id = new[g]
        BY <3>2, <1>11
      <4> QED
        BY <2>2, <3>2, <4>1, <1>8
    <3>3. \A h, k \in Present : h \in matched1 /\ k \in fresh1 => rows1[h].id # rows1[k].id
      <4> SUFFICES ASSUME NEW h \in matched1, NEW k \in fresh1, h \in Present, k \in Present
                   PROVE  rows1[h].id # rows1[k].id
        OBVIOUS
      <4>1. rows1[h].id = entry1[h].id /\ rows1[k].id = new[k]
        BY <1>11
      <4> QED
        BY <4>1, <1>8, <1>12 DEF InventoryIds
    <3> QED
      BY <2>2, <3>1, <3>2, <3>3, <1>11
  <2>3. ASSUME NEW f \in Present, NEW e \in inventory \ run'.used, f \notin duplicates
        PROVE  rows1[f].id # e.id
    <3>1. CASE f \in matched1
      <4>1. rows1[f].id = entry1[f].id /\ entry1[f] \in inventory
        BY <3>1, <1>11, <1>12
      <4>2. entry1[f] # e /\ e \in inventory
        BY <3>1, <1>15
      <4> QED
        BY <4>1, <4>2, <1>13
    <3>2. CASE f \in fresh1
      <4>1. rows1[f].id = new[f]
        BY <3>2, <1>11
      <4> QED
        BY <3>2, <4>1, <1>8 DEF InventoryIds
    <3> QED
      BY <2>3, <3>1, <3>2, <1>11
  <2>4. \A f \in Present : (run'.rows[f].state # "DUPLICATE") <=> f \notin duplicates
    <3> SUFFICES ASSUME NEW f \in Present
                 PROVE  run'.rows[f].state # "DUPLICATE" <=> f \notin duplicates
      OBVIOUS
    <3>1. run'.rows[f].state = state1[f]
      BY <1>11, <1>15
    <3> QED
      BY <3>1, <1>10
  <2> QED
    BY <2>1, <2>2, <2>3, <2>4, <1>3, <1>15 DEF RowsAreDistinct, IsWorkflow
<1>19. UsedHaveRows'
  <2>1. ASSUME NEW f \in matched1
        PROVE  f \in Present /\ run'.rows[f].state # "DUPLICATE" /\ run'.rows[f].id = entry1[f].id
    <3>1. f \in Present /\ f \notin duplicates
      BY <1>12
    <3>2. run'.rows[f].state = state1[f] /\ run'.rows[f].id = entry1[f].id
      BY <3>1, <1>11, <1>15
    <3> QED
      BY <3>1, <3>2, <1>10
  <2> QED
    BY <2>1, <1>3, <1>15 DEF UsedHaveRows, IsWorkflow
<1>20. TodoAreGraphs'
  <2>1. ASSUME NEW f \in run'.todo
        PROVE  run'.rows[f].state # "DUPLICATE" /\ run'.rows[f].content \in Contents
    <3>1. f \in Present /\ state1[f] \in {"NEW", "CHANGED", "UNCHANGED"}
      BY <2>1, <1>15
    <3>2. seen[f] # None
      BY <3>1, <1>10 DEF state1, state, Judged, HasGraph
    <3> QED
      BY <3>1, <3>2, <1>5, <1>11, <1>15
  <2> QED
    BY <2>1 DEF TodoAreGraphs, IsWorkflow
<1> QED
  BY <1>15, <1>17, <1>18, <1>19, <1>20

\* What a run starts from: what it read, and the rows it made of it.
SeenBy(unreadable) == [f \in Present |-> IF f \in unreadable THEN None ELSE source[f]]
CanvasesIn(seen) == {seen[f] : f \in {g \in Present : seen[g] # None /\ Format[seen[g]] = "ui"}}

LEMMA StartRows ==
  ASSUME IInv, NEW unreadable \in SUBSET Files, NEW converted \in SUBSET Contents,
         NEW asked \in BOOLEAN, NEW regenerate \in BOOLEAN,
         Start(unreadable, asked, converted, regenerate)
  PROVE  LET seen == SeenBy(unreadable)
             considered == Considered(seen, converted)
         IN  /\ run'.phase = "next" /\ run' # Idle
             /\ run'.contract = asked /\ run'.regenerate = regenerate
             /\ run'.expects = (CanvasesIn(seen) # {})
             /\ run'.well = (unreadable = {} /\ (asked \/ CanvasesIn(seen) = {})
                               /\ converted = CanvasesIn(seen))
             /\ run'.quiet = (settled /\ ~regenerate /\ unreadable = {}
                               /\ (asked \/ CanvasesIn(seen) = {})
                               /\ converted = CanvasesIn(seen))
             /\ asked => CanvasesIn(seen) # {}
             /\ \E claim \in [considered -> inventory \cup {None}] :
                  /\ ClaimsByContent(claim, seen)
                  /\ run'.todo = {f \in Present : ~IsDuplicate(f, seen, converted)
                                               /\ Judged(seen[f], converted, asked) = "NEW"}
                  /\ \A f \in Present :
                       /\ run'.rows[f].content = seen[f]
                       /\ run'.rows[f].state # "DUPLICATE"
                            <=> ~IsDuplicate(f, seen, converted)
                  /\ \A f \in considered : claim[f] # None =>
                       /\ run'.rows[f].id = claim[f].id /\ run'.rows[f].record = claim[f].record
                       /\ Judged(seen[f], converted, asked) = "NEW"
                            => run'.rows[f].state = "UNCHANGED"
<1> DEFINE seen == SeenBy(unreadable)
           considered == Considered(seen, converted)
           canvases == CanvasesIn(seen)
           entry(claim) == [f \in considered |->
                          IF claim[f] # None THEN claim[f] ELSE ClaimByPath(f, claim)]
           matched(claim) == {f \in considered : entry(claim)[f] # None}
           duplicates == {f \in Present : IsDuplicate(f, seen, converted)}
           fresh(claim) == Present \ (matched(claim) \cup duplicates)
           state(claim) == [f \in Present |->
                          IF f \in duplicates THEN "DUPLICATE"
                          ELSE IF f \in matched(claim) /\ Judged(seen[f], converted, asked) = "NEW"
                          THEN IF claim[f] # None THEN "UNCHANGED" ELSE "CHANGED"
                          ELSE Judged(seen[f], converted, asked)]
           rows(claim, new) == [f \in Present |->
                     [state |-> state(claim)[f],
                      id |-> IF f \in duplicates THEN None
                             ELSE IF f \in matched(claim) THEN entry(claim)[f].id ELSE new[f],
                      content |-> seen[f],
                      record |-> IF f \in matched(claim) THEN entry(claim)[f].record ELSE None]]
<1> DEFINE begun(claim, new) ==
           [phase |-> "next",
               todo |-> {f \in Present : state(claim)[f] \in {"NEW", "CHANGED", "UNCHANGED"}},
               rows |-> rows(claim, new),
               used |-> {entry(claim)[f] : f \in matched(claim)},
               contract |-> asked, expects |-> canvases # {}, regenerate |-> regenerate,
               well |-> unreadable = {} /\ (asked \/ canvases = {}) /\ converted = canvases,
               quiet |-> settled /\ ~regenerate /\ unreadable = {}
                          /\ (asked \/ canvases = {}) /\ converted = canvases]
<1>0. PICK claim \in [considered -> inventory \cup {None}] :
        /\ ClaimsByContent(claim, seen)
        /\ \E new \in [fresh(claim) -> Ids] : run' = begun(claim, new)
  BY DEF Start, SeenBy, CanvasesIn
<1>1. PICK new \in [fresh(claim) -> Ids] : run' = begun(claim, new)
  BY <1>0
<1>2. asked => canvases # {}
  BY DEF Start, SeenBy, CanvasesIn
<1>3. run'.rows = rows(claim, new)
      /\ run'.todo = {f \in Present : state(claim)[f] \in {"NEW", "CHANGED", "UNCHANGED"}}
  BY <1>1
<1>4. \A f \in Present : Judged(seen[f], converted, asked) \in {"NEW", "ATTENTION"}
  BY DEF Judged
<1>5. \A f \in Present :
        state(claim)[f] \in {"NEW", "CHANGED", "UNCHANGED"}
          <=> ~IsDuplicate(f, seen, converted) /\ Judged(seen[f], converted, asked) = "NEW"
  BY <1>4
<1>6. \A f \in Present :
        /\ rows(claim, new)[f].content = seen[f]
        /\ rows(claim, new)[f].state # "DUPLICATE" <=> ~IsDuplicate(f, seen, converted)
  BY <1>4
<1>7. \A f \in considered : f \in Present /\ ~IsDuplicate(f, seen, converted)
  BY DEF Considered, SeenBy
<1>8. \A f \in considered : claim[f] # None =>
        /\ rows(claim, new)[f].id = claim[f].id /\ rows(claim, new)[f].record = claim[f].record
        /\ Judged(seen[f], converted, asked) = "NEW" => rows(claim, new)[f].state = "UNCHANGED"
  BY <1>7
<1>9. /\ run'.phase = "next" /\ run'.contract = asked /\ run'.regenerate = regenerate
      /\ run'.expects = (canvases # {})
      /\ run'.well = (unreadable = {} /\ (asked \/ canvases = {}) /\ converted = canvases)
      /\ run'.quiet = (settled /\ ~regenerate /\ unreadable = {}
                               /\ (asked \/ canvases = {}) /\ converted = canvases)
  BY <1>1
<1>10. run' # Idle
  BY <1>9 DEF Idle
<1> HIDE DEF rows, state, matched, entry, fresh, seen, considered, canvases
<1>11. run'.todo = {f \in Present : ~IsDuplicate(f, seen, converted)
                                 /\ Judged(seen[f], converted, asked) = "NEW"}
  BY <1>3, <1>5
<1> QED
  BY <1>0, <1>2, <1>3, <1>6, <1>8, <1>9, <1>10, <1>11 DEF seen, considered, canvases

LEMMA StartFlags ==
  ASSUME IInv, NEW unreadable \in SUBSET Files, NEW converted \in SUBSET Contents,
         NEW asked \in BOOLEAN, NEW regenerate \in BOOLEAN,
         Start(unreadable, asked, converted, regenerate)
  PROVE  /\ run'.phase = "next" /\ run' # Idle
         /\ run'.contract = asked /\ run'.regenerate = regenerate
         /\ run'.quiet = (settled /\ ~regenerate /\ unreadable = {}
                           /\ (asked \/ CanvasesIn(SeenBy(unreadable)) = {})
                           /\ converted = CanvasesIn(SeenBy(unreadable)))
         /\ asked => CanvasesIn(SeenBy(unreadable)) # {}
BY StartRows, SMTT(60)

\* A step that leaves the data and the rows of the run alone.
LEMMA SameRows ==
  ASSUME RowsAreDistinct, UsedHaveRows, run # Idle, run' # Idle,
         run'.rows = run.rows, run'.used = run.used, UNCHANGED <<source, inventory>>
  PROVE  RowsAreDistinct' /\ UsedHaveRows'
BY DEF RowsAreDistinct, UsedHaveRows, IsWorkflow, Present

LEMMA PhasesOfARun ==
  ASSUME TypeOK
  PROVE  /\ run.phase = "next" => run \in AtFile
         /\ run.phase \in {"graph", "definition"} => run \in AtWrite
         /\ run = Idle <=> run.phase = "idle"
BY DEF TypeOK, Idle, AtFile, AtWrite

\* The current file of a run is one of those to be taken.
LEMMA CurrentIsToDo ==
  ASSUME \E f \in run.todo : IsCurrent(f)
  PROVE  Current \in run.todo
BY DEF Current

\* A finished file changes its row's state or record, and nothing else.
LEMMA DoneFacts ==
  ASSUME IInv, run \in AtFile \cup AtWrite, \E f \in run.todo : IsCurrent(f),
         NEW row \in Row, NEW well \in BOOLEAN, Done(row, well),
         row.id = run.rows[Current].id, row.state # "DUPLICATE",
         UNCHANGED <<source, inventory>>
  PROVE  /\ run' \in AtFile' /\ run'.phase = "next"
         /\ RowsAreDistinct' /\ UsedHaveRows' /\ TodoAreGraphs' /\ WritesWhatItRead'
<1>1. Present' = Present /\ inventory' = inventory /\ run # Idle
  BY DEF Present, Idle, AtFile, AtWrite
<1>2. Current \in run.todo /\ Current \in Present
  BY CurrentIsToDo DEF AtFile, AtWrite
<1>3. run' = [phase |-> "next", todo |-> run.todo \ {Current},
              rows |-> [run.rows EXCEPT ![Current] = row],
              used |-> run.used, contract |-> run.contract, expects |-> run.expects,
              regenerate |-> run.regenerate,
              well |-> run.well /\ well, quiet |-> run.quiet]
  BY DEF Done
<1>4. /\ run'.todo = run.todo \ {Current} /\ run'.used = run.used /\ run'.phase = "next"
      /\ run' # Idle
  BY <1>3 DEF Idle
<1>5. run'.rows = [run.rows EXCEPT ![Current] = row]
  BY <1>3
<1>6. /\ run.rows \in [Present -> Row] /\ run.todo \in SUBSET Present
      /\ run.used \in SUBSET inventory
      /\ run.contract \in BOOLEAN /\ run.expects \in BOOLEAN /\ run.regenerate \in BOOLEAN
      /\ run.well \in BOOLEAN /\ run.quiet \in BOOLEAN
  BY DEF AtFile, AtWrite
<1>7. run'.rows \in [Present -> Row]
  BY <1>5, <1>6
<1>8. run' \in AtFile'
  BY <1>1, <1>3, <1>6, <1>7 DEF AtFile
<1>9. \A f \in Present :
        /\ run'.rows[f].id = run.rows[f].id
        /\ run'.rows[f].state # "DUPLICATE" <=> run.rows[f].state # "DUPLICATE"
  <2> SUFFICES ASSUME NEW f \in Present
               PROVE  /\ run'.rows[f].id = run.rows[f].id
                      /\ run'.rows[f].state # "DUPLICATE" <=> run.rows[f].state # "DUPLICATE"
    OBVIOUS
  <2>1. CASE f = Current
    <3>1. run'.rows[f] = row
      BY <2>1, <1>2, <1>5, <1>6
    <3>2. run.rows[f].state # "DUPLICATE"
      BY <2>1, <1>1, <1>2 DEF IInv, TodoAreGraphs, IsWorkflow
    <3> QED
      BY <2>1, <3>1, <3>2
  <2>2. CASE f # Current
    BY <2>2, <1>5, <1>6
  <2> QED
    BY <2>1, <2>2
<1>10. RowsAreDistinct'
  BY <1>1, <1>4, <1>9 DEF IInv, RowsAreDistinct, IsWorkflow
<1>11. UsedHaveRows'
  BY <1>1, <1>4, <1>9 DEF IInv, UsedHaveRows, IsWorkflow
<1>12. TodoAreGraphs'
  <2>1. \A f \in run.todo \ {Current} : run'.rows[f] = run.rows[f]
    BY <1>5, <1>6
  <2> QED
    BY <2>1, <1>1, <1>4 DEF IInv, TodoAreGraphs, IsWorkflow
<1>13. WritesWhatItRead'
  BY <1>4 DEF WritesWhatItRead
<1> QED
  BY <1>4, <1>8, <1>10, <1>11, <1>12, <1>13

LEMMA WordsAreTyped ==
  ASSUME NEW c \in Contents, NEW contract \in BOOLEAN,
         NEW words \in [SlotsOf(c, contract) -> OwnWords \cup {Curator}]
  PROVE  words \in Words
<1> DEFINE plan == <<c, contract>>
<1>1. plan \in Contents \X BOOLEAN /\ plan[1] = c /\ plan[2] = contract
  OBVIOUS
<1>2. words \in [SlotsOf(plan[1], plan[2]) -> OwnWords \cup {Curator}]
  BY <1>1
<1> HIDE DEF plan
<1>3. words \in Wordings
  BY <1>1, <1>2 DEF Wordings
<1> QED
  BY <1>3 DEF Words

\* Whatever a person makes of a definition has words of the type.
LEMMA EditsFacts ==
  ASSUME NEW file \in Definition, NEW words \in Edits(file)
  PROVE  words \in Words
<1>1. CASE file.words = Garbled
  <2>1. file.graph \in Contents /\ file.contract \in BOOLEAN
    BY DEF Definition
  <2>2. words \in [SlotsOf(file.graph, file.contract) -> OwnWords \cup {Curator}]
    BY <1>1 DEF Edits
  <2> QED
    BY <2>1, <2>2, WordsAreTyped
<1>2. CASE file.words # Garbled /\ words # Garbled
  <2>1. PICK c \in Contents, contract \in BOOLEAN :
           file.words \in [SlotsOf(c, contract) -> OwnWords \cup {Curator}]
    BY <1>2 DEF Definition, Words, Wordings
  <2>2. words \in [SlotsOf(c, contract) -> OwnWords \cup {Curator}]
    BY <1>2, <2>1 DEF Edits
  <2> QED
    BY <2>2, WordsAreTyped
<1> QED
  BY <1>1, <1>2 DEF Words

LEMMA TargetIsAnId ==
  ASSUME IInv, run \in AtFile, \E f \in run.todo : IsCurrent(f)
  PROVE  Target \in Ids
<1>1. run # Idle /\ Current \in run.todo /\ Current \in Present
  BY CurrentIsToDo DEF Idle, AtFile
<1> QED
  BY <1>1 DEF IInv, RowsAreDistinct, TodoAreGraphs, IsWorkflow, Target

\* The importer's own words have a place for each field, and are nobody else's.
LEMMA WordsOfFacts ==
  ASSUME NEW fp \in Fingerprint
  PROVE  /\ WordsOf(fp) \in [SlotsOf(fp.graph, fp.contract) -> OwnWords]
         /\ \A slot \in DOMAIN WordsOf(fp) : WordsOf(fp)[slot] # Curator
<1>1. [graph |-> fp.graph, contract |-> fp.contract] \in OwnWords
  BY DEF Fingerprint, OwnWords
<1>2. WordsOf(fp) \in [SlotsOf(fp.graph, fp.contract) -> OwnWords]
  BY <1>1 DEF WordsOf
<1> QED
  BY <1>2, SyncAssumption

\* _field_label, _field_help and _merge_presentation give every place of the new
\* definition words, and a person's where the file has them there.
LEMMA MergedWordsFacts ==
  ASSUME Generated \in Fingerprint, run.rows[Current].record \in Fingerprint \cup {None},
         NEW file \in Definition \cup {None}, ~Unreadable(file)
  PROVE  /\ MergedWords(file) \in Words
         /\ ~run.regenerate /\ file # None =>
              CuratedSlots(file.words) \cap SlotsOf(Generated.graph, Generated.contract)
                \subseteq CuratedSlots(MergedWords(file))
<1> DEFINE record == run.rows[Current].record
           new == WordsOf(Generated)
           Known(slot) == record # None /\ slot \in DOMAIN WordsOf(record)
           Kept(slot) == /\ file # None /\ ~run.regenerate
                         /\ slot \in DOMAIN file.words
                         /\ Known(slot) => file.words[slot] # WordsOf(record)[slot]
           Places == SlotsOf(Generated.graph, Generated.contract)
<1>1. /\ new \in [Places -> OwnWords] /\ DOMAIN new = Places
      /\ Generated.graph \in Contents /\ Generated.contract \in BOOLEAN
  BY WordsOfFacts DEF Fingerprint
<1>2. MergedWords(file) = [slot \in Places |-> IF Kept(slot) THEN file.words[slot] ELSE new[slot]]
  BY <1>1 DEF MergedWords
<1>3. ASSUME NEW slot, file # None, slot \in DOMAIN file.words
      PROVE  file.words[slot] \in OwnWords \cup {Curator}
  <2>1. file.words \in Wordings
    BY <1>3 DEF Unreadable, Definition, Words
  <2>2. PICK c \in Contents, contract \in BOOLEAN :
           file.words \in [SlotsOf(c, contract) -> OwnWords \cup {Curator}]
    BY <2>1 DEF Wordings
  <2> QED
    BY <1>3, <2>2
<1>4. ASSUME NEW slot, Known(slot) PROVE WordsOf(record)[slot] # Curator
  BY <1>4, WordsOfFacts
<1> HIDE DEF new, Known, Places
<1>5. MergedWords(file) \in [Places -> OwnWords \cup {Curator}]
  <2>1. \A slot \in Places :
           (IF Kept(slot) THEN file.words[slot] ELSE new[slot]) \in OwnWords \cup {Curator}
    BY <1>1, <1>3
  <2> QED
    BY <1>2, <2>1
<1>6. MergedWords(file) \in Words
  BY <1>1, <1>5, WordsAreTyped DEF Places
<1>7. ASSUME ~run.regenerate, file # None, NEW slot \in Places,
             slot \in DOMAIN file.words, file.words[slot] = Curator
      PROVE  slot \in DOMAIN MergedWords(file) /\ MergedWords(file)[slot] = Curator
  <2>1. Kept(slot)
    BY <1>4, <1>7
  <2> QED
    BY <1>2, <1>7, <2>1
<1> QED
  BY <1>6, <1>7 DEF CuratedSlots, Places

\* What the importer generates for the current file, and what it writes of it.
LEMMA BuiltFacts ==
  ASSUME IInv, run \in AtFile, \E f \in run.todo : IsCurrent(f),
         NEW file \in Definition \cup {None}, ~Unreadable(file)
  PROVE  /\ Target \in Ids /\ Generated \in Fingerprint /\ Built(file) \in Definition
         /\ run.rows[Current] \in Row /\ run.rows[Current].state # "DUPLICATE"
         /\ ~run.regenerate /\ file # None => WordsAreKept(file, Built(file))
<1>1. run # Idle /\ Current \in run.todo /\ Current \in Present
  BY CurrentIsToDo DEF Idle, AtFile
<1>2. /\ run.rows \in [Present -> Row] /\ run.contract \in BOOLEAN
  BY DEF AtFile
<1>3. /\ run.rows[Current].state # "DUPLICATE" /\ run.rows[Current].content \in Contents
  BY <1>1 DEF IInv, TodoAreGraphs, IsWorkflow
<1>4. Target \in Ids
  BY <1>1, <1>3 DEF IInv, RowsAreDistinct, IsWorkflow, Target
<1>5. Stem[Current] \in DOMAIN Spelling
  BY <1>1, SyncAssumption DEF Present
<1>6. Generated \in Fingerprint
  BY <1>2, <1>3, <1>5 DEF Generated, Fingerprint
<1>8. run.rows[Current] \in Row /\ run.rows[Current].record \in Fingerprint \cup {None}
  BY <1>1, <1>2 DEF Row
<1>9. file # None => file.name \in DOMAIN Spelling
  BY DEF Definition
<1>10. /\ MergedWords(file) \in Words
       /\ ~run.regenerate /\ file # None =>
            CuratedSlots(file.words) \cap SlotsOf(Generated.graph, Generated.contract)
              \subseteq CuratedSlots(MergedWords(file))
  BY <1>6, <1>8, MergedWordsFacts
<1>11. Built(file) = [graph |-> Generated.graph, contract |-> Generated.contract,
                      name |-> IF file = None THEN Generated.name ELSE file.name,
                      words |-> MergedWords(file)]
  BY DEF Built
<1>12. /\ Generated.graph \in Contents /\ Generated.contract \in BOOLEAN
       /\ Generated.name \in DOMAIN Spelling
  BY <1>6 DEF Fingerprint
<1>13. Built(file) \in Definition
  BY <1>9, <1>10, <1>11, <1>12 DEF Definition
<1>14. ~run.regenerate /\ file # None => WordsAreKept(file, Built(file))
  BY <1>10, <1>11 DEF WordsAreKept
<1> QED
  BY <1>3, <1>4, <1>6, <1>8, <1>13, <1>14

\* The rows a finished file leaves.
LEMMA RowFacts ==
  ASSUME IInv, run \in AtFile \cup AtWrite, \E f \in run.todo : IsCurrent(f)
  PROVE  /\ \A row \in {run.rows[Current], Recorded, Failed} :
               /\ row \in Row /\ row.state # "DUPLICATE"
               /\ row.id = run.rows[Current].id /\ row.content = run.rows[Current].content
         /\ Recorded.record = Generated
<1>1. run # Idle /\ Current \in run.todo /\ Current \in Present
  BY CurrentIsToDo DEF Idle, AtFile, AtWrite
<1>2. /\ run.rows \in [Present -> Row] /\ run.contract \in BOOLEAN
  BY DEF AtFile, AtWrite
<1>3. /\ run.rows[Current].state # "DUPLICATE" /\ run.rows[Current].content \in Contents
      /\ run.rows[Current] \in Row
  BY <1>1, <1>2 DEF IInv, TodoAreGraphs, IsWorkflow
<1>4. Generated \in Fingerprint
  <2>1. Stem[Current] \in DOMAIN Spelling
    BY <1>1, SyncAssumption DEF Present
  <2> QED
    BY <1>2, <1>3, <2>1 DEF Generated, Fingerprint
<1>5. /\ Recorded \in Row /\ Recorded.state # "DUPLICATE" /\ Recorded.record = Generated
      /\ Recorded.id = run.rows[Current].id /\ Recorded.content = run.rows[Current].content
  BY <1>3, <1>4 DEF Recorded, Row
<1>6. /\ Failed \in Row /\ Failed.state # "DUPLICATE"
      /\ Failed.id = run.rows[Current].id /\ Failed.content = run.rows[Current].content
  BY <1>3 DEF Failed, Row, SeenStates
<1> QED
  BY <1>3, <1>5, <1>6

\* A finished file leaves the run and the other rows as they were.
LEMMA DoneRows ==
  ASSUME IInv, run \in AtFile \cup AtWrite, \E f \in run.todo : IsCurrent(f),
         NEW row \in Row, NEW well \in BOOLEAN, Done(row, well)
  PROVE  /\ Current \in run.todo /\ Current \in Present /\ IsWorkflow(Current)
         /\ run # Idle /\ run' # Idle
         /\ run'.phase = "next" /\ run'.todo = run.todo \ {Current}
         /\ run'.contract = run.contract /\ run'.expects = run.expects
         /\ run'.regenerate = run.regenerate
         /\ run'.well = (run.well /\ well) /\ run'.quiet = run.quiet
         /\ run'.rows[Current] = row
         /\ \A f \in Present \ {Current} : run'.rows[f] = run.rows[f]
<1>1. run # Idle /\ Current \in run.todo /\ Current \in Present
  BY CurrentIsToDo DEF Idle, AtFile, AtWrite
<1>2. run.rows \in [Present -> Row]
  BY DEF AtFile, AtWrite
<1>3. run' = [phase |-> "next", todo |-> run.todo \ {Current},
              rows |-> [run.rows EXCEPT ![Current] = row],
              used |-> run.used, contract |-> run.contract, expects |-> run.expects,
              regenerate |-> run.regenerate,
              well |-> run.well /\ well, quiet |-> run.quiet]
  BY DEF Done
<1>4. IsWorkflow(Current)
  BY <1>1 DEF IInv, TodoAreGraphs
<1>5. run'.rows = [run.rows EXCEPT ![Current] = row]
  BY <1>3
<1>6. run'.rows[Current] = row /\ \A f \in Present \ {Current} : run'.rows[f] = run.rows[f]
  BY <1>1, <1>2, <1>5
<1> QED
  BY <1>1, <1>3, <1>4, <1>6 DEF Idle

LEMMA StepIInv == IInv /\ [Next]_vars => IInv'
<1> SUFFICES ASSUME IInv, [Next]_vars PROVE IInv'
  OBVIOUS
<1>0. /\ TypeOK /\ changes \in 0..MaxChanges /\ mishaps \in 0..MaxMishaps
      /\ MaxChanges \in Nat /\ MaxMishaps \in Nat
  BY SyncAssumption DEF IInv, TypeOK
<1>1. ASSUME NEW unreadable \in SUBSET Files, NEW converted \in SUBSET Contents,
             NEW asked \in BOOLEAN, NEW regenerate \in BOOLEAN,
             Start(unreadable, asked, converted, regenerate)
      PROVE  IInv'
  <2>1. /\ run' \in AtFile' /\ run'.phase = "next"
        /\ RowsAreDistinct' /\ UsedHaveRows' /\ TodoAreGraphs'
    BY <1>1, StartFacts
  <2>2. /\ UNCHANGED <<source, inventory, defs, graphs, mishaps>> /\ settled' = FALSE
        /\ changes' = changes + Cardinality(unreadable) /\ changes' <= MaxChanges
    BY <1>1 DEF Start
  <2>3. Cardinality(unreadable) \in Nat
    <3>1. IsFiniteSet(Files)
      BY SyncAssumption, FS_Interval DEF Files
    <3> QED
      BY <3>1, FS_Subset, FS_CardinalityType
  <2>4. changes' \in 0..MaxChanges /\ mishaps' \in 0..MaxMishaps
    BY <1>0, <2>2, <2>3
  <2>5. TypeOK'
    BY <1>0, <2>1, <2>2, <2>4 DEF TypeOK
  <2>6. IdsAreUnique' /\ DefinitionsHaveTheirGraphs'
    BY <2>2 DEF IInv, IdsAreUnique, DefinitionsHaveTheirGraphs
  <2>7. WritesWhatItRead'
    BY <2>1 DEF WritesWhatItRead
  <2> QED
    BY <2>1, <2>5, <2>6, <2>7 DEF IInv
<1>2. ASSUME AtNext, NEW row \in {run.rows[Current], Recorded, Failed}, NEW well \in BOOLEAN,
             Done(row, well),
             UNCHANGED <<source, inventory, defs, graphs, settled, changes, mishaps>>
      PROVE  IInv'
  <2>1. run \in AtFile /\ \E f \in run.todo : IsCurrent(f)
    BY <1>0, <1>2, PhasesOfARun DEF AtNext
  <2>2. /\ row \in Row /\ row.state # "DUPLICATE" /\ row.id = run.rows[Current].id
    BY <2>1, RowFacts
  <2>3. /\ run' \in AtFile' /\ run'.phase = "next"
        /\ RowsAreDistinct' /\ UsedHaveRows' /\ TodoAreGraphs' /\ WritesWhatItRead'
    BY <1>2, <2>1, <2>2, DoneFacts
  <2>4. TypeOK'
    BY <1>0, <1>2, <2>3 DEF TypeOK
  <2>5. IdsAreUnique' /\ DefinitionsHaveTheirGraphs'
    BY <1>2 DEF IInv, IdsAreUnique, DefinitionsHaveTheirGraphs
  <2> QED
    BY <2>3, <2>4, <2>5 DEF IInv
<1>3. CASE Keep
  BY <1>2, <1>3 DEF Keep
<1>4. CASE Refuse
  BY <1>2, <1>4 DEF Refuse
<1>5. CASE Recognise
  BY <1>2, <1>5 DEF Recognise
<1>6. CASE Build
  <2>1. run \in AtFile /\ \E f \in run.todo : IsCurrent(f)
    BY <1>0, <1>6, PhasesOfARun DEF Build, AtNext
  <2>2. UNCHANGED <<source, inventory, defs, graphs, settled, changes, mishaps>>
    BY <1>6 DEF Build
  <2>3. run' = [phase |-> "graph", built |-> Built(defs[Target]), read |-> defs[Target],
                todo |-> run.todo, rows |-> run.rows, used |-> run.used,
                contract |-> run.contract, expects |-> run.expects,
                regenerate |-> run.regenerate, well |-> run.well, quiet |-> run.quiet]
    BY <1>6 DEF Build
  <2>4. defs[Target] \in Definition \cup {None}
    <3>1. Target \in Ids
      BY <2>1, TargetIsAnId
    <3> QED
      BY <1>0, <3>1 DEF TypeOK
  <2>5. /\ Built(defs[Target]) \in Definition
        /\ ~run.regenerate /\ defs[Target] # None
             => WordsAreKept(defs[Target], Built(defs[Target]))
    BY <1>6, <2>1, <2>4, BuiltFacts DEF Build
  <2>6. run' \in AtWrite'
    <3>1. Present' = Present /\ inventory' = inventory
      BY <2>2 DEF Present
    <3>2. /\ run.rows \in [Present -> Row] /\ run.todo \in SUBSET Present
          /\ run.used \in SUBSET inventory
          /\ run.contract \in BOOLEAN /\ run.expects \in BOOLEAN /\ run.regenerate \in BOOLEAN
          /\ run.well \in BOOLEAN /\ run.quiet \in BOOLEAN
      BY <2>1 DEF AtFile
    <3> QED
      BY <2>3, <2>4, <2>5, <3>1, <3>2 DEF AtWrite
  <2>7. run # Idle /\ run' # Idle
    BY <2>1, <2>3 DEF Idle, AtFile
  <2>8. RowsAreDistinct' /\ UsedHaveRows'
    BY <2>2, <2>3, <2>7, SameRows DEF IInv
  <2>9. TodoAreGraphs'
    BY <2>3, <2>7 DEF IInv, TodoAreGraphs, IsWorkflow
  <2>10. WritesWhatItRead'
    <3>1. /\ run'.phase = "graph" /\ run'.todo = run.todo /\ run'.read = defs[Target]
          /\ run'.built = Built(defs[Target]) /\ run'.regenerate = run.regenerate
      BY <2>3
    <3>2. \E f \in run'.todo : \A g \in run'.todo : f <= g
      BY <2>1, <3>1 DEF IsCurrent
    <3> QED
      BY <2>5, <3>1, <3>2 DEF WritesWhatItRead, IsCurrent
  <2>11. TypeOK'
    BY <1>0, <2>2, <2>6 DEF TypeOK
  <2>12. IdsAreUnique' /\ DefinitionsHaveTheirGraphs'
    BY <2>2 DEF IInv, IdsAreUnique, DefinitionsHaveTheirGraphs
  <2> QED
    BY <2>8, <2>9, <2>10, <2>11, <2>12 DEF IInv
<1>7. ASSUME run.phase \in {"graph", "definition"}
      PROVE  /\ run \in AtWrite /\ run # Idle /\ \E f \in run.todo : IsCurrent(f)
             /\ Target \in Ids
  <2>1. run \in AtWrite /\ run # Idle /\ \E f \in run.todo : IsCurrent(f)
    BY <1>0, <1>7, PhasesOfARun DEF IInv, WritesWhatItRead, AtWrite, Idle
  <2>2. Current \in run.todo /\ Current \in Present
    BY <2>1, CurrentIsToDo DEF AtWrite
  <2> QED
    BY <2>1, <2>2 DEF IInv, RowsAreDistinct, TodoAreGraphs, IsWorkflow, Target
<1>8. CASE PlaceGraph
  <2>1. /\ run \in AtWrite /\ run # Idle /\ \E f \in run.todo : IsCurrent(f) /\ Target \in Ids
    BY <1>7, <1>8 DEF PlaceGraph
  <2>2. /\ UNCHANGED <<source, inventory, defs, settled, changes, mishaps>>
        /\ graphs' = graphs \cup {<<Target, run.built.graph>>}
        /\ run' = [run EXCEPT !.phase = "definition"]
    BY <1>8 DEF PlaceGraph
  <2>3. /\ run' \in AtWrite /\ run'.phase = "definition" /\ run' # Idle
        /\ run'.todo = run.todo /\ run'.rows = run.rows /\ run'.used = run.used
        /\ run'.built = run.built /\ run'.read = run.read /\ run'.regenerate = run.regenerate
    BY <2>1, <2>2 DEF AtWrite, Idle
  <2>4. AtWrite' = AtWrite
    BY <2>2 DEF AtWrite, Present
  <2>5. run.built.graph \in Contents
    BY <2>1 DEF AtWrite, Definition
  <2>6. TypeOK'
    BY <1>0, <2>1, <2>2, <2>3, <2>4, <2>5 DEF TypeOK
  <2>7. IdsAreUnique' /\ DefinitionsHaveTheirGraphs'
    BY <2>2 DEF IInv, IdsAreUnique, DefinitionsHaveTheirGraphs
  <2>8. RowsAreDistinct' /\ UsedHaveRows'
    BY <2>1, <2>2, <2>3, SameRows DEF IInv
  <2>9. TodoAreGraphs'
    BY <2>1, <2>3 DEF IInv, TodoAreGraphs, IsWorkflow
  <2>10. WritesWhatItRead'
    <3>1. Target' = Target
      BY <2>3 DEF Target, Current, IsCurrent
    <3>2. \A f \in run.todo : IsCurrent(f)' <=> IsCurrent(f)
      BY <2>3 DEF IsCurrent
    <3>3. ~run.regenerate /\ run.read # None => WordsAreKept(run.read, run.built)
      BY <1>8, <2>1 DEF IInv, WritesWhatItRead, PlaceGraph
    <3> QED
      BY <2>1, <2>2, <2>3, <3>1, <3>2, <3>3 DEF WritesWhatItRead
  <2> QED
    BY <2>6, <2>7, <2>8, <2>9, <2>10 DEF IInv
<1>9. CASE PlaceDefinition
  <2>1. /\ run \in AtWrite /\ run # Idle /\ \E f \in run.todo : IsCurrent(f) /\ Target \in Ids
    BY <1>7, <1>9 DEF PlaceDefinition
  <2>2. /\ UNCHANGED <<source, inventory, graphs, settled, changes, mishaps>>
        /\ defs' = [defs EXCEPT ![Target] = run.built] /\ Done(Recorded, TRUE)
    BY <1>9 DEF PlaceDefinition
  <2>3. /\ Recorded \in Row /\ Recorded.state # "DUPLICATE" /\ Recorded.id = run.rows[Current].id
    BY <2>1, RowFacts
  <2>4. /\ run' \in AtFile' /\ run'.phase = "next"
        /\ RowsAreDistinct' /\ UsedHaveRows' /\ TodoAreGraphs' /\ WritesWhatItRead'
    BY <2>1, <2>2, <2>3, DoneFacts
  <2>5. run.built \in Definition
    BY <2>1 DEF AtWrite
  <2>6. TypeOK'
    BY <1>0, <2>2, <2>4, <2>5 DEF TypeOK
  <2>7. DefinitionsHaveTheirGraphs'
    <3>1. <<Target, run.built.graph>> \in graphs
      BY <1>9, <2>1 DEF IInv, WritesWhatItRead, PlaceDefinition
    <3> QED
      BY <1>0, <2>2, <3>1 DEF IInv, TypeOK, DefinitionsHaveTheirGraphs
  <2>8. IdsAreUnique'
    BY <2>2 DEF IInv, IdsAreUnique
  <2> QED
    BY <2>4, <2>6, <2>7, <2>8 DEF IInv
<1>10. CASE WriteFails
  <2>1. /\ run \in AtWrite /\ \E f \in run.todo : IsCurrent(f)
    BY <1>7, <1>10 DEF WriteFails
  <2>2. /\ UNCHANGED <<source, inventory, defs, graphs, settled, changes>>
        /\ mishaps < MaxMishaps /\ mishaps' = mishaps + 1 /\ Done(Failed, FALSE)
    BY <1>10 DEF WriteFails, Mishap
  <2>3. /\ Failed \in Row /\ Failed.state # "DUPLICATE" /\ Failed.id = run.rows[Current].id
    BY <2>1, RowFacts
  <2>4. /\ run' \in AtFile' /\ run'.phase = "next"
        /\ RowsAreDistinct' /\ UsedHaveRows' /\ TodoAreGraphs' /\ WritesWhatItRead'
    BY <2>1, <2>2, <2>3, DoneFacts
  <2>5. mishaps' \in 0..MaxMishaps
    BY <1>0, <2>2
  <2>6. TypeOK'
    BY <1>0, <2>2, <2>4, <2>5 DEF TypeOK
  <2>7. IdsAreUnique' /\ DefinitionsHaveTheirGraphs'
    BY <2>2 DEF IInv, IdsAreUnique, DefinitionsHaveTheirGraphs
  <2> QED
    BY <2>4, <2>6, <2>7 DEF IInv
\* Between runs nothing is said of a run.
<1>11. run' = Idle => RowsAreDistinct' /\ UsedHaveRows' /\ TodoAreGraphs' /\ WritesWhatItRead'
  BY DEF RowsAreDistinct, UsedHaveRows, TodoAreGraphs, WritesWhatItRead
<1>12. CASE WriteInventory
  <2>1. /\ inventory' = SeenEntries \cup CarriedForward /\ run' = Idle /\ settled' = run.well
        /\ UNCHANGED <<source, defs, graphs, changes, mishaps>> /\ run.phase = "next"
    BY <1>12 DEF WriteInventory
  <2>2. run \in AtFile /\ run # Idle
    BY <1>0, <2>1, PhasesOfARun DEF Idle
  <2>3. /\ run.rows \in [Present -> Row] /\ run.used \in SUBSET inventory /\ run.well \in BOOLEAN
        /\ inventory \subseteq Entry /\ Present \subseteq Files
    BY <1>0, <2>2 DEF AtFile, TypeOK, Present
  <2>4. ASSUME NEW e \in SeenEntries
        PROVE  \E f \in Present :
                  /\ run.rows[f].state # "DUPLICATE" /\ run.rows[f] \in Row
                  /\ e = [id |-> run.rows[f].id, state |-> run.rows[f].state, path |-> f,
                          content |-> run.rows[f].content, record |-> run.rows[f].record]
    BY <2>3, <2>4 DEF SeenEntries
  <2>5. ASSUME NEW e \in CarriedForward
        PROVE  \E d \in inventory \ run.used : e = [d EXCEPT !.state = "REMOVED"] /\ d \in Entry
    BY <2>3, <2>5 DEF CarriedForward
  <2>6. \A f \in Present : run.rows[f].state # "DUPLICATE" =>
            run.rows[f].id \in Ids /\ run.rows[f].state \in SeenStates
    BY <2>2, <2>3 DEF IInv, RowsAreDistinct, IsWorkflow, Row
  <2>7. SeenEntries \subseteq Entry
    <3> SUFFICES ASSUME NEW e \in SeenEntries PROVE e \in Entry
      OBVIOUS
    <3>1. PICK f \in Present :
            /\ run.rows[f].state # "DUPLICATE" /\ run.rows[f] \in Row
            /\ e = [id |-> run.rows[f].id, state |-> run.rows[f].state, path |-> f,
                    content |-> run.rows[f].content, record |-> run.rows[f].record]
      BY <2>4
    <3>2. /\ run.rows[f].content \in Contents \cup {None}
          /\ run.rows[f].record \in Fingerprint \cup {None}
      BY <3>1 DEF Row
    <3> QED
      BY <2>3, <2>6, <3>1, <3>2 DEF Entry
  <2>8. CarriedForward \subseteq Entry
    BY <2>5 DEF Entry
  <2>9. TypeOK'
    BY <1>0, <2>1, <2>3, <2>7, <2>8 DEF TypeOK
  <2>10. ASSUME NEW e \in SeenEntries, NEW d \in SeenEntries, e # d
         PROVE  e.id # d.id /\ e.path # d.path
    <3>1. PICK f \in Present :
            /\ run.rows[f].state # "DUPLICATE"
            /\ e = [id |-> run.rows[f].id, state |-> run.rows[f].state, path |-> f,
                    content |-> run.rows[f].content, record |-> run.rows[f].record]
      BY <2>4
    <3>2. PICK g \in Present :
            /\ run.rows[g].state # "DUPLICATE"
            /\ d = [id |-> run.rows[g].id, state |-> run.rows[g].state, path |-> g,
                    content |-> run.rows[g].content, record |-> run.rows[g].record]
      BY <2>4
    <3>3. f # g
      BY <2>10, <3>1, <3>2
    <3>4. run.rows[f].id # run.rows[g].id
      BY <2>2, <3>1, <3>2, <3>3 DEF IInv, RowsAreDistinct, IsWorkflow
    <3> QED
      BY <3>1, <3>2, <3>3, <3>4
  <2>11. ASSUME NEW e \in SeenEntries, NEW d \in CarriedForward
         PROVE  e.id # d.id /\ d.state = "REMOVED"
    <3>1. PICK f \in Present :
            /\ run.rows[f].state # "DUPLICATE"
            /\ e = [id |-> run.rows[f].id, state |-> run.rows[f].state, path |-> f,
                    content |-> run.rows[f].content, record |-> run.rows[f].record]
      BY <2>4
    <3>2. PICK c \in inventory \ run.used : d = [c EXCEPT !.state = "REMOVED"] /\ c \in Entry
      BY <2>5
    <3>3. d.id = c.id /\ d.state = "REMOVED"
      BY <3>2 DEF Entry
    <3>4. run.rows[f].id # c.id
      BY <2>2, <3>1, <3>2 DEF IInv, RowsAreDistinct, IsWorkflow
    <3> QED
      BY <3>1, <3>3, <3>4
  <2>12. ASSUME NEW e \in CarriedForward, NEW d \in CarriedForward, e # d
         PROVE  e.id # d.id /\ d.state = "REMOVED"
    <3>1. PICK b \in inventory \ run.used : e = [b EXCEPT !.state = "REMOVED"] /\ b \in Entry
      BY <2>5
    <3>2. PICK c \in inventory \ run.used : d = [c EXCEPT !.state = "REMOVED"] /\ c \in Entry
      BY <2>5
    <3>3. e.id = b.id /\ d.id = c.id /\ d.state = "REMOVED"
      BY <3>1, <3>2 DEF Entry
    <3>4. b # c
      BY <2>12, <3>1, <3>2
    <3>5. b.id # c.id
      BY <3>4 DEF IInv, IdsAreUnique
    <3> QED
      BY <3>3, <3>5
  <2>13. IdsAreUnique'
    <3> SUFFICES ASSUME NEW e \in SeenEntries \cup CarriedForward,
                        NEW d \in SeenEntries \cup CarriedForward, e # d
                 PROVE  /\ e.id # d.id
                        /\ ~(e.state # "REMOVED" /\ d.state # "REMOVED" /\ e.path = d.path)
      BY <2>1 DEF IdsAreUnique
    <3> QED
      BY <2>10, <2>11, <2>12
  <2>14. DefinitionsHaveTheirGraphs'
    BY <2>1 DEF IInv, DefinitionsHaveTheirGraphs
  <2> QED
    BY <1>11, <2>1, <2>9, <2>13, <2>14 DEF IInv
<1>13. CASE Stop
  <2>1. /\ UNCHANGED <<source, inventory, defs, graphs, settled, changes>> /\ run' = Idle
        /\ mishaps < MaxMishaps /\ mishaps' = mishaps + 1
    BY <1>13 DEF Stop, Mishap
  <2>2. mishaps' \in 0..MaxMishaps
    BY <1>0, <2>1
  <2>3. TypeOK' /\ IdsAreUnique' /\ DefinitionsHaveTheirGraphs'
    BY <1>0, <2>1, <2>2 DEF IInv, TypeOK, IdsAreUnique, DefinitionsHaveTheirGraphs
  <2> QED
    BY <1>11, <2>1, <2>3 DEF IInv
<1>14. ASSUME NEW files \in [Files -> Contents \cup {None}], Rearrange(files)
       PROVE  IInv'
  <2>1. /\ UNCHANGED <<inventory, defs, graphs, mishaps>> /\ run' = Idle /\ source' = files
        /\ settled' = FALSE /\ changes < MaxChanges /\ changes' = changes + 1
    BY <1>14 DEF Rearrange
  <2>2. changes' \in 0..MaxChanges
    BY <1>0, <2>1
  <2>3. TypeOK' /\ IdsAreUnique' /\ DefinitionsHaveTheirGraphs'
    BY <1>0, <2>1, <2>2 DEF IInv, TypeOK, IdsAreUnique, DefinitionsHaveTheirGraphs
  <2> QED
    BY <1>11, <2>1, <2>3 DEF IInv
\* A disturbance reaches a run that is going on only in what it claims of itself.
<1>15. ASSUME Disturb, UNCHANGED <<source, inventory, graphs, changes>>,
              defs' \in [Ids -> Definition \cup {None}], DefinitionsHaveTheirGraphs'
       PROVE  IInv'
  <2>1. /\ mishaps < MaxMishaps /\ mishaps' = mishaps + 1 /\ settled' = FALSE
        /\ run' = IF run = Idle THEN Idle ELSE [run EXCEPT !.well = FALSE, !.quiet = FALSE]
    BY <1>15 DEF Disturb, Mishap
  <2>2. mishaps' \in 0..MaxMishaps
    BY <1>0, <2>1
  <2>3. AtFile' = AtFile /\ AtWrite' = AtWrite
    BY <1>15 DEF AtFile, AtWrite, Present
  <2>4. /\ run # Idle => run \in AtFile \cup AtWrite
        /\ run \in {Idle} \cup AtFile \cup AtWrite
    BY <1>0 DEF TypeOK
  <2>5. run # Idle =>
          /\ run' \in AtFile \cup AtWrite /\ run' # Idle
          /\ run'.todo = run.todo /\ run'.rows = run.rows /\ run'.used = run.used
          /\ run'.phase = run.phase /\ run'.regenerate = run.regenerate
          /\ run.phase # "next" => run'.built = run.built /\ run'.read = run.read
    <3> SUFFICES ASSUME run # Idle
                 PROVE  /\ run' \in AtFile \cup AtWrite /\ run' # Idle
                        /\ run'.todo = run.todo /\ run'.rows = run.rows /\ run'.used = run.used
                        /\ run'.phase = run.phase /\ run'.regenerate = run.regenerate
                        /\ run.phase # "next" => run'.built = run.built /\ run'.read = run.read
      OBVIOUS
    <3>1. run' = [run EXCEPT !.well = FALSE, !.quiet = FALSE]
      BY <2>1
    <3>2. CASE run \in AtFile
      BY <3>1, <3>2 DEF AtFile, Idle
    <3>3. CASE run \in AtWrite
      BY <3>1, <3>3 DEF AtWrite, Idle
    <3> QED
      BY <2>4, <3>2, <3>3
  <2>6. TypeOK'
    <3>1. run' \in {Idle} \cup AtFile' \cup AtWrite'
      BY <2>1, <2>3, <2>5
    <3> QED
      BY <1>0, <1>15, <2>1, <2>2, <3>1 DEF TypeOK
  <2>7. IdsAreUnique'
    BY <1>15 DEF IInv, IdsAreUnique
  <2>8. CASE run = Idle
    BY <1>11, <1>15, <2>1, <2>6, <2>7, <2>8 DEF IInv
  <2>9. CASE run # Idle
    <3>1. RowsAreDistinct' /\ UsedHaveRows'
      BY <1>15, <2>5, <2>9, SameRows DEF IInv
    <3>2. TodoAreGraphs'
      BY <2>5, <2>9 DEF IInv, TodoAreGraphs, IsWorkflow
    <3>3. Target' = Target /\ \A f : IsCurrent(f)' <=> IsCurrent(f)
      BY <2>5, <2>9 DEF Target, Current, IsCurrent
    <3>4. WritesWhatItRead'
      BY <1>15, <2>5, <2>9, <3>3 DEF IInv, WritesWhatItRead
    <3> QED
      BY <1>15, <2>6, <2>7, <3>1, <3>2, <3>4 DEF IInv
  <2> QED
    BY <2>8, <2>9
<1>16. ASSUME NEW i \in Ids, defs[i] # None, NEW words \in Edits(defs[i]), Curate(i, words)
       PROVE  IInv'
  <2>1. /\ defs[i] # None /\ defs' = [defs EXCEPT ![i].words = words] /\ Disturb
        /\ UNCHANGED <<source, inventory, graphs, changes>>
    BY <1>16 DEF Curate
  <2> DEFINE new == [defs[i] EXCEPT !.words = words]
  <2>2. defs \in [Ids -> Definition \cup {None}] /\ defs[i] \in Definition
    BY <1>0, <2>1 DEF TypeOK
  <2>3. new \in Definition /\ new.graph = defs[i].graph
    <3>1. words \in Words
      BY <1>16, <2>2, EditsFacts
    <3> QED
      BY <2>2, <3>1 DEF Definition
  <2>4. defs' = [defs EXCEPT ![i] = new]
    BY <2>1, <2>2
  <2>5. \A k \in Ids : defs'[k] = IF k = i THEN new ELSE defs[k]
    BY <2>2, <2>4
  <2>6. defs' \in [Ids -> Definition \cup {None}]
    BY <2>2, <2>3, <2>4
  <2>7. DefinitionsHaveTheirGraphs'
    BY <2>1, <2>3, <2>5 DEF IInv, DefinitionsHaveTheirGraphs
  <2> QED
    BY <1>15, <2>1, <2>6, <2>7
<1>17. ASSUME NEW i \in Ids, Delete(i)
       PROVE  IInv'
  <2>1. /\ defs' = [defs EXCEPT ![i] = None] /\ Disturb
        /\ UNCHANGED <<source, inventory, graphs, changes>>
    BY <1>17 DEF Delete
  <2>2. defs' \in [Ids -> Definition \cup {None}]
    BY <1>0, <2>1 DEF TypeOK
  <2>3. DefinitionsHaveTheirGraphs'
    BY <1>0, <2>1 DEF IInv, TypeOK, DefinitionsHaveTheirGraphs
  <2> QED
    BY <1>15, <2>1, <2>2, <2>3
<1>18. CASE LoseInventory
  <2>1. /\ UNCHANGED <<source, defs, graphs, changes>> /\ inventory' = {} /\ run = Idle
        /\ mishaps < MaxMishaps /\ mishaps' = mishaps + 1 /\ settled' = FALSE /\ run' = Idle
    BY <1>18 DEF LoseInventory, Disturb, Mishap
  <2>2. mishaps' \in 0..MaxMishaps
    BY <1>0, <2>1
  <2>3. TypeOK' /\ IdsAreUnique' /\ DefinitionsHaveTheirGraphs'
    BY <1>0, <2>1, <2>2 DEF IInv, TypeOK, IdsAreUnique, DefinitionsHaveTheirGraphs
  <2> QED
    BY <1>11, <2>1, <2>3 DEF IInv
<1>19. CASE UNCHANGED vars
  <2>1. UNCHANGED <<source, inventory, defs, graphs, run, settled, changes, mishaps>>
    BY <1>19 DEF vars
  <2>2. TypeOK'
    BY <1>0, <2>1 DEF TypeOK, AtFile, AtWrite, Present
  <2> QED
    BY <2>1, <2>2 DEF IInv, IdsAreUnique, DefinitionsHaveTheirGraphs, RowsAreDistinct, UsedHaveRows,
              TodoAreGraphs, WritesWhatItRead, IsWorkflow, Present, IsCurrent, Target, Current
<1> QED
  BY <1>1, <1>3, <1>4, <1>5, <1>6, <1>8, <1>9, <1>10, <1>12, <1>13, <1>14, <1>16, <1>17,
     <1>18, <1>19 DEF Next, SyncStep, UserStep

\* TypeOK, for every number of files, contents, ids and spellings.
THEOREM SyncTypeOK == Spec => []TypeOK
<1>1. IInv => TypeOK
  BY DEF IInv
<1> QED
  BY <1>1, InitIInv, StepIInv, PTL DEF Spec

\* IdsAreUnique: _match_against_history and _allocate_ids never give two workflows
\* the id that saved setups are keyed on.
THEOREM IdsStayUnique == Spec => []IdsAreUnique
<1>1. IInv => IdsAreUnique
  BY DEF IInv
<1> QED
  BY <1>1, InitIInv, StepIInv, PTL DEF Spec

\* DefinitionsHaveTheirGraphs: wherever a run stops between its writes
\* (write_definition), no definition on disk lacks the graph it names.
THEOREM GraphsComeFirst == Spec => []DefinitionsHaveTheirGraphs
<1>1. IInv => DefinitionsHaveTheirGraphs
  BY DEF IInv
<1> QED
  BY <1>1, InitIInv, StepIInv, PTL DEF Spec

\* NothingForgotten: the inventory a run writes holds every id it read
\* (_carry_forward), whatever became of the files.
THEOREM NothingIsForgotten == Spec => NothingForgotten
<1>1. IInv /\ [Next]_vars /\ WriteInventory => InventoryIds \subseteq {e.id : e \in inventory'}
  <2> SUFFICES ASSUME IInv, WriteInventory, NEW e \in inventory
               PROVE  \E d \in inventory' : d.id = e.id
    BY DEF InventoryIds
  <2>1. /\ inventory' = SeenEntries \cup CarriedForward /\ run # Idle
    BY DEF WriteInventory, Idle
  <2>2. run \in AtFile /\ inventory \subseteq Entry
    BY PhasesOfARun DEF IInv, TypeOK, WriteInventory
  <2>3. CASE e \in run.used
    <3>1. PICK f \in Present : run.rows[f].state # "DUPLICATE" /\ run.rows[f].id = e.id
      BY <2>1, <2>3 DEF IInv, UsedHaveRows, IsWorkflow
    <3>2. f \in DOMAIN run.rows
      BY <2>2, <3>1 DEF AtFile
    <3> DEFINE d == [id |-> run.rows[f].id, state |-> run.rows[f].state, path |-> f,
                     content |-> run.rows[f].content, record |-> run.rows[f].record]
    <3>3. d \in SeenEntries /\ d.id = e.id
      BY <3>1, <3>2 DEF SeenEntries
    <3> QED
      BY <2>1, <3>3
  <2>4. CASE e \notin run.used
    <3>1. [e EXCEPT !.state = "REMOVED"] \in CarriedForward
      BY <2>4 DEF CarriedForward
    <3>2. [e EXCEPT !.state = "REMOVED"].id = e.id
      BY <2>2 DEF Entry
    <3> QED
      BY <2>1, <3>1, <3>2
  <2> QED
    BY <2>3, <2>4
<1> QED
  BY <1>1, InitIInv, StepIInv, PTL DEF Spec, NothingForgotten

\* WordsReadAreKept: a run that was not asked to regenerate writes back the words
\* of a person it read, in every place the new definition still has (_field_label,
\* _field_help, _merge_presentation).
THEOREM PersonsWordsAreKept == Spec => WordsReadAreKept
<1>1. IInv /\ [Next]_vars =>
        (PlaceDefinition /\ ~run.regenerate /\ run.read # None =>
          CuratedSlots(run.read.words) \cap SlotsOf(run.built.graph, run.built.contract)
            \subseteq CuratedSlots(defs'[Target].words))
  <2> SUFFICES ASSUME IInv, PlaceDefinition, ~run.regenerate, run.read # None
               PROVE  CuratedSlots(run.read.words)
                        \cap SlotsOf(run.built.graph, run.built.contract)
                      \subseteq CuratedSlots(defs'[Target].words)
    OBVIOUS
  <2>1. run.phase = "definition" /\ run # Idle /\ defs' = [defs EXCEPT ![Target] = run.built]
    BY DEF PlaceDefinition, Idle
  <2>2. WordsAreKept(run.read, run.built) /\ \E f \in run.todo : IsCurrent(f)
    BY <2>1 DEF IInv, WritesWhatItRead
  <2>3. Target \in Ids
    <3>1. run \in AtWrite
      BY <2>1, PhasesOfARun DEF IInv, TypeOK
    <3>2. Current \in run.todo /\ Current \in Present
      BY <2>2, <3>1, CurrentIsToDo DEF AtWrite
    <3> QED
      BY <2>1, <3>2 DEF IInv, RowsAreDistinct, TodoAreGraphs, IsWorkflow, Target
  <2>4. defs'[Target] = run.built
    BY <2>1, <2>3 DEF IInv, TypeOK
  <2> QED
    BY <2>2, <2>4 DEF WordsAreKept
<1> QED
  BY <1>1, InitIInv, StepIInv, PTL DEF Spec, WordsReadAreKept

-----------------------------------------------------------------------------
(* Identity is content *)

\* A run that starts lets every content that is still there keep its id: the
\* entry is claimed by the file that holds it, or was by an earlier one that holds
\* the same content or a reformatted copy.
LEMMA ContentIsKnownAtFirst ==
  ASSUME IInv, NEW unreadable \in SUBSET Files, NEW converted \in SUBSET Contents,
         NEW asked \in BOOLEAN, NEW regenerate \in BOOLEAN,
         Start(unreadable, asked, converted, regenerate)
  PROVE  ContentIsKnown'
<1> DEFINE seen == SeenBy(unreadable)
           considered == Considered(seen, converted)
<1>1. PICK claim \in [considered -> inventory \cup {None}] :
        /\ ClaimsByContent(claim, seen)
        /\ \A f \in Present :
              /\ run'.rows[f].content = seen[f]
              /\ run'.rows[f].state # "DUPLICATE" <=> ~IsDuplicate(f, seen, converted)
        /\ \A f \in considered : claim[f] # None => run'.rows[f].id = claim[f].id
  BY StartRows
<1>2. Present' = Present /\ inventory' = inventory
  BY DEF Start, Present
<1>3. considered = {f \in Present : seen[f] # None /\ ~IsDuplicate(f, seen, converted)}
  BY DEF Considered, SeenBy
<1>4. \A e \in inventory : e # None
  BY SyncAssumption DEF IInv, TypeOK
<1> HIDE DEF seen, considered
<1> SUFFICES ASSUME NEW e \in inventory, e.content # None, e = ByContent(e.content),
                    NEW f \in Present, ~IsDuplicate(f, seen, converted), seen[f] = e.content
             PROVE  \E g \in considered :
                      claim[g] = e /\ (seen[g] = e.content \/ Meaning[seen[g]] = Meaning[e.content])
  <2>1. \A c : ByContent(c)' = ByContent(c)
    BY <1>2 DEF ByContent, First, Before
  <2> QED
    BY <1>1, <1>2, <1>3, <1>4, <2>1 DEF ContentIsKnown, IsWorkflow
<1>5. f \in considered /\ e # None
  BY <1>3, <1>4
<1>6. CASE e \notin {claim[g] : g \in {h \in considered : h < f}}
  <2>1. claim[f] = e
    BY <1>1, <1>5, <1>6 DEF ClaimsByContent
  <2> QED
    BY <1>5, <2>1
<1>7. ASSUME NEW g \in considered, claim[g] = e
      PROVE  seen[g] = e.content \/ Meaning[seen[g]] = Meaning[e.content]
  <2>1. e = ByContent(seen[g]) \/ e = ByCanonical(seen[g])
    BY <1>1, <1>5, <1>7 DEF ClaimsByContent
  <2>2. e = ByContent(seen[g]) => e.content = seen[g]
    BY <1>5, FirstIsOneOfThem DEF ByContent
  <2>3. e = ByCanonical(seen[g]) => Meaning[e.content] = Meaning[seen[g]]
    BY <1>5, FirstIsOneOfThem DEF ByCanonical
  <2> QED
    BY <2>1, <2>2, <2>3
<1> QED
  BY <1>6, <1>7

\* Rows that keep their ids and contents.
LEMMA ContentStaysKnown ==
  ASSUME ContentIsKnown, run # Idle, UNCHANGED <<source, inventory>>,
         \A f \in Present :
            /\ run'.rows[f].state # "DUPLICATE" <=> run.rows[f].state # "DUPLICATE"
            /\ run'.rows[f].id = run.rows[f].id /\ run'.rows[f].content = run.rows[f].content
  PROVE  ContentIsKnown'
<1>1. Present' = Present /\ \A c : ByContent(c)' = ByContent(c)
  BY DEF Present, ByContent, First, Before
<1>2. SUFFICES ASSUME NEW e \in inventory, e.content # None, e = ByContent(e.content),
                      NEW f \in Present, run'.rows[f].state # "DUPLICATE",
                      run'.rows[f].content = e.content
               PROVE  \E g \in Present :
                        /\ run'.rows[g].state # "DUPLICATE" /\ run'.rows[g].id = e.id
                        /\ run'.rows[g].content # None
                        /\ \/ run'.rows[g].content = e.content
                           \/ Meaning[run'.rows[g].content] = Meaning[e.content]
  BY <1>1 DEF ContentIsKnown, IsWorkflow
<1>3. PICK g \in Present :
        /\ run.rows[g].state # "DUPLICATE" /\ run.rows[g].id = e.id
        /\ run.rows[g].content # None
        /\ \/ run.rows[g].content = e.content
           \/ Meaning[run.rows[g].content] = Meaning[e.content]
  BY <1>2 DEF ContentIsKnown, IsWorkflow
<1> QED
  BY <1>3

\* What a step does to a run: it ends or begins one, is done with a file, or
\* leaves the rows and what is known of ComfyUI alone.
LEMMA RunSteps ==
  ASSUME IInv, [Next]_vars
  PROVE  \/ run' = Idle
         \/ \E unreadable \in SUBSET Files, converted \in SUBSET Contents,
               asked, regenerate \in BOOLEAN :
               Start(unreadable, asked, converted, regenerate)
         \/ /\ run # Idle /\ run' # Idle /\ UNCHANGED <<source, inventory>>
            /\ run'.rows = run.rows /\ run'.todo = run.todo
            /\ run'.contract = run.contract /\ run'.expects = run.expects
            /\ run'.regenerate = run.regenerate
            /\ (run'.well => run.well) /\ (run'.quiet => run.quiet)
            /\ (run'.well \/ run'.quiet => UNCHANGED defs)
            /\ run'.phase = run.phase \/ run.phase = "graph" \/ (AtNext /\ ~IsKept)
         \/ /\ run \in AtFile \cup AtWrite /\ \E f \in run.todo : IsCurrent(f)
            /\ UNCHANGED <<source, inventory>>
            /\ Keep \/ Refuse \/ Recognise \/ PlaceDefinition \/ WriteFails
<1> DEFINE Ends == run' = Idle
           Begins == \E unreadable \in SUBSET Files, converted \in SUBSET Contents,
                        asked, regenerate \in BOOLEAN :
                        Start(unreadable, asked, converted, regenerate)
           Stays == /\ run # Idle /\ run' # Idle /\ UNCHANGED <<source, inventory>>
                    /\ run'.rows = run.rows /\ run'.todo = run.todo
                    /\ run'.contract = run.contract /\ run'.expects = run.expects
                    /\ run'.regenerate = run.regenerate
                    /\ (run'.well => run.well) /\ (run'.quiet => run.quiet)
                    /\ (run'.well \/ run'.quiet => UNCHANGED defs)
                    /\ run'.phase = run.phase \/ run.phase = "graph" \/ (AtNext /\ ~IsKept)
           Finishes == /\ run \in AtFile \cup AtWrite /\ \E f \in run.todo : IsCurrent(f)
                       /\ UNCHANGED <<source, inventory>>
                       /\ Keep \/ Refuse \/ Recognise \/ PlaceDefinition \/ WriteFails
<1>1. TypeOK /\ run \in {Idle} \cup AtFile \cup AtWrite
  BY DEF IInv, TypeOK
<1>2. CASE Keep \/ Refuse \/ Recognise
  <2>1. AtNext /\ UNCHANGED <<source, inventory>>
    BY <1>2 DEF Keep, Refuse, Recognise
  <2>2. run \in AtFile /\ \E f \in run.todo : IsCurrent(f)
    BY <1>1, <2>1, PhasesOfARun DEF AtNext
  <2>3. Finishes
    BY <1>2, <2>1, <2>2
  <2> QED
    BY <2>3
<1>3. CASE PlaceDefinition \/ WriteFails
  <2>1. run.phase \in {"graph", "definition"} /\ UNCHANGED <<source, inventory>>
    BY <1>3 DEF PlaceDefinition, WriteFails
  <2>2. run \in AtWrite /\ run # Idle
    BY <1>1, <2>1, PhasesOfARun DEF Idle
  <2>3. \E f \in run.todo : IsCurrent(f)
    BY <2>1, <2>2 DEF IInv, WritesWhatItRead
  <2>4. Finishes
    BY <1>3, <2>1, <2>2, <2>3
  <2> QED
    BY <2>4
<1>4. CASE Build
  <2>1. /\ AtNext /\ ~IsKept /\ UNCHANGED <<source, inventory, defs>>
        /\ run' = [phase |-> "graph", built |-> Built(defs[Target]), read |-> defs[Target],
                todo |-> run.todo, rows |-> run.rows, used |-> run.used,
                contract |-> run.contract, expects |-> run.expects,
                regenerate |-> run.regenerate, well |-> run.well, quiet |-> run.quiet]
    BY <1>4 DEF Build
  <2>2. run # Idle /\ run' # Idle
    BY <2>1 DEF AtNext, Idle
  <2>3. Stays
    BY <2>1, <2>2
  <2> QED
    BY <2>3
<1>5. CASE PlaceGraph
  <2>1. /\ run.phase = "graph" /\ run' = [run EXCEPT !.phase = "definition"]
        /\ UNCHANGED <<source, inventory, defs>>
    BY <1>5 DEF PlaceGraph
  <2>2. run \in AtWrite
    BY <1>1, <2>1, PhasesOfARun
  <2>3. /\ run # Idle /\ run' # Idle /\ run'.rows = run.rows /\ run'.todo = run.todo
        /\ run'.contract = run.contract /\ run'.expects = run.expects
        /\ run'.regenerate = run.regenerate /\ run'.well = run.well /\ run'.quiet = run.quiet
    BY <2>1, <2>2 DEF AtWrite, Idle
  <2>4. Stays
    BY <2>1, <2>3
  <2> QED
    BY <2>4
<1>6. CASE Disturb /\ UNCHANGED <<source, inventory>>
  <2>1. run' = IF run = Idle THEN Idle ELSE [run EXCEPT !.well = FALSE, !.quiet = FALSE]
    BY <1>6 DEF Disturb
  <2>2. CASE run # Idle
    <3>1. run \in AtFile \/ run \in AtWrite
      BY <1>1, <2>2
    <3>2. /\ run' # Idle /\ run'.rows = run.rows /\ run'.todo = run.todo
          /\ run'.contract = run.contract /\ run'.expects = run.expects
          /\ run'.regenerate = run.regenerate /\ run'.phase = run.phase
          /\ run'.well = FALSE /\ run'.quiet = FALSE
      <4>1. CASE run \in AtFile
        BY <2>1, <2>2, <4>1 DEF AtFile, Idle
      <4>2. CASE run \in AtWrite
        BY <2>1, <2>2, <4>2 DEF AtWrite, Idle
      <4> QED
        BY <3>1, <4>1, <4>2
    <3>3. Stays
      BY <1>6, <2>2, <3>2
    <3> QED
      BY <3>3
  <2> QED
    BY <2>1, <2>2
<1>7. CASE WriteInventory \/ Stop \/ LoseInventory \/ \E files : Rearrange(files)
  BY <1>7 DEF WriteInventory, Stop, LoseInventory, Rearrange, Disturb
<1>8. CASE UNCHANGED vars
  <2>1. run = Idle \/ Stays
    BY <1>8 DEF vars
  <2> QED
    BY <1>8, <2>1 DEF vars
<1>9. (\E i, words : Curate(i, words)) \/ (\E i : Delete(i))
        => Disturb /\ UNCHANGED <<source, inventory>>
  BY DEF Curate, Delete
<1>10. CASE Begins
  BY <1>10
<1> HIDE DEF Ends, Begins, Stays, Finishes
<1> QED
  BY <1>2, <1>3, <1>4, <1>5, <1>6, <1>7, <1>8, <1>9, <1>10
     DEF Next, SyncStep, UserStep, Begins

\* A step that is done with a file gives it a row of the same id and content.
LEMMA FinishingSteps ==
  ASSUME IInv, run \in AtFile \cup AtWrite, \E f \in run.todo : IsCurrent(f),
         Keep \/ Refuse \/ Recognise \/ PlaceDefinition \/ WriteFails
  PROVE  \E row \in {run.rows[Current], Recorded, Failed}, well \in BOOLEAN : Done(row, well)
BY DEF Keep, Refuse, Recognise, PlaceDefinition, WriteFails

LEMMA StepContentIsKnown == IInv /\ ContentIsKnown /\ [Next]_vars => ContentIsKnown'
<1> SUFFICES ASSUME IInv, ContentIsKnown, [Next]_vars PROVE ContentIsKnown'
  OBVIOUS
<1>1. CASE run' = Idle
  BY <1>1 DEF ContentIsKnown
<1>2. CASE \E unreadable \in SUBSET Files, converted \in SUBSET Contents,
              asked, regenerate \in BOOLEAN :
              Start(unreadable, asked, converted, regenerate)
  BY <1>2, ContentIsKnownAtFirst
<1>3. CASE run # Idle /\ UNCHANGED <<source, inventory>> /\ run'.rows = run.rows
  BY <1>3, ContentStaysKnown
<1>4. CASE /\ run \in AtFile \cup AtWrite /\ \E f \in run.todo : IsCurrent(f)
           /\ UNCHANGED <<source, inventory>>
           /\ Keep \/ Refuse \/ Recognise \/ PlaceDefinition \/ WriteFails
  <2>1. PICK row \in {run.rows[Current], Recorded, Failed}, well \in BOOLEAN : Done(row, well)
    BY <1>4, FinishingSteps
  <2>2. /\ row \in Row /\ row.state # "DUPLICATE"
        /\ row.id = run.rows[Current].id /\ row.content = run.rows[Current].content
    BY <1>4, RowFacts
  <2>3. /\ run # Idle /\ IsWorkflow(Current) /\ run'.rows[Current] = row
        /\ \A f \in Present \ {Current} : run'.rows[f] = run.rows[f]
    BY <1>4, <2>1, <2>2, DoneRows
  <2>4. \A f \in Present :
            /\ run'.rows[f].state # "DUPLICATE" <=> run.rows[f].state # "DUPLICATE"
            /\ run'.rows[f].id = run.rows[f].id /\ run'.rows[f].content = run.rows[f].content
    BY <2>2, <2>3 DEF IsWorkflow
  <2> QED
    BY <1>4, <2>3, <2>4, ContentStaysKnown
<1> QED
  BY <1>1, <1>2, <1>3, <1>4, RunSteps

\* IdFollowsContent: the inventory a run writes still gives an entry's id to its
\* content, while some file holds it (_match_against_history claims by content,
\* over every candidate, before it looks at a path).
THEOREM ContentKeepsItsId == Spec => IdFollowsContent
<1>1. IInv /\ ContentIsKnown /\ [Next]_vars /\ WriteInventory =>
        \A e \in inventory :
            (/\ e.content # None
             /\ e = ByContent(e.content)
             /\ \E f \in DOMAIN run.rows :
                   /\ run.rows[f].content = e.content
                   /\ run.rows[f].state # "DUPLICATE")
            => \E d \in inventory' :
                  /\ d.id = e.id
                  /\ d.content # None
                  /\ d.content = e.content \/ Meaning[d.content] = Meaning[e.content]
  <2> SUFFICES ASSUME IInv, ContentIsKnown, WriteInventory, NEW e \in inventory,
                      e.content # None, e = ByContent(e.content),
                      NEW f \in DOMAIN run.rows, run.rows[f].content = e.content,
                      run.rows[f].state # "DUPLICATE"
               PROVE  \E d \in inventory' :
                        /\ d.id = e.id
                        /\ d.content # None
                        /\ d.content = e.content \/ Meaning[d.content] = Meaning[e.content]
    OBVIOUS
  <2>1. /\ inventory' = SeenEntries \cup CarriedForward /\ run # Idle /\ run.phase = "next"
    BY DEF WriteInventory, Idle
  <2>2. DOMAIN run.rows = Present
    BY <2>1, PhasesOfARun DEF IInv, TypeOK, AtFile
  <2>3. PICK g \in Present :
          /\ run.rows[g].state # "DUPLICATE" /\ run.rows[g].id = e.id
          /\ run.rows[g].content # None
          /\ \/ run.rows[g].content = e.content
             \/ Meaning[run.rows[g].content] = Meaning[e.content]
    BY <2>1, <2>2 DEF ContentIsKnown, IsWorkflow
  <2> DEFINE d == [id |-> run.rows[g].id, state |-> run.rows[g].state, path |-> g,
                   content |-> run.rows[g].content, record |-> run.rows[g].record]
  <2>4. d \in inventory'
    BY <2>1, <2>2, <2>3 DEF SeenEntries
  <2>5. d.id = e.id /\ d.content = run.rows[g].content
    BY <2>3
  <2> HIDE DEF d
  <2> QED
    BY <2>3, <2>4, <2>5
<1>2. Init => ContentIsKnown
  BY DEF Init, ContentIsKnown
<1> QED
  BY <1>1, <1>2, StepContentIsKnown, InitIInv, StepIInv, PTL DEF Spec, IdFollowsContent

-----------------------------------------------------------------------------
(* Syncing twice is syncing once *)

\* An entry that was seen comes before those that were not.
LEMMA FirstOfTheSeen ==
  ASSUME NEW S, NEW e \in S, e.state # "REMOVED",
         \A d \in S : d.state # "REMOVED" => d = e
  PROVE  First(S) = e
<1> DEFINE first == {b \in S : \A d \in S \ {b} : Before(b, d)}
<1>1. e \in first
  BY DEF Before
<1>2. \A b \in first : b = e
  <2> SUFFICES ASSUME NEW b \in S, \A d \in S \ {b} : Before(b, d), b # e
               PROVE  FALSE
    OBVIOUS
  <2>1. Before(b, e)
    OBVIOUS
  <2> QED
    BY <2>1 DEF Before
<1>3. first = {e}
  BY <1>1, <1>2
<1> HIDE DEF first
<1>4. (CHOOSE b \in first : TRUE) = e
  BY <1>3
<1> QED
  BY <1>3, <1>4 DEF First, first

\* A file's graph is a matter of its format: an export is one, and every canvas
\* is converted.
LEMMA GraphsByFormat ==
  \A f \in Present :
     HasGraph(Sources[f], Canvases) <=> Format[Sources[f]] \in {"api", "ui"}
<1> SUFFICES ASSUME NEW f \in Present
             PROVE  HasGraph(Sources[f], Canvases) <=> Format[Sources[f]] \in {"api", "ui"}
  OBVIOUS
<1>1. Sources[f] # None
  BY DEF Sources, Present
<1>2. Sources[f] \in Canvases <=> Format[Sources[f]] = "ui"
  BY <1>1 DEF Canvases
<1> QED
  BY <1>1, <1>2 DEF HasGraph

\* Two files with one content, or one a reformatted copy of the other, are not
\* both workflows, if one has a graph.
LEMMA GraphsAreOfOneFile ==
  ASSUME IInv, NEW f \in Present, NEW g \in Present, f # g,
         HasGraph(Sources[f], Canvases),
         \/ Sources[f] = Sources[g]
         \/ Meaning[Sources[f]] = Meaning[Sources[g]] /\ Meaning[Sources[f]] # None
  PROVE  IF g < f THEN IsDuplicate(f, Sources, Canvases) ELSE IsDuplicate(g, Sources, Canvases)
<1>1. Sources[f] \in Contents /\ Sources[g] \in Contents
  BY DEF IInv, TypeOK, Sources, Present
<1>2. /\ Format[Sources[f]] = Format[Sources[g]]
      /\ Meaning[Sources[f]] = Meaning[Sources[g]]
  BY <1>1, MeaningAssumption
<1>3. HasGraph(Sources[g], Canvases)
  BY <1>2, GraphsByFormat
<1>4. f \in Nat /\ g \in Nat /\ DOMAIN Sources = Present
  BY FilesAreNumbers DEF Present, Sources
<1>5. g < f \/ f < g
  BY <1>4
<1> QED
  BY <1>2, <1>3, <1>4, <1>5 DEF IsDuplicate

\* What a run for which nothing fails at first reads and asks.
LEMMA StartOfAWellRun ==
  ASSUME NEW unreadable \in SUBSET Files, NEW converted \in SUBSET Contents,
         NEW asked \in BOOLEAN, unreadable = {},
         asked \/ CanvasesIn(SeenBy(unreadable)) = {},
         asked => CanvasesIn(SeenBy(unreadable)) # {},
         converted = CanvasesIn(SeenBy(unreadable))
  PROVE  SeenBy(unreadable) = Sources /\ converted = Canvases /\ asked = Asked
<1>1. SeenBy(unreadable) = Sources
  BY DEF SeenBy, Sources
<1>2. CanvasesIn(SeenBy(unreadable)) = Canvases
  BY <1>1 DEF CanvasesIn, Canvases, Sources
<1> QED
  BY <1>1, <1>2 DEF Asked

\* What depends on the sources only.
LEMMA SameSources ==
  ASSUME source' = source
  PROVE  /\ Present' = Present /\ Sources' = Sources /\ Canvases' = Canvases /\ Asked' = Asked
         /\ \A f : Importable(f)' = Importable(f)
         /\ \A f, record : IsUpToDate(f, record)' = IsUpToDate(f, record)
BY DEF Present, Sources, Canvases, Asked, Importable, IsUpToDate

LEMMA WellAtFirst ==
  ASSUME IInv, NEW unreadable \in SUBSET Files, NEW converted \in SUBSET Contents,
         NEW asked \in BOOLEAN, NEW regenerate \in BOOLEAN,
         Start(unreadable, asked, converted, regenerate)
  PROVE  WellRunsBringUpToDate'
<1> DEFINE seen == SeenBy(unreadable)
<1>1. /\ run'.contract = asked /\ run'.expects = (CanvasesIn(seen) # {})
      /\ run'.well = (unreadable = {} /\ (asked \/ CanvasesIn(seen) = {})
                       /\ converted = CanvasesIn(seen))
      /\ asked => CanvasesIn(seen) # {}
      /\ run'.todo = {f \in Present : ~IsDuplicate(f, seen, converted)
                                   /\ Judged(seen[f], converted, asked) = "NEW"}
      /\ \A f \in Present :
            /\ run'.rows[f].content = seen[f]
            /\ run'.rows[f].state # "DUPLICATE" <=> ~IsDuplicate(f, seen, converted)
  BY StartRows
<1> HIDE DEF seen
<1> SUFFICES ASSUME run'.well
             PROVE  /\ run'.contract = Asked /\ run'.expects = Asked
                    /\ \A f \in Present :
                          /\ run'.rows[f].content = Sources[f]
                          /\ run'.rows[f].state # "DUPLICATE"
                               <=> ~IsDuplicate(f, Sources, Canvases)
                          /\ Importable(f) => f \in run'.todo
  BY SameSources DEF WellRunsBringUpToDate, IsWorkflow, Start
<1>2. seen = Sources /\ converted = Canvases /\ asked = Asked
  BY <1>1, StartOfAWellRun DEF seen
<1>3. (CanvasesIn(seen) # {}) = Asked
  BY <1>1, <1>2 DEF Asked
<1> QED
  BY <1>1, <1>2, <1>3 DEF Importable

\* Each file a quiet run is to take claims, by its content, the entry that has it
\* up to date.
LEMMA QuietAtFirst ==
  ASSUME IInv, SettledIsUpToDate,
         NEW unreadable \in SUBSET Files, NEW converted \in SUBSET Contents,
         NEW asked \in BOOLEAN, NEW regenerate \in BOOLEAN,
         Start(unreadable, asked, converted, regenerate)
  PROVE  QuietRunsKeep'
<1> DEFINE seen == SeenBy(unreadable)
<1>0. settled \in BOOLEAN
  BY DEF IInv, TypeOK
<1>1. /\ run'.phase = "next" /\ run'.contract = asked /\ run'.regenerate = regenerate
      /\ run'.quiet => /\ settled /\ ~regenerate /\ unreadable = {}
                       /\ (asked \/ CanvasesIn(seen) = {})
                       /\ converted = CanvasesIn(seen)
      /\ asked => CanvasesIn(seen) # {}
  BY <1>0, StartFlags
<1> DEFINE considered == Considered(seen, converted)
<1>2. PICK claim \in [considered -> inventory \cup {None}] :
        /\ ClaimsByContent(claim, seen)
        /\ run'.todo = {f \in Present : ~IsDuplicate(f, seen, converted)
                                     /\ Judged(seen[f], converted, asked) = "NEW"}
        /\ \A f \in Present : run'.rows[f].content = seen[f]
        /\ \A f \in considered : claim[f] # None =>
             /\ run'.rows[f].id = claim[f].id /\ run'.rows[f].record = claim[f].record
             /\ Judged(seen[f], converted, asked) = "NEW"
                  => run'.rows[f].state = "UNCHANGED"
  BY StartRows
<1>3. defs' = defs /\ source' = source
  BY DEF Start
<1> HIDE DEF seen
<1> SUFFICES ASSUME run'.quiet
             PROVE  /\ ~run'.regenerate /\ run'.contract = Asked
                    /\ \A f \in run'.todo :
                          /\ run'.rows[f].content = Sources[f]
                          /\ run'.rows[f].state = "UNCHANGED"
                          /\ IsUpToDate(f, run'.rows[f].record)
                          /\ defs[run'.rows[f].id] # None
  BY <1>1, <1>3, SameSources DEF QuietRunsKeep
<1>4. settled /\ ~regenerate /\ seen = Sources /\ converted = Canvases /\ asked = Asked
  BY <1>1, StartOfAWellRun DEF seen
<1> SUFFICES ASSUME NEW f \in Present, ~IsDuplicate(f, Sources, Canvases),
                    Judged(Sources[f], Canvases, Asked) = "NEW"
             PROVE  /\ run'.rows[f].content = Sources[f]
                    /\ run'.rows[f].state = "UNCHANGED"
                    /\ IsUpToDate(f, run'.rows[f].record)
                    /\ defs[run'.rows[f].id] # None
  BY <1>1, <1>2, <1>4
<1>5. considered = {g \in Present : Sources[g] # None /\ ~IsDuplicate(g, Sources, Canvases)}
  BY <1>4 DEF Considered, Sources
<1>6. HasGraph(Sources[f], Canvases) /\ Sources[f] # None
  BY DEF Judged, HasGraph
<1>7. f \in considered /\ considered \subseteq Present
  BY <1>5, <1>6
<1> HIDE DEF considered
<1>8. PICK e \in inventory :
        /\ e.content = Sources[f] /\ e.state # "REMOVED"
        /\ \A d \in inventory : d.content = Sources[f] /\ d.state # "REMOVED" => d = e
        /\ IsUpToDate(f, e.record) /\ defs[e.id] # None
  BY <1>4 DEF SettledIsUpToDate, Importable
<1>9. e # None
  BY SyncAssumption DEF IInv, TypeOK
<1>10. ByContent(Sources[f]) = e
  BY <1>8, FirstOfTheSeen DEF ByContent
<1>11. e \notin {claim[g] : g \in {h \in considered : h < f}}
  <2> SUFFICES ASSUME NEW g \in considered, g < f, claim[g] = e
               PROVE  FALSE
    OBVIOUS
  <2>1. e = ByContent(Sources[g]) \/ e = ByCanonical(Sources[g])
    BY <1>2, <1>4, <1>9 DEF ClaimsByContent
  <2>2. e = ByContent(Sources[g]) => Sources[f] = Sources[g]
    BY <1>8, <1>9, FirstIsOneOfThem DEF ByContent
  <2>3. e = ByCanonical(Sources[g]) =>
          Meaning[Sources[f]] = Meaning[Sources[g]] /\ Meaning[Sources[f]] # None
    BY <1>8, <1>9, FirstIsOneOfThem DEF ByCanonical
  <2>4. f # g /\ g \in Present
    BY <1>7, FilesAreNumbers DEF Present
  <2>5. IsDuplicate(f, Sources, Canvases)
    BY <1>6, <2>1, <2>2, <2>3, <2>4, GraphsAreOfOneFile
  <2> QED
    BY <2>5
<1>12. claim[f] = e
  BY <1>2, <1>4, <1>7, <1>9, <1>10, <1>11 DEF ClaimsByContent
<1> QED
  BY <1>2, <1>4, <1>7, <1>8, <1>9, <1>12

UpToDateInv == WellRunsBringUpToDate /\ SettledIsUpToDate /\ QuietRunsKeep

\* In a run that goes well, a file that is kept, recognised or written is up to date.
LEMMA StepWell == IInv /\ UpToDateInv /\ [Next]_vars => WellRunsBringUpToDate'
<1> SUFFICES ASSUME IInv, UpToDateInv, [Next]_vars PROVE WellRunsBringUpToDate'
  OBVIOUS
<1>1. CASE run' = Idle
  BY <1>1 DEF WellRunsBringUpToDate
<1>2. CASE \E unreadable \in SUBSET Files, converted \in SUBSET Contents,
              asked, regenerate \in BOOLEAN :
              Start(unreadable, asked, converted, regenerate)
  BY <1>2, WellAtFirst
<1>3. CASE /\ run # Idle /\ UNCHANGED <<source, inventory>>
           /\ run'.rows = run.rows /\ run'.todo = run.todo
           /\ run'.contract = run.contract /\ run'.expects = run.expects
           /\ (run'.well => run.well)
           /\ (run'.well \/ run'.quiet => UNCHANGED defs)
  BY <1>3, SameSources DEF UpToDateInv, WellRunsBringUpToDate, IsWorkflow
<1>4. CASE /\ run \in AtFile \cup AtWrite /\ \E f \in run.todo : IsCurrent(f)
           /\ UNCHANGED <<source, inventory>>
           /\ Keep \/ Refuse \/ Recognise \/ PlaceDefinition \/ WriteFails
  <2>1. PICK row \in {run.rows[Current], Recorded, Failed}, well \in BOOLEAN :
          /\ Done(row, well)
          /\ well => \/ Keep /\ row = run.rows[Current]
                     \/ (Recognise \/ PlaceDefinition) /\ row = Recorded
    BY <1>4 DEF Keep, Refuse, Recognise, PlaceDefinition, WriteFails
  <2>2. /\ row \in Row /\ row.state # "DUPLICATE"
        /\ row.id = run.rows[Current].id /\ row.content = run.rows[Current].content
        /\ Recorded.record = Generated
    BY <1>4, RowFacts
  <2>3. /\ Current \in run.todo /\ Current \in Present /\ IsWorkflow(Current)
        /\ run # Idle /\ run' # Idle /\ run'.todo = run.todo \ {Current}
        /\ run'.contract = run.contract /\ run'.expects = run.expects
        /\ run'.well = (run.well /\ well) /\ run'.rows[Current] = row
        /\ \A f \in Present \ {Current} : run'.rows[f] = run.rows[f]
    BY <1>4, <2>1, <2>2, DoneRows
  <2> SUFFICES ASSUME run.well, well
               PROVE  /\ run'.contract = Asked /\ run'.expects = Asked
                      /\ \A f \in Present :
                            /\ run'.rows[f].content = Sources[f]
                            /\ run'.rows[f].state # "DUPLICATE"
                                 <=> ~IsDuplicate(f, Sources, Canvases)
                            /\ Importable(f) /\ f \notin run'.todo
                                 => /\ IsUpToDate(f, run'.rows[f].record)
                                    /\ defs'[run'.rows[f].id] # None
    <3>1. run'.well => run.well /\ well
      BY <2>3
    <3> QED
      BY <1>4, <2>3, <3>1, SameSources DEF WellRunsBringUpToDate, IsWorkflow
  <2>4. /\ run.contract = Asked /\ run.expects = Asked
        /\ \A f \in Present :
              /\ run.rows[f].content = Sources[f]
              /\ run.rows[f].state # "DUPLICATE" <=> ~IsDuplicate(f, Sources, Canvases)
              /\ Importable(f) /\ f \notin run.todo
                   => IsUpToDate(f, run.rows[f].record) /\ defs[run.rows[f].id] # None
    BY <2>3 DEF UpToDateInv, WellRunsBringUpToDate, IsWorkflow
  <2>5. Generated = [graph |-> Sources[Current], contract |-> Asked, name |-> Stem[Current]]
    BY <2>3, <2>4 DEF Generated
  <2>6. Target = run.rows[Current].id /\ Target \in Ids
    BY <2>3 DEF IInv, RowsAreDistinct, Target
  \* No definition goes away.
  <2>7. \A i \in Ids : defs[i] # None => defs'[i] # None
    <3>1. CASE PlaceDefinition
      <4>1. run.phase = "definition" /\ defs' = [defs EXCEPT ![Target] = run.built]
        BY <3>1 DEF PlaceDefinition
      <4>2. run \in AtWrite
        BY <4>1, PhasesOfARun DEF IInv
      <4>3. run.built # None
        BY <4>2, SyncAssumption DEF AtWrite
      <4> QED
        BY <4>1, <4>3 DEF IInv, TypeOK
    <3> QED
      BY <2>1, <3>1 DEF Keep, Recognise
  <2>8. IsUpToDate(Current, row.record) /\ defs'[Target] # None
    <3>1. CASE Keep /\ row = run.rows[Current]
      <4>1. IsKept /\ defs' = defs
        BY <3>1 DEF Keep
      <4>2. CASE AsRecorded
        BY <3>1, <4>1, <4>2, <2>5 DEF AsRecorded, IsUpToDate, IsKept
      <4>3. CASE ~AsRecorded
        <5>1. KeptForWantOfAContract /\ defs[Target] # None
          BY <4>1, <4>3 DEF IsKept
        <5>2. ~Asked /\ run.rows[Current].record # None /\ run.rows[Current].record.contract
          BY <2>4, <5>1 DEF KeptForWantOfAContract
        <5> QED
          BY <3>1, <4>1, <5>1, <5>2 DEF IsUpToDate
      <4> QED
        BY <4>2, <4>3
    <3>2. CASE Recognise /\ row = Recorded
      <4>1. defs[Target] # None /\ defs' = defs
        BY <3>2 DEF Recognise, IsOnDisk
      <4> QED
        BY <2>2, <2>5, <3>2, <4>1 DEF IsUpToDate
    <3>3. CASE PlaceDefinition /\ row = Recorded
      <4>1. run.phase = "definition" /\ defs' = [defs EXCEPT ![Target] = run.built]
        BY <3>3 DEF PlaceDefinition
      <4>2. run \in AtWrite
        BY <4>1, PhasesOfARun DEF IInv
      <4>3. run.built # None
        BY <4>2, SyncAssumption DEF AtWrite
      <4>4. defs'[Target] # None
        BY <2>6, <4>1, <4>3 DEF IInv, TypeOK
      <4> QED
        BY <2>2, <2>5, <3>3, <4>4 DEF IsUpToDate
    <3> QED
      BY <2>1, <3>1, <3>2, <3>3
  <2>9. ASSUME NEW f \in Present \ {Current}
        PROVE  /\ run'.rows[f].content = Sources[f]
               /\ run'.rows[f].state # "DUPLICATE" <=> ~IsDuplicate(f, Sources, Canvases)
               /\ Importable(f) /\ f \notin run'.todo
                    => IsUpToDate(f, run'.rows[f].record) /\ defs'[run'.rows[f].id] # None
    <3>1. Importable(f) => run.rows[f].id \in Ids
      BY <2>3, <2>4 DEF Importable, IInv, RowsAreDistinct, IsWorkflow
    <3> QED
      BY <2>3, <2>4, <2>7, <3>1
  <2>10. /\ run'.rows[Current].content = Sources[Current]
         /\ run'.rows[Current].state # "DUPLICATE" <=> ~IsDuplicate(Current, Sources, Canvases)
         /\ IsUpToDate(Current, run'.rows[Current].record)
         /\ defs'[run'.rows[Current].id] # None
    BY <2>2, <2>3, <2>4, <2>6, <2>8 DEF IsWorkflow
  <2> QED
    BY <2>3, <2>4, <2>9, <2>10
<1> QED
  BY <1>1, <1>2, <1>3, <1>4, RunSteps

\* The inventory of a run that went well has every workflow up to date, each with
\* the one entry that holds its content.
LEMMA StepSettled == IInv /\ UpToDateInv /\ [Next]_vars => SettledIsUpToDate'
<1> SUFFICES ASSUME IInv, UpToDateInv, [Next]_vars, settled' PROVE SettledIsUpToDate'
  BY DEF SettledIsUpToDate
<1>1. CASE WriteInventory
  <2>0. run.phase = "next"
    BY <1>1 DEF WriteInventory
  <2>1. /\ inventory' = SeenEntries \cup CarriedForward /\ run # Idle /\ run' = Idle
        /\ run.phase = "next" /\ run.todo = {} /\ settled' = run.well
        /\ source' = source /\ defs' = defs
    <3>1. run # Idle
      BY <2>0 DEF Idle
    <3> QED
      BY <1>1, <2>0, <3>1 DEF WriteInventory
  <2>2. run \in AtFile /\ inventory \subseteq Entry
    BY <2>1, PhasesOfARun DEF IInv, TypeOK
  <2>9. run.well
    BY <2>1
  <2>3. run.rows \in [Present -> Row] /\ DOMAIN run.rows = Present
    BY <2>2 DEF AtFile
  <2>4. \A f \in Present :
            /\ run.rows[f].content = Sources[f]
            /\ run.rows[f].state # "DUPLICATE" <=> ~IsDuplicate(f, Sources, Canvases)
            /\ Importable(f)
                 => IsUpToDate(f, run.rows[f].record) /\ defs[run.rows[f].id] # None
    BY <2>1, <2>9 DEF UpToDateInv, WellRunsBringUpToDate, IsWorkflow
  <2> SUFFICES ASSUME NEW f \in Present, Importable(f)
               PROVE  \E e \in inventory' :
                  /\ e.content = Sources[f] /\ e.state # "REMOVED"
                  /\ \A d \in inventory' : d.content = Sources[f] /\ d.state # "REMOVED" => d = e
                  /\ IsUpToDate(f, e.record) /\ defs[e.id] # None
    BY <2>1, SameSources DEF SettledIsUpToDate
  <2> DEFINE e == [id |-> run.rows[f].id, state |-> run.rows[f].state, path |-> f,
                   content |-> run.rows[f].content, record |-> run.rows[f].record]
  <2>5. ~IsDuplicate(f, Sources, Canvases) /\ HasGraph(Sources[f], Canvases)
    BY DEF Importable, Judged
  <2>6. e \in inventory'
    BY <2>1, <2>3, <2>4, <2>5 DEF SeenEntries
  <2>7. /\ e.content = Sources[f] /\ e.state # "REMOVED"
        /\ IsUpToDate(f, e.record) /\ defs[e.id] # None
    BY <2>3, <2>4 DEF Row, SeenStates
  <2>8. ASSUME NEW d \in inventory', d.content = Sources[f], d.state # "REMOVED"
        PROVE  d = e
    <3>1. d \notin CarriedForward
      BY <2>2, <2>8 DEF CarriedForward, Entry
    <3>2. PICK g \in Present :
            /\ run.rows[g].state # "DUPLICATE"
            /\ d = [id |-> run.rows[g].id, state |-> run.rows[g].state, path |-> g,
                    content |-> run.rows[g].content, record |-> run.rows[g].record]
      BY <2>1, <2>3, <2>8, <3>1 DEF SeenEntries
    <3>3. Sources[g] = Sources[f] /\ ~IsDuplicate(g, Sources, Canvases)
      BY <2>4, <2>8, <3>2
    <3>4. g = f
      BY <2>5, <3>3, GraphsAreOfOneFile
    <3> QED
      BY <3>2, <3>4
  <2> HIDE DEF e
  <2> QED
    BY <2>6, <2>7, <2>8
<1>2. CASE Keep \/ Refuse \/ Recognise \/ Build \/ PlaceGraph \/ PlaceDefinition
           \/ WriteFails \/ Stop
  <2>1. run # Idle
    <3>1. run # Idle \/ run.phase \in {"next", "graph", "definition"}
      BY <1>2 DEF Keep, Refuse, Recognise, Build, PlaceGraph, PlaceDefinition, WriteFails, Stop,
                  AtNext
    <3> QED
      BY <3>1 DEF Idle
  <2>2. settled' = settled
    BY <1>2 DEF Keep, Refuse, Recognise, Build, PlaceGraph, PlaceDefinition, WriteFails, Stop
  <2> QED
    BY <2>1, <2>2 DEF UpToDateInv, SettledIsUpToDate
<1>3. CASE UNCHANGED vars
  BY <1>3, SameSources DEF UpToDateInv, SettledIsUpToDate, vars
<1> QED
  BY <1>1, <1>2, <1>3 DEF Next, SyncStep, UserStep, Start, Rearrange, Curate, Delete,
                          LoseInventory, Disturb

\* A quiet run keeps the definition of every file it takes.
LEMMA QuietFilesAreKept ==
  ASSUME QuietRunsKeep, run # Idle, run.quiet, \E f \in run.todo : IsCurrent(f)
  PROVE  IsKept
<1>1. /\ ~run.regenerate /\ run.contract = Asked
      /\ run.rows[Current].content = Sources[Current] /\ run.rows[Current].state = "UNCHANGED"
      /\ IsUpToDate(Current, run.rows[Current].record) /\ defs[Target] # None
  BY CurrentIsToDo DEF QuietRunsKeep, Target
<1>2. Generated = [graph |-> Sources[Current], contract |-> Asked, name |-> Stem[Current]]
  BY <1>1 DEF Generated
<1>3. AsRecorded \/ KeptForWantOfAContract
  BY <1>1, <1>2 DEF AsRecorded, KeptForWantOfAContract, IsUpToDate
<1> QED
  BY <1>1, <1>3 DEF IsKept

LEMMA StepQuiet == IInv /\ UpToDateInv /\ [Next]_vars => QuietRunsKeep'
<1> SUFFICES ASSUME IInv, UpToDateInv, [Next]_vars PROVE QuietRunsKeep'
  OBVIOUS
<1>1. CASE run' = Idle
  BY <1>1 DEF QuietRunsKeep
<1>2. CASE \E unreadable \in SUBSET Files, converted \in SUBSET Contents,
              asked, regenerate \in BOOLEAN :
              Start(unreadable, asked, converted, regenerate)
  BY <1>2, QuietAtFirst DEF UpToDateInv
<1>3. CASE /\ run # Idle /\ UNCHANGED <<source, inventory>>
           /\ run'.rows = run.rows /\ run'.todo = run.todo
           /\ run'.contract = run.contract /\ run'.regenerate = run.regenerate
           /\ (run'.quiet => run.quiet)
           /\ (run'.well \/ run'.quiet => UNCHANGED defs)
           /\ run'.phase = run.phase \/ run.phase = "graph" \/ (AtNext /\ ~IsKept)
  <2> SUFFICES ASSUME run'.quiet PROVE QuietRunsKeep'
    BY DEF QuietRunsKeep
  <2>1. run.quiet /\ run.phase = "next" /\ QuietRunsKeep
    BY <1>3 DEF UpToDateInv, QuietRunsKeep
  <2>2. ~(AtNext /\ ~IsKept)
    BY <1>3, <2>1, QuietFilesAreKept DEF AtNext
  <2> QED
    BY <1>3, <2>1, <2>2, SameSources DEF QuietRunsKeep
<1>4. CASE /\ run \in AtFile \cup AtWrite /\ \E f \in run.todo : IsCurrent(f)
           /\ UNCHANGED <<source, inventory>>
           /\ Keep \/ Refuse \/ Recognise \/ PlaceDefinition \/ WriteFails
  <2>1. PICK row \in {run.rows[Current], Recorded, Failed}, well \in BOOLEAN : Done(row, well)
    BY <1>4, FinishingSteps
  <2>2. /\ row \in Row
    BY <1>4, RowFacts
  <2>3. /\ run # Idle /\ run'.phase = "next" /\ run'.todo = run.todo \ {Current}
        /\ run'.contract = run.contract /\ run'.regenerate = run.regenerate
        /\ run'.quiet = run.quiet
        /\ \A f \in Present \ {Current} : run'.rows[f] = run.rows[f]
    BY <1>4, <2>1, <2>2, DoneRows
  <2> SUFFICES ASSUME run.quiet PROVE QuietRunsKeep'
    BY <2>3 DEF QuietRunsKeep
  <2>4. IsKept /\ run.phase = "next"
    BY <1>4, <2>3, QuietFilesAreKept DEF UpToDateInv, QuietRunsKeep
  <2>5. UNCHANGED defs
    BY <1>4, <2>4 DEF Keep, Refuse, Recognise, PlaceDefinition, WriteFails
  <2>6. run.todo \subseteq Present
    BY <1>4 DEF AtFile, AtWrite
  <2> QED
    BY <1>4, <2>3, <2>5, <2>6, SameSources DEF UpToDateInv, QuietRunsKeep
<1> QED
  BY <1>1, <1>2, <1>3, <1>4, RunSteps

\* QuietRunWritesNothing: a run over what the last one left, with nothing changed
\* and nothing failing, gets past no file with a definition to build (the
\* fingerprint of _generate_definitions, _kept_for_want_of_a_contract).
THEOREM SyncingTwiceIsSyncingOnce == Spec => []QuietRunWritesNothing
<1>1. Init => UpToDateInv
  BY DEF Init, UpToDateInv, WellRunsBringUpToDate, SettledIsUpToDate, QuietRunsKeep
<1>2. UpToDateInv => QuietRunWritesNothing
  BY DEF UpToDateInv, QuietRunsKeep, QuietRunWritesNothing
<1>3. IInv /\ UpToDateInv /\ [Next]_vars => UpToDateInv'
  BY StepWell, StepSettled, StepQuiet DEF UpToDateInv
<1> QED
  BY <1>1, <1>2, <1>3, InitIInv, StepIInv, PTL DEF Spec
=============================================================================
