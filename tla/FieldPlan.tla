------------------------------ MODULE FieldPlan ------------------------------
(***************************************************************************)
(* The candidates of a graph made into fields: which of them are one       *)
(* control, what id it goes by, what range and default it offers, and what *)
(* it is called.                                                           *)
(*                                                                         *)
(* A candidate is [node, input, value, class, verdict, role, nearest,      *)
(* labels, title, options, numeric].  An id is [role, mark], the           *)
(* mark {} where the role alone is enough.  A label is what its parts are: *)
(* the role it begins with and, in brackets, words, a mark or the id.      *)
(***************************************************************************)
EXTENDS GraphAnalysis

Target(c) == [node |-> c.node, input |-> c.input]
Earlier(c, d) ==
  \/ c.node < d.node
  \/ c.node = d.node /\ c.value.kind # "float" /\ d.value.kind = "float"
  \/ c.node = d.node /\ (c.value.kind = "float") = (d.value.kind = "float")
     /\ Place(c.input) < Place(d.input)

(* The members of a group are kept by their nodes' numbers                 *)
FirstMember(group) == CHOOSE c \in group : \A d \in group \ {c} : Earlier(c, d)

-----------------------------------------------------------------------------
(* Which candidates are one control                                        *)
DeclarationKey(c) ==
  IF c.numeric = None \/ c.numeric.type = c.verdict.type THEN None ELSE c.numeric.type

Key(c) == <<c.role, c.verdict.type, c.value, ToSet(c.options), DeclarationKey(c)>>

KeyGroups(candidates) ==
  {{c \in candidates : Key(c) = key} : key \in {Key(c) : c \in candidates}}

DeclaredAlike(c, d) ==
  IF c.numeric # None /\ d.numeric # None THEN c.numeric.type = d.numeric.type
  ELSE /\ c.numeric = None /\ d.numeric = None
       /\ c.class = d.class /\ c.input = d.input

SameKindOfControl(group, other) == \A c \in group, d \in other : DeclaredAlike(c, d)

IsNumber(c) == c.verdict.type \in NumericFieldTypes

(* One number in its two spellings, with the evidence that it is one       *)
Joins(whole, fractional) ==
  LET c == CHOOSE c \in whole : TRUE
      d == CHOOSE d \in fractional : TRUE
  IN  /\ IsNumber(c) /\ IsNumber(d)
      /\ c.role = d.role /\ c.value.v = d.value.v
      /\ c.value.kind = "int" /\ d.value.kind = "float"
      /\ SameKindOfControl(whole, fractional)

OneNumberHoweverWritten(groups) ==
  LET Absorbed(g) == \E h \in groups : Joins(h, g)
      With(g) == g \cup UNION {h \in groups : Joins(g, h)}
  IN  {With(g) : g \in {g \in groups : ~Absorbed(g)}}

ControlGroups(candidates) == OneNumberHoweverWritten(KeyGroups(candidates))

RoleOf(group) == (CHOOSE c \in group : TRUE).role

-----------------------------------------------------------------------------
(* Telling the groups of one role apart, by what each is wired into and    *)
(* out of: two hops far, and further only where that is the same           *)
Mark(graph, c, depth) == Fingerprint(graph, c.node, c.input, depth)

(* Plausible mistakes: one member's mark for all, the range of one, a      *)
(* bound the graph contradicts, no name of last resort                     *)
MarkOfTheFirst(graph, group, depth) == {Mark(graph, FirstMember(group), depth)}

(* A group's mark is made of all its members' marks at once                *)
GroupMark(graph, group, depth) == {Mark(graph, c, depth) : c \in group}

Apart(graph, groups, depth) ==
  Cardinality({GroupMark(graph, g, depth) : g \in groups}) = Cardinality(groups)
SameAtDepth(graph, groups, depth) ==
  \A c \in UNION groups : Mark(graph, c, depth) = Mark(graph, c, depth - 1)

(* The depth at which colliding groups differ; None if they never do, or   *)
(* one hop more shows nothing more                                         *)
SeparatingDepth(graph, groups) ==
  LET depths == (FingerprintDepth + 1)..Cardinality(DOMAIN graph)
      Stops(d) == \E e \in (FingerprintDepth + 2)..(d - 1) : SameAtDepth(graph, groups, e)
      found == {d \in depths : Apart(graph, groups, d)}
      least == CHOOSE d \in found : \A e \in found : d <= e
  IN  IF found = {} \/ Stops(least) THEN None ELSE least

Colliding(graph, group, groups) ==
  {g \in groups : GroupMark(graph, g, FingerprintDepth)
                   = GroupMark(graph, group, FingerprintDepth)}

(* How far each group of a role has to be looked at                        *)
DepthOf(graph, group, groups) ==
  LET colliding == Colliding(graph, group, groups) IN
    IF colliding = {group} THEN FingerprintDepth ELSE SeparatingDepth(graph, colliding)

-----------------------------------------------------------------------------
(* The range of a field: what every node behind it declares                *)
Tightest(bounds, Narrower(_, _)) ==
  LET given == bounds \ {None}
      best == {x \in given : \A y \in given : x.v = y.v \/ Narrower(x.v, y.v)}
  IN  IF given = {} THEN None
      ELSE IF \E x \in best : x.kind = "int" THEN CHOOSE x \in best : x.kind = "int"
      ELSE CHOOSE x \in best : TRUE

DeclarationOfTheFirst(group) == FirstMember(group).numeric

ResolvedDeclaration(group) ==
  LET declared == {c.numeric : c \in group} \ {None}
      steps == {n.step : n \in declared}
  IN  IF declared = {} THEN None
      ELSE [type |-> (CHOOSE n \in declared : TRUE).type,
            min  |-> Tightest({n.min : n \in declared}, >),
            max  |-> Tightest({n.max : n \in declared}, <),
            step |-> IF Cardinality(steps) = 1 THEN CHOOSE s \in steps : TRUE ELSE None]

UsableBound(bound, type) ==
  IF bound # None /\ type = "integer" /\ bound.kind = "float" THEN None ELSE bound

BoundsAsDeclared(declared, type, value) ==
  [min |-> UsableBound(declared.min, type), max |-> UsableBound(declared.max, type),
   step |-> UsableBound(declared.step, type)]

(* A bound that says nothing coherent, or that the graph's own value       *)
(* contradicts, is left out                                                *)
NumericBounds(declared, type, value) ==
  LET min == UsableBound(declared.min, type)
      max == UsableBound(declared.max, type)
      step == UsableBound(declared.step, type)
      crossed == min # None /\ max # None /\ min.v > max.v
  IN  [min  |-> IF crossed THEN None ELSE
                IF min # None /\ value.v < min.v THEN None ELSE min,
       max  |-> IF crossed THEN None ELSE
                IF max # None /\ value.v > max.v THEN None ELSE max,
       step |-> IF step # None /\ step.v <= 0 THEN None ELSE step]

(* What a group's field is, all but its name                               *)
Field(group, mark, dimensions, frameRate) ==
  LET first == FirstMember(group)
      verdict == first.verdict
      declared == ResolvedDeclaration(group)
      spellings == {c.value.kind : c \in group}
      type == IF declared # None THEN declared.type
              ELSE IF Cardinality(spellings) > 1 THEN "float" ELSE verdict.type
      main == verdict.media # None \/ (verdict.prompt /\ first.role = <<"prompt">>)
      default == IF \/ verdict.media # None
                    \/ first.value.kind = "text" /\ main /\ "blank" \in LooksOf(first.value)
                 THEN None
                 ELSE IF Cardinality(spellings) > 1
                      THEN [first.value EXCEPT !.kind = IF type = "float" THEN "float" ELSE "int"]
                      ELSE first.value
      bounds == IF declared = None THEN [min |-> None, max |-> None, step |-> None]
                ELSE NumericBounds(declared, type, default)
  IN  [id |-> [role |-> first.role, mark |-> mark], type |-> type,
       section |-> IF main THEN "main" ELSE "advanced", required |-> main,
       default |-> default, options |-> first.options,
       translatable |-> verdict.prompt /\ type \in {"string", "multiline"},
       seed |-> first.role = SeedRole /\ type = "integer",
       pair |-> /\ type = "integer" /\ first.role \in dimensions
                /\ Cardinality(dimensions) = 2,
       duration |-> IF type = "integer" /\ first.role \in FrameCountNames
                    THEN frameRate ELSE None,
       min |-> bounds.min, max |-> bounds.max, step |-> bounds.step,
       targets |-> {Target(c) : c \in group}]

-----------------------------------------------------------------------------
(* What a field is called.  Where two would be called the same, each takes *)
(* the next name it has: further along its wires, its node's title, its id *)
Label(role, words, mark, id) == [stem |-> role, words |-> words, mark |-> mark, id |-> id]

(* What tells a field from its siblings: the nearest consumer of its first *)
(* member, that one's own name, or its fingerprint                         *)
FirstLabel(graph, group, depth) ==
  LET first == FirstMember(group)
      Hinted(name) == Label(first.role, <<Tokens(name)>>, None, None)
  IN  IF depth = 0 THEN Label(first.role, << >>, None, None)
      ELSE IF first.nearest # None THEN Hinted(first.nearest)
      ELSE IF first.input # first.role THEN Hinted(first.input)
      ELSE Label(first.role, << >>, Mark(graph, first, depth), None)

(* Where a field's value ends up, by the nearest of its members            *)
MergedDownstream(group) ==
  LET names == UNION {DOMAIN c.labels : c \in group}
      Far(name) == {c.labels[name] : c \in {c \in group : name \in DOMAIN c.labels}}
  IN  [name \in names |-> CHOOSE d \in Far(name) : \A e \in Far(name) : d <= e]

SharedTitle(group) ==
  LET titles == {c.title : c \in group} \ {<< >>} IN
    IF Cardinality(titles) = 1 THEN CHOOSE title \in titles : TRUE ELSE << >>

NoLastResort(group, first, id) ==
  <<first>> \o IF SharedTitle(group) = << >> THEN << >>
               ELSE <<Label(first.stem, <<SharedTitle(group)>>, None, None)>>

Alternatives(group, first, id) ==
  LET reached == MergedDownstream(group)
      told == {name \in DOMAIN reached : <<Tokens(name)>> # first.words}
      further == InOrder([name \in told |-> reached[name]])
      hops == IF Cardinality(told) < WiringHints THEN Cardinality(told) ELSE WiringHints
      Wired(n) == Label(first.stem, first.words \o [i \in 1..n |-> Tokens(further[i])],
                        first.mark, None)
      title == SharedTitle(group)
      named == <<first>> \o [n \in 1..hops |-> Wired(n)]
               \o (IF title = << >> THEN << >>
                   ELSE <<Label(first.stem, <<title>>, None, None)>>)
  IN  Append(WithoutRepeats(named), Label(first.stem, << >>, None, id))

(* The labels of all the groups, relabelled until no two are the same      *)
Distinguish(ladders) ==
  LET fields == DOMAIN ladders
      Climb(rungs) ==
        Tabled([f \in fields |->
           IF /\ rungs[f] < Len(ladders[f])
              /\ \E g \in fields \ {f} : ladders[g][rungs[g]] = ladders[f][rungs[f]]
           THEN rungs[f] + 1 ELSE rungs[f]])
      rounds == 1 + Cardinality(UNION {{f} \X DOMAIN ladders[f] : f \in fields})
      rungs == Iterate(Climb, [f \in fields |-> 1], rounds)
  IN  Tabled([f \in fields |-> ladders[f][rungs[f]]])

-----------------------------------------------------------------------------
(* The depth at which each group is told from the others of its role       *)
Depths(graph, groups) ==
  LET OfRole(g) == {h \in groups : RoleOf(h) = RoleOf(g)} IN
    Tabled([g \in groups |-> IF OfRole(g) = {g} THEN 0 ELSE DepthOf(graph, g, OfRole(g))])

(* A role with groups that nothing tells apart is rejected whole           *)
Rejected(depths) ==
  {g \in DOMAIN depths :
     \E h \in DOMAIN depths : RoleOf(h) = RoleOf(g) /\ depths[h] = None}

DraftsOf(graph, depths, kept) ==
  LET dimensions == {RoleOf(g) : g \in DOMAIN depths} \cap DimensionNames
      Drafted(g) == Field(g, IF depths[g] = 0 THEN {} ELSE GroupMark(graph, g, depths[g]),
                          dimensions, DeclaredFrameRate(graph))
  IN  Tabled([g \in kept |-> Drafted(g)])

Named(graph, depths, drafts) ==
  LET ladders == Tabled([g \in DOMAIN drafts |->
                   Alternatives(g, FirstLabel(graph, g, depths[g]), drafts[g].id)])
      With(labels) == {[draft |-> drafts[g], label |-> labels[g]] : g \in DOMAIN drafts}
  IN  With(Distinguish(ladders))

(* The fields of the candidates, and the groups nothing tells apart        *)
FieldsAt(graph, depths) ==
  [fields |-> Named(graph, depths, DraftsOf(graph, depths, DOMAIN depths \ Rejected(depths))),
   rejected |-> Rejected(depths)]

FieldsFrom(graph, candidates) == FieldsAt(graph, Depths(graph, ControlGroups(candidates)))

=============================================================================
