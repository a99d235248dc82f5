---------------------------- MODULE WorkflowImport ----------------------------
(***************************************************************************)
(* The reading of a graph, input after input, into a plan of fields, and   *)
(* the graph's author exporting it again between two readings: with other  *)
(* node numbers, or a number written as 1.0 that was written as 1.         *)
(***************************************************************************)
EXTENDS FieldPlan

CONSTANTS Graphs,      \* the graphs an author may start from
          Contracts,   \* what a ComfyUI may declare, None if none answers
          MaxExports   \* how often a graph is exported again

(* What a parsed file holds: finitely many numbered nodes, inputs whose    *)
(* names have a place in the alphabet, and finite numbers                  *)
IsValue(x) == /\ x = [kind |-> x.kind, v |-> x.v]
              /\ x.kind \in {"int", "float"} => x.v \in Int
              /\ x.kind = "wire" => x.v = [node |-> x.v.node, slot |-> x.v.slot]
IsNode(x) == /\ x = [class |-> x.class, title |-> x.title, in |-> x.in]
             /\ IsFiniteSet(DOMAIN x.in)
             /\ \A name \in DOMAIN x.in : name \in ToSet(Alphabet) /\ IsValue(x.in[name])
IsGraph(g) == /\ IsFiniteSet(DOMAIN g) /\ DOMAIN g \subseteq Nat
              /\ \A n \in DOMAIN g : IsNode(g[n])

ASSUME GraphsAssumption == \A g \in Graphs : IsGraph(g)

VARIABLES graph,       \* the graph being read
          contract,    \* what the runtime declares
          todo,        \* the literal inputs not judged yet
          candidates,  \* the inputs a field may be made of
          controls,    \* the decision taken about each input
          plan,        \* the plan, once all is read
          before,      \* the plan before the graph was last exported
          exports

vars == <<graph, contract, todo, candidates, controls, plan, before, exports>>

(* The literals, node after node; a wire to another node is none           *)
LiteralInputs(g) ==
  {t \in UNION {[node : {n}, input : DOMAIN Inputs(g, n)] : n \in DOMAIN g} :
     IsLiteral(Inputs(g, t.node)[t.input])}

Before(s, t) == \/ s.node < t.node
                \/ s.node = t.node /\ Place(s.input) < Place(t.input)

Control(t, section, kind, field) ==
  [node |-> t.node, input |-> t.input, section |-> section, kind |-> kind, field |-> field]

Decide(t, section, kind) ==
  /\ controls' = controls \cup {Control(t, section, kind, None)}
  /\ todo' = todo \ {t}
  /\ UNCHANGED <<graph, contract, candidates, plan, before, exports>>

Lock(t, judged) ==
  /\ judged.verdict.exposure = "locked"
  /\ Decide(t, "locked", judged.verdict.kind)

Hold(t, judged) ==
  /\ judged.verdict.exposure = "uncertain"
  /\ Decide(t, "needs_review", None)

SetAside(t, judged, labels) ==
  /\ judged.verdict.media # None
  /\ IsTechnicalMedia(judged.verdict, labels)
  /\ Decide(t, "technical", "technical_media")

Offered(judged, labels) ==
  /\ judged.verdict.exposure = "expose"
  /\ judged.verdict.media # None => ~IsTechnicalMedia(judged.verdict, labels)

HasNoRole(t, judged, labels) ==
  /\ Offered(judged, labels)
  /\ RoleFor(t.input, judged.verdict, labels) = None
  /\ Decide(t, "needs_review", None)

Candidate(t, judged, labels) ==
  [node |-> t.node, input |-> t.input, value |-> Inputs(graph, t.node)[t.input],
   class |-> Class(graph, t.node), verdict |-> judged.verdict,
   role |-> RoleFor(t.input, judged.verdict, labels),
   nearest |-> NearestLabel(labels), labels |-> labels,
   title |-> graph[t.node].title, options |-> judged.options,
   numeric |-> DeclaredNumber(contract, Class(graph, t.node), t.input,
                              Inputs(graph, t.node), judged.verdict)]

Admit(t, judged, labels) ==
  /\ Offered(judged, labels)
  /\ RoleFor(t.input, judged.verdict, labels) # None
  /\ candidates' = candidates \cup {Candidate(t, judged, labels)}
  /\ todo' = todo \ {t}
  /\ UNCHANGED <<graph, contract, controls, plan, before, exports>>

Decided(t, judged, labels) ==
  \/ Lock(t, judged)
  \/ Hold(t, judged)
  \/ SetAside(t, judged, labels)
  \/ HasNoRole(t, judged, labels)
  \/ Admit(t, judged, labels)

Consider ==
  \E t \in todo :
    /\ \A s \in todo \ {t} : Before(t, s)
    /\ Decided(t, Judged(graph, contract, t.node, t.input), DownstreamLabels(graph, t.node))

(* Every candidate is answered for, in a field or among the rejected       *)
FieldControls(fields) ==
  UNION {{Control(t, f.draft.section, None, f.draft.id) : t \in f.draft.targets} : f \in fields}
OneOfTheRejected(rejected) ==
  {Control(Target(CHOOSE c \in g : TRUE), "needs_review", None, None) : g \in rejected}
RejectedControls(rejected) ==
  {Control(Target(c), "needs_review", None, None) : c \in UNION rejected}

Unread == [read |-> FALSE, fields |-> {}, review |-> FALSE]

(* A plan has fields only if nothing was held                              *)
Planned(found) ==
  /\ controls' = controls \cup FieldControls(found.fields) \cup RejectedControls(found.rejected)
  /\ plan' = LET held == {c \in controls' : c.section = "needs_review"}
             IN  [read |-> TRUE, review |-> held # {},
                  fields |-> IF held = {} THEN found.fields ELSE {}]

Conclude ==
  /\ todo = {} /\ ~plan.read
  /\ Planned(FieldsFrom(graph, candidates))
  /\ UNCHANGED <<graph, contract, todo, candidates, before, exports>>

-----------------------------------------------------------------------------
Reread(g, how) ==
  /\ plan.read /\ exports < MaxExports
  /\ graph' = g
  /\ todo' = LiteralInputs(g)
  /\ candidates' = {} /\ controls' = {} /\ plan' = Unread
  /\ before' = [plan |-> plan, how |-> how]
  /\ exports' = exports + 1
  /\ UNCHANGED contract

(* Two nodes change their numbers                                          *)
Swapped(n, m, node) == IF node = n THEN m ELSE IF node = m THEN n ELSE node

Renumbered(g, n, m) ==
  LET Wired(value) ==
        IF value.kind = "wire" THEN [value EXCEPT !.v.node = Swapped(n, m, value.v.node)]
        ELSE value
      Moved(node) == [node EXCEPT !.in = [name \in DOMAIN node.in |-> Wired(node.in[name])]]
  IN  [node \in DOMAIN g |-> Moved(g[Swapped(n, m, node)])]

Renumber(n, m) ==
  /\ n < m
  /\ Reread(Renumbered(graph, n, m), [kind |-> "renumbered", n |-> n, m |-> m])

(* A whole number in its other spelling                                    *)
Respelled(value) == [value EXCEPT !.kind = IF @ = "int" THEN "float" ELSE "int"]

Respell(n, name) ==
  /\ Inputs(graph, n)[name].kind \in {"int", "float"}
  /\ Inputs(graph, n)[name].v % 2 = 0
  /\ Reread([graph EXCEPT ![n].in[name] = Respelled(@)],
            [kind |-> "respelled", node |-> n, input |-> name])

Init ==
  /\ graph \in Graphs /\ contract \in Contracts
  /\ todo = LiteralInputs(graph)
  /\ candidates = {} /\ controls = {}
  /\ plan = Unread /\ before = None /\ exports = 0

Next ==
  \/ Consider
  \/ Conclude
  \/ \E n, m \in DOMAIN graph : Renumber(n, m)
  \/ \E n \in DOMAIN graph : \E name \in DOMAIN Inputs(graph, n) : Respell(n, name)

Spec == Init /\ [][Next]_vars

-----------------------------------------------------------------------------
Done == plan.read
Fields == {f.draft : f \in plan.fields}
Members(f) == {c \in candidates : Target(c) \in f.targets}
ValueAt(t) == Inputs(graph, t.node)[t.input]

InAField(c) == c.section \in {"main", "advanced"}

(* Every literal input is answered for once: in the one field it belongs   *)
(* to, as locked or technical and in no field, or as a reason for review,  *)
(* and a plan with such a reason has no field (the control inventory).     *)
EveryInputIsAnswered ==
  Done =>
    /\ {Target(c) : c \in controls} = LiteralInputs(graph)
    /\ \A c, d \in controls : Target(c) = Target(d) => c = d
    /\ plan.review <=> \E c \in controls : c.section = "needs_review"
    /\ plan.review => Fields = {}
    /\ \A f \in Fields :
         f.targets = {Target(c) : c \in {c \in controls : InAField(c) /\ c.field = f.id}}

(* The ids of a workflow, and what each is bound to, outlive its being     *)
(* exported with other node numbers, and with 1.0 for 1 wherever every two *)
(* inputs of that number and role are declared alike, or undeclared and    *)
(* the same input of the same class, and no input's path goes through it   *)
(* (the stable ids of the module's doc).                                   *)
Moved(t, how) ==
  IF how.kind = "renumbered" THEN [t EXCEPT !.node = Swapped(how.n, how.m, @)] ELSE t

OneControlEitherWay(how) ==
  \E c \in candidates :
    /\ \A name \in DOMAIN Inputs(graph, how.node) :
         how.input \notin DOMAIN HeldAbove(name, Inputs(graph, how.node))
    /\ Target(c) = [node |-> how.node, input |-> how.input]
    /\ LET same == {d \in candidates : d.role = c.role /\ IsNumber(d) /\ d.value.v = c.value.v}
       IN  \A d, e \in same : DeclaredAlike(d, e)

IdsOutliveReexport ==
  /\ Done /\ before # None
  /\ before.how.kind = "respelled" => OneControlEitherWay(before.how)
  => /\ plan.review = before.plan.review
     /\ {<<f.id, f.targets>> : f \in Fields}
          = {<<f.draft.id, {Moved(t, before.how) : t \in f.draft.targets}>> :
               f \in before.plan.fields}

(* Where the graph's number lies in every range declared behind a field,   *)
(* and the field can carry the bounds, each number the field takes is one  *)
(* that every node behind it takes (_resolved_declaration).                *)
InRange(range, v) == /\ range.min # None => range.min.v <= v
                     /\ range.max # None => v <= range.max.v

SharedRangeIsSafe ==
  Done => \A f \in Fields :
    LET declared == {c.numeric : c \in Members(f)} \ {None}
        bounds == (UNION {{n.min, n.max} : n \in declared}) \ {None}
    IN  /\ f.type \in NumericFieldTypes
        /\ \A n \in declared : InRange(n, f.default.v)
        /\ f.type = "integer" => \A b \in bounds : b.kind = "int"
        => \A v \in UNION {(b.v - 2)..(b.v + 2) : b \in bounds} :
             InRange(f, v) => \A n \in declared : InRange(n, v)

(* No two fields of a plan are called the same, though their roles, their  *)
(* wiring and their nodes' titles may all be (_distinguish).               *)
LabelsTellApart ==
  Done => \A f, g \in plan.fields : f # g => f.label # g.label

(* Whatever the runtime declares, no field holds or offers a path, none    *)
(* chooses among files, none is bound to the shape of a node or chooses    *)
(* what a loading node loads, and a matte is never asked for.  A weights   *)
(* file or an address is held only where the runtime lists it as a choice. *)
NothingStructuralIsOffered ==
  Done => \A f \in Fields : \A t \in f.targets :
    LET class == Class(graph, t.node)
        held == ValueAt(t)
    IN
      /\ f.type \notin {"image", "video"} => ~LooksLikeAPath(held)
      /\ f.type \notin {"image", "video", "select"} =>
           ~LooksLikeAWebAddress(held) /\ "weights" \notin LooksOf(held)
      /\ ~NamesFiles(f.options)
      /\ f.options # << >> => f.type = "select"
      /\ ShapesFor(contract, class, t.input) = None
      /\ f.type = "select" => ToSet(class) \cap LoadingClassWords = {}
      /\ f.type \in {"image", "video"} =>
           \A c \in Consumers(graph, t.node) : Words(c.name) \cap MaskWords = {}

=============================================================================
