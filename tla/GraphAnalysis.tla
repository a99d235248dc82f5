---------------------------- MODULE GraphAnalysis ----------------------------
(***************************************************************************)
(* One graph read into the fields a person would set.  Every literal input *)
(* is judged in turn: locked, technical, held for review, or a candidate.  *)
(* Candidates that are provably one control become one field, and a field  *)
(* is named for its role, or, where a role has several, for what its node  *)
(* is wired into and out of.                                               *)
(*                                                                         *)
(* A graph is a function from node numbers to [class, title, in]; an       *)
(* input's value of kind "wire" is [node, slot].  A class and a title are  *)
(* sequences of words.  A digest is what it is a digest of.                *)
(***************************************************************************)
EXTENDS RuntimeContract

CONSTANT Alphabet    \* the input names, in their alphabetical order

ASSUME AlphabetAssumption == DOMAIN Alphabet \subseteq Nat

FingerprintDepth == 2
MaskEvidenceDepth == 2
WiringHints == 2
GenericMediaLabels ==
  {<<"image">>, <<"images">>, <<"video">>, <<"videos">>, <<"pixels">>, <<"source">>,
   <<"src">>, <<"input">>, <<"input", "image">>, <<"init", "image">>, <<"frames">>}
LoadingClassWords == {"load", "loader", "loaders"}
ComputationOutputs == {"INT", "FLOAT", "BOOLEAN", "SIGMAS"}
ModelPatchOutputs == {"MODEL"}
NumericFieldTypes == {"integer", "float"}

Place(name) == CHOOSE i \in DOMAIN Alphabet : Alphabet[i] = name

-----------------------------------------------------------------------------
(* The wiring.  Only a node's first output is followed downstream.         *)
Class(graph, node) == graph[node].class
Inputs(graph, node) == graph[node].in

Wires(graph, node) ==
  {name \in DOMAIN Inputs(graph, node) :
     LET value == Inputs(graph, node)[name] IN
       value.kind = "wire" /\ value.v.node \in DOMAIN graph}

Upstream(graph, node) ==
  {[name |-> name, node |-> Inputs(graph, node)[name].v.node] : name \in Wires(graph, node)}

Consumers(graph, node) ==
  UNION {{[node |-> n, name |-> name] :
            name \in {w \in Wires(graph, n) :
                        Inputs(graph, n)[w].v = [node |-> node, slot |-> 0]}} :
         n \in DOMAIN graph}

(* Iterating an operator                                                   *)
Iterate(Op(_), x, n) ==
  LET nth[i \in 0..n] == IF i = 0 THEN x ELSE Op(nth[i - 1]) IN nth[n]

(* A function as it is.  TLC computes its values to compare it, and keeps  *)
(* them                                                                    *)
Tabled(f) == CHOOSE g \in {f} : g = f

(* The names a node's output reaches, and after how many wires             *)
Reached(graph, node, hops) ==
  LET Wider(S) == S \cup {c.node : c \in UNION {Consumers(graph, n) : n \in S}}
  IN  Iterate(Wider, {node}, hops)

DownstreamLabels(graph, node) ==
  LET Names(n) == {c.name : c \in Consumers(graph, n)}
      within == Tabled([d \in 0..Cardinality(DOMAIN graph) |-> Reached(graph, node, d)])
      At(d) == UNION {Names(n) : n \in within[d - 1]}
      depths == 1..Cardinality(DOMAIN graph)
  IN  Tabled([name \in UNION {At(d) : d \in depths} |->
         CHOOSE d \in depths : name \in At(d) /\ \A e \in 1..(d - 1) : name \notin At(e)])

(* Labels, the nearest first                                               *)
InOrder(labels) ==
  SetToSortSeq(DOMAIN labels,
    LAMBDA m, n : \/ labels[m] < labels[n]
                  \/ labels[m] = labels[n] /\ Place(m) < Place(n))

NearestLabel(labels) == IF DOMAIN labels = {} THEN None ELSE InOrder(labels)[1]

(* What a node is wired out of and into, depth hops far: class types and   *)
(* input names, each as often as it occurs                                 *)
UpShapes(graph, depth) ==
  LET Deeper(up) ==
        Tabled([n \in DOMAIN graph |-> {<<e.name, Class(graph, e.node), up[e.node]>> :
                                          e \in Upstream(graph, n)}])
  IN  Iterate(Deeper, [n \in DOMAIN graph |-> {}], depth)

DownShapes(graph, depth) ==
  LET Deeper(down) ==
        Tabled([n \in DOMAIN graph |->
           LET Part(e) == <<e.name, Class(graph, e.node), down[e.node]>>
           IN  {<<part, Cardinality({e \in Consumers(graph, n) : Part(e) = part})>> :
                  part \in {Part(e) : e \in Consumers(graph, n)}}])
  IN  Iterate(Deeper, [n \in DOMAIN graph |-> {}], depth)

Fingerprint(graph, node, name, depth) ==
  [input |-> name, class |-> Class(graph, node), deep |-> depth > FingerprintDepth,
   up |-> UpShapes(graph, depth)[node], down |-> DownShapes(graph, depth)[node]]

-----------------------------------------------------------------------------
(* What the runtime adds.  An input that a node's shape added is declared  *)
(* under the shape the graph holds; a path that does not resolve asks the  *)
(* declarations of the class.                                              *)
Shaped(keys, value) == {i \in DOMAIN keys : keys[i].key = value}

Resolve(level, class, keys, held, child, path) ==
  LET chosen == IF keys = None THEN {} ELSE Shaped(keys, held)
  IN  IF Cardinality(chosen) # 1 THEN None
      ELSE UnderShape(level, class, keys[CHOOSE i \in chosen : TRUE], child, path)

(* What the graph holds at the inputs a name is a path below               *)
HeldAbove(name, inputs) ==
  LET above == {SubSeq(name, 1, i - 1) : i \in Dots(name)} \cap DOMAIN inputs
  IN  [parent \in {p \in above : IsLiteral(inputs[p])} |-> inputs[parent]]

ContractUnderShapes(contract, class, name, above) ==
  LET dots == SetToSortSeq(Dots(name), <)
      Held(parent) == IF parent \in DOMAIN above THEN above[parent] ELSE None
      Down(level, i) ==
        LET parent == SubSeq(name, 1, dots[i] - 1)
            end == IF i = Len(dots) THEN Len(name) ELSE dots[i + 1] - 1
        IN  Resolve(level, class, ShapesFor(level, class, parent), Held(parent),
                    SubSeq(name, dots[i] + 1, end), SubSeq(name, 1, end))
  IN  FoldLeft(Down, contract, [i \in DOMAIN dots |-> i])

ChosenShapeContract(contract, class, name, inputs) ==
  LET found == ContractUnderShapes(contract, class, name, HeldAbove(name, inputs))
  IN  IF found = None \/ Declares(contract, class, name) THEN contract ELSE found

StructuralChoice(keys, value) ==
  IF keys = None THEN None
  ELSE IF Shaped(keys, value) = {} THEN Uncertain ELSE Locked("node_shape")

(* An option list upgrades what nothing else could tell: not one of files, *)
(* not one that lacks the value, and not on a node whose job is loading    *)
Plain(verdict) == [verdict |-> verdict, options |-> << >>]

(* A plausible mistake: the list is trusted, whatever the node is for      *)
TrustTheList(options, class, name, value) ==
  IF \A i \in DOMAIN options : ~PythonEqual(value, options[i]) THEN Plain(Uncertain)
  ELSE [verdict |-> Exposed("select", SanitizeRole(name)), options |-> options]

AskTheRuntime(options, class, name, value) ==
  IF NamesFiles(options) \/ (\A i \in DOMAIN options : ~PythonEqual(value, options[i]))
  THEN Plain(Uncertain)
  ELSE IF ToSet(class) \cap LoadingClassWords # {}
       THEN Plain(Locked("load_setting"))
       ELSE [verdict |-> Exposed("select", SanitizeRole(name)), options |-> options]

OutputsAre(produced, types) ==
  produced # None /\ produced # {} /\ produced \subseteq types

(* The only input of its node, wired straight into an input for a prompt   *)
WiredPrompt(graph, node, name, value) ==
  /\ DOMAIN Inputs(graph, node) = {name}
  /\ \E c \in Consumers(graph, node) : Classify(c.name, value).prompt

HoldsItsDefault(declared, value) == declared # None /\ declared.default = value

(* Where no list is declared, for a text                                   *)
RulesWithoutAList(graph, asked, node, name, value) ==
  LET class == Class(graph, node)
      text == value.kind = "text"
      Rule(when, then) == [when |-> when, then |-> then]
  IN <<
       Rule(text /\ OutputsAre(OutputsFor(asked, class), ComputationOutputs), Locked("computation")),
       Rule(text /\ OutputsAre(OutputsFor(asked, class), ModelPatchOutputs), Locked("model_patch")),
       Rule(WiredPrompt(graph, node, name, value), ExposedPrompt(name)),
       Rule(text /\ HoldsItsDefault(StringFor(asked, class, name), value),
            Locked("declared_default")),
       Rule(TRUE, Uncertain) >>

WithoutAList(graph, asked, node, name, value) ==
  FirstOf(RulesWithoutAList(graph, asked, node, name, value))

(* The whole judgement: shapes first, then the name and value, then, for   *)
(* what is uncertain and no shape, the runtime                             *)
Settled(graph, asked, node, name, value, shaped, named, options) ==
  CASE shaped # None -> Plain(shaped)
    [] shaped = None /\ named.exposure # "uncertain" -> Plain(named)
    [] OTHER -> IF options # None
                THEN AskTheRuntime(options, Class(graph, node), name, value)
                ELSE Plain(WithoutAList(graph, asked, node, name, value))

JudgedUnder(asked, graph, node, name) ==
  LET class == Class(graph, node)
      value == Inputs(graph, node)[name]
  IN  Settled(graph, asked, node, name, value,
              StructuralChoice(ShapesFor(asked, class, name), value),
              Classify(name, value), OptionsFor(asked, class, name))

Judged(graph, contract, node, name) ==
  JudgedUnder(ChosenShapeContract(contract, Class(graph, node), name, Inputs(graph, node)),
              graph, node, name)

DeclaredNumber(contract, class, name, inputs, verdict) ==
  IF verdict.type \in NumericFieldTypes
  THEN NumericFor(ChosenShapeContract(contract, class, name, inputs), class, name)
  ELSE None

-----------------------------------------------------------------------------
(* The part an input plays                                                 *)
IsTechnicalMedia(verdict, labels) ==
  \/ verdict.mask
  \/ \E name \in DOMAIN labels :
       labels[name] <= MaskEvidenceDepth /\ Words(name) \cap MaskWords # {}

(* Which prompt a text is: its own name, or the nearer kind of conditioning *)
Polarity(name, labels) ==
  LET Far(word) == IF <<word>> \in DOMAIN labels THEN labels[<<word>>] ELSE None
      positive == Far("positive")
      negative == Far("negative")
  IN  CASE "negative" \in Words(name) -> "negative"
        [] Words(name) \cap {"negative", "positive"} = {"positive"} -> "positive"
        [] OTHER -> IF negative = None THEN "positive"
                    ELSE IF positive = None THEN "negative"
                    ELSE IF positive = negative THEN "either"
                    ELSE IF positive < negative THEN "positive" ELSE "negative"

MediaRole(kind, name, nearest) ==
  LET role == SanitizeRole(IF nearest = None THEN name ELSE nearest) IN
    IF role = << >> \/ role \in GenericMediaLabels THEN <<kind>>
    ELSE IF kind \in ToSet(role) THEN role ELSE Append(role, kind)

(* None where no role can be given                                         *)
RoleFor(name, verdict, labels) ==
  IF verdict.prompt
  THEN CASE Polarity(name, labels) = "negative" -> <<"negative", "prompt">>
         [] Polarity(name, labels) = "positive" -> <<"prompt">>
         [] OTHER -> None
  ELSE IF verdict.media # None
       THEN MediaRole(verdict.media, name, NearestLabel(labels))
       ELSE IF verdict.role = << >> THEN None ELSE verdict.role

DeclaredFrameRate(graph) ==
  LET rates == {Inputs(graph, t[1])[t[2]].v :
                  t \in {t \in UNION {{n} \X DOMAIN Inputs(graph, n) : n \in DOMAIN graph} :
                           LET value == Inputs(graph, t[1])[t[2]] IN
                             /\ SanitizeRole(t[2]) \in FrameRateNames
                             /\ value.kind \in {"int", "float"}
                             /\ value.v > 0}}
  IN  IF Cardinality(rates) = 1 THEN CHOOSE rate \in rates : TRUE ELSE None

=============================================================================
