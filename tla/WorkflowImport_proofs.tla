------------------------ MODULE WorkflowImport_proofs ------------------------
(***************************************************************************)
(* Theorems about WorkflowImport for any graphs, contracts and exports,    *)
(* and that the definition written from a plan loads (GeneratedDefinition).*)
(*                                                                         *)
(* The induction theorems of the library cannot be instantiated here, so   *)
(* an induction is an argument about the least of the numbers that would   *)
(* refute it (Least).                                                      *)
(***************************************************************************)
EXTENDS GeneratedDefinition, FiniteSetTheorems, WellFoundedInduction, TLAPS

Below == {p \in Nat \X Nat : p[1] < p[2]}

LEMMA BelowWF == IsWellFoundedOn(Below, Nat)
<1>1. Below = OpToRel(<, Nat)
  BY Zenon DEF Below, OpToRel
<1> QED BY Zenon, <1>1, NatLessThanWellFounded

\* A set of numbers has a least one.
LEMMA Least ==
  ASSUME NEW T, T \subseteq Nat, T # {}
  PROVE  \E x \in T : \A y \in T : x <= y
<1>1. \A a, b \in Nat : a < b => <<a, b>> \in Below
  BY DEF Below
<1>2. PICK x \in T : \A y \in T : ~(<<y, x>> \in Below)
  BY BelowWF, WFMin
<1>3. ASSUME NEW y \in T PROVE x <= y
  <2>1. x \in Nat /\ y \in Nat OBVIOUS
  <2>2. ~(y < x) BY <1>1, <1>2, <2>1
  <2> QED BY <2>1, <2>2
<1> QED BY <1>3

(***************************************************************************)
(* What a name and a value say.                                            *)
(***************************************************************************)

\* A list of rules, the last of which always applies, is settled by one that
\* applies and none before it does.
LEMMA FirstApplies ==
  ASSUME NEW n \in Nat, NEW rules, DOMAIN rules = 1..n,
         \E k \in 1..n : rules[k].when
  PROVE  \E i \in 1..n : /\ rules[i].when
                         /\ \A j \in 1..(i - 1) : ~rules[j].when
                         /\ FirstOf(rules) = rules[i].then
<1> DEFINE T == {i \in 1..n : rules[i].when}
           First(i) == rules[i].when /\ \A j \in 1..(i - 1) : ~rules[j].when
<1>1. T \subseteq Nat /\ T # {} OBVIOUS
<1>2. PICK i \in T : \A j \in T : i <= j
  <2> HIDE DEF T
  <2> QED BY <1>1, Least
<1>3. i \in 1..n /\ First(i) BY <1>2
<1>4. FirstOf(rules) = rules[CHOOSE j \in 1..n : First(j)].then
  BY DEF FirstOf
<1>5. PICK f : f = CHOOSE j \in 1..n : First(j) OBVIOUS
<1>6. f \in 1..n /\ First(f) BY <1>3, <1>5
<1> QED BY <1>4, <1>5, <1>6

FieldTypes == {"boolean", "integer", "float", "string", "multiline", "select",
               "image", "video"}
MediaTypes == {"image", "video"}

\* A text that could be shown: no path, no weights file, no address.
Harmless(x) == /\ ~LooksLikeAPath(x) /\ ~LooksLikeAWebAddress(x)
               /\ "weights" \notin LooksOf(x)

\* What a verdict says of the value it is about.
Fits(verdict, value) ==
  /\ verdict.type \in FieldTypes
  /\ verdict.type \notin MediaTypes => verdict.media = None
  /\ verdict.type \in MediaTypes => verdict.media = verdict.type
  /\ verdict.prompt => verdict.type = "multiline"
  /\ verdict.type \notin MediaTypes \cup {"select"} => Harmless(value)
  /\ verdict.type \in NumericFieldTypes => verdict.type = FieldTypeOf(value)

LEMMA VerdictFields ==
  /\ \A type, role :
       /\ Exposed(type, role).exposure = "expose" /\ Exposed(type, role).type = type
       /\ Exposed(type, role).media = None /\ Exposed(type, role).prompt = FALSE
  /\ \A name, kind :
       /\ ExposedMedia(name, kind).exposure = "expose" /\ ExposedMedia(name, kind).type = kind
       /\ ExposedMedia(name, kind).media = kind /\ ExposedMedia(name, kind).prompt = FALSE
  /\ \A name :
       /\ ExposedPrompt(name).exposure = "expose" /\ ExposedPrompt(name).type = "multiline"
       /\ ExposedPrompt(name).media = None /\ ExposedPrompt(name).prompt = TRUE
  /\ \A kind : Locked(kind).exposure = "locked" /\ Locked(kind).prompt = FALSE
  /\ Uncertain.exposure = "uncertain" /\ Uncertain.prompt = FALSE
BY DEF Exposed, ExposedMedia, ExposedPrompt, Locked, Uncertain, Verdict

LEMMA NoTextNoLooks ==
  ASSUME NEW x, x.kind # "text"
  PROVE  Harmless(x) /\ LooksOf(x) = {}
BY DEF Harmless, LooksOf, LooksLikeAPath, LooksLikeAWebAddress

LEMMA MediaKinds ==
  ASSUME NEW name, NEW value
  PROVE  MediaKind(name, value) \in MediaTypes
BY DEF MediaKind, MediaTypes
LEMMA TheRules ==
  ASSUME NEW name, NEW value, NEW rules, rules = RulesFor(name, value)
  PROVE  /\ DOMAIN rules = 1..16 /\ rules[16].when
         /\ rules[1].when <=> FieldTypeOf(value) = None
         /\ rules[2].when => value.kind = "text"
         /\ rules[4].when <=> "weights" \in LooksOf(value)
         /\ rules[6].when <=> LooksLikeAPath(value)
         /\ rules[10].when <=> LooksLikeAWebAddress(value)
         /\ rules[14].when <=> value.kind # "text"
<1>1. DOMAIN rules = 1..16 BY DEF RulesFor
<1>2. rules[16].when BY DEF RulesFor
<1>3. rules[1].when <=> FieldTypeOf(value) = None BY DEF RulesFor
<1>4. rules[2].when => value.kind = "text" BY DEF RulesFor
<1>5. rules[4].when <=> "weights" \in LooksOf(value) BY DEF RulesFor
<1>6. rules[6].when <=> LooksLikeAPath(value) BY DEF RulesFor
<1>7. rules[10].when <=> LooksLikeAWebAddress(value) BY DEF RulesFor
<1>8. rules[14].when <=> value.kind # "text" BY DEF RulesFor
<1> QED BY <1>1, <1>2, <1>3, <1>4, <1>5, <1>6, <1>7, <1>8

LEMMA WhatTheRulesSay ==
  ASSUME NEW name, NEW value, NEW rules, rules = RulesFor(name, value)
  PROVE  /\ rules[2].then = ExposedMedia(name, MediaKind(name, value))
         /\ rules[12].then = ExposedPrompt(name)
         /\ rules[14].then = Exposed(FieldTypeOf(value), SanitizeRole(name))
         /\ rules[15].then = Exposed("string", SanitizeRole(name))
         /\ \A i \in 1..16 \ {2, 12, 14, 15} :
              rules[i].then = Uncertain \/ \E kind : rules[i].then = Locked(kind)
<1>1. /\ rules[2].then = ExposedMedia(name, MediaKind(name, value))
      /\ rules[12].then = ExposedPrompt(name)
      /\ rules[14].then = Exposed(FieldTypeOf(value), SanitizeRole(name))
      /\ rules[15].then = Exposed("string", SanitizeRole(name))
  BY DEF RulesFor
<1>2. /\ \A i \in {1, 3, 13, 16} : rules[i].then = Uncertain
      /\ rules[4].then = Locked("weights_file") /\ rules[5].then = Locked("url")
      /\ rules[6].then = Locked("filesystem_path")
      /\ rules[7].then = Locked("editor_bookkeeping")
      /\ rules[8].then = Locked("machine_setting")
      /\ rules[9].then = Locked("file_reference")
      /\ rules[10].then = Locked("url")
      /\ rules[11].then = Locked("model_architecture")
  BY DEF RulesFor
<1> QED BY <1>1, <1>2

Settles(i, rules, verdict) ==
  rules[i].when /\ (\A j \in 1..(i - 1) : ~rules[j].when) /\ verdict = rules[i].then

LEMMA OneRule ==
  ASSUME NEW name, NEW value
  PROVE  \E i \in 1..16 : Settles(i, RulesFor(name, value), Classify(name, value))
<1> DEFINE rules == RulesFor(name, value)
<1>1. DOMAIN rules = 1..16 /\ rules[16].when BY TheRules
<1>2. Classify(name, value) = FirstOf(rules) BY DEF Classify
<1> HIDE DEF rules
<1>3. \E k \in 1..16 : rules[k].when BY <1>1
<1>4. 16 \in Nat OBVIOUS
<1>5. \E i \in 1..16 : /\ rules[i].when
                       /\ \A j \in 1..(i - 1) : ~rules[j].when
                       /\ FirstOf(rules) = rules[i].then
  BY Zenon, <1>1, <1>3, <1>4, FirstApplies
<1> QED BY Zenon, <1>2, <1>5 DEF rules, Settles

\* What a name and a value alone expose, they describe.
LEMMA ExposedFits ==
  ASSUME NEW name, NEW value, Classify(name, value).exposure = "expose"
  PROVE  /\ Fits(Classify(name, value), value)
         /\ Classify(name, value).type # "select"
<1> DEFINE rules == RulesFor(name, value)
           verdict == Classify(name, value)
<1>0. PICK i \in 1..16 : Settles(i, rules, verdict)
  BY OneRule
<1>1. /\ rules[i].when
      /\ \A j \in 1..(i - 1) : ~rules[j].when
      /\ verdict = rules[i].then
  BY <1>0 DEF Settles
<1>2. i \in {2, 12, 14, 15}
  BY <1>1, WhatTheRulesSay, VerdictFields
<1>3. CASE i = 2
  BY <1>1, <1>3, WhatTheRulesSay, VerdictFields, MediaKinds
     DEF Fits, FieldTypes, MediaTypes, NumericFieldTypes
<1>4. CASE i # 2
  <2>1. Harmless(value)
    <3>1. CASE i = 14 BY <1>1, <3>1, TheRules, NoTextNoLooks
    <3>2. CASE i \in {12, 15}
      <4>1. \A j \in {4, 6, 10} : ~rules[j].when BY <1>1, <3>2
      <4> QED BY <4>1, TheRules DEF Harmless
    <3> QED BY <1>2, <1>4, <3>1, <3>2
  <2>2. CASE i = 14
    <3>1. FieldTypeOf(value) # None /\ value.kind # "text"
      BY <1>1, <2>2, TheRules
    <3>2. FieldTypeOf(value) \in {"boolean", "integer", "float"}
      BY <3>1 DEF FieldTypeOf
    <3> QED BY <1>1, <2>1, <2>2, <3>2, WhatTheRulesSay, VerdictFields
            DEF Fits, FieldTypes, MediaTypes, NumericFieldTypes
  <2>3. CASE i \in {12, 15}
    BY <1>1, <2>1, <2>3, WhatTheRulesSay, VerdictFields
       DEF Fits, FieldTypes, MediaTypes, NumericFieldTypes
  <2> QED BY <1>2, <1>4, <2>2, <2>3
<1> QED BY <1>2, <1>3, <1>4
LEMMA PromptsAreHarmless ==
  ASSUME NEW name, NEW value, Classify(name, value).prompt
  PROVE  Harmless(value)
<1> DEFINE rules == RulesFor(name, value)
<1>0. PICK i \in 1..16 : Settles(i, rules, Classify(name, value))
  BY OneRule
<1>1. Classify(name, value) = rules[i].then
  BY <1>0 DEF Settles
<1>2. Classify(name, value).exposure = "expose"
  BY <1>1, WhatTheRulesSay, VerdictFields
<1>3. Fits(Classify(name, value), value) /\ Classify(name, value).type # "select"
  BY <1>2, ExposedFits
<1> QED BY <1>3 DEF Fits, MediaTypes

(***************************************************************************)
(* What the runtime adds.                                                  *)
(***************************************************************************)

LEMMA ShapesAreOfTheClass ==
  ASSUME NEW declared, NEW class, NEW name, NEW inputs,
         ShapesFor(ChosenShapeContract(declared, class, name, inputs), class, name) = None
  PROVE  ShapesFor(declared, class, name) = None
<1>1. CASE Declares(declared, class, name)
  BY <1>1 DEF ChosenShapeContract
<1>2. CASE ~Declares(declared, class, name)
  BY <1>2 DEF Declares, ShapesFor, For
<1> QED BY <1>1, <1>2

LEMMA ListedFits ==
  ASSUME NEW options, NEW class, NEW name, NEW value, NEW judged,
         judged = AskTheRuntime(options, class, name, value),
         judged.verdict.exposure = "expose"
  PROVE  /\ Fits(judged.verdict, value)
         /\ judged.verdict.type = "select" /\ ~LooksLikeAPath(value)
         /\ ToSet(class) \cap LoadingClassWords = {}
         /\ judged.options = options /\ ~NamesFiles(options)
<1>1. /\ ~NamesFiles(options)
      /\ \E i \in DOMAIN options : PythonEqual(value, options[i])
      /\ ToSet(class) \cap LoadingClassWords = {}
      /\ judged.verdict = Exposed("select", SanitizeRole(name))
      /\ judged.options = options
  BY VerdictFields DEF AskTheRuntime, Plain
<1>2. ~LooksLikeAPath(value)
  <2>1. PICK i \in DOMAIN options : PythonEqual(value, options[i]) BY <1>1
  <2>2. ~LooksLikeAPath(options[i]) BY <1>1 DEF NamesFiles
  <2>3. value = options[i] \/ value.kind # "text" BY <2>1 DEF PythonEqual
  <2> QED BY <2>2, <2>3, NoTextNoLooks DEF Harmless
<1> QED BY <1>1, <1>2, VerdictFields DEF Fits, FieldTypes, MediaTypes, NumericFieldTypes

LEMMA UnlistedFits ==
  ASSUME NEW g, NEW asked, NEW node, NEW name, NEW value,
         WithoutAList(g, asked, node, name, value).exposure = "expose"
  PROVE  /\ Fits(WithoutAList(g, asked, node, name, value), value)
         /\ WithoutAList(g, asked, node, name, value).type = "multiline"
<1> DEFINE rules == RulesWithoutAList(g, asked, node, name, value)
           verdict == WithoutAList(g, asked, node, name, value)
<1>1. DOMAIN rules = 1..5 BY DEF RulesWithoutAList
<1>2. rules[5].when BY DEF RulesWithoutAList
<1>3. rules[3].when <=> WiredPrompt(g, node, name, value) BY DEF RulesWithoutAList
<1>4. /\ rules[1].then = Locked("computation") /\ rules[2].then = Locked("model_patch")
      /\ rules[3].then = ExposedPrompt(name)
      /\ rules[4].then = Locked("declared_default") /\ rules[5].then = Uncertain
  BY DEF RulesWithoutAList
<1>5. \E i \in 1..5 : rules[i].when /\ verdict = rules[i].then
  <2> HIDE DEF rules
  <2>1. 5 \in Nat /\ \E k \in 1..5 : rules[k].when BY <1>2
  <2>2. verdict = FirstOf(rules) BY DEF WithoutAList, rules
  <2>3. \E i \in 1..5 : rules[i].when /\ FirstOf(rules) = rules[i].then
    BY Zenon, <1>1, <2>1, FirstApplies
  <2> QED BY Zenon, <2>2, <2>3
<1>6. rules[3].when /\ verdict = ExposedPrompt(name)
  BY <1>4, <1>5, VerdictFields
<1>7. Harmless(value)
  BY <1>3, <1>6, PromptsAreHarmless DEF WiredPrompt
<1> QED BY <1>6, <1>7, VerdictFields DEF Fits, FieldTypes, MediaTypes, NumericFieldTypes

\* What is exposed at last: by name and value, by the runtime's list, or by
\* the wiring.
LEMMA JudgedFits ==
  ASSUME NEW g, NEW declared, NEW node, NEW name, NEW judged,
         judged = Judged(g, declared, node, name),
         judged.verdict.exposure = "expose"
  PROVE  LET value == Inputs(g, node)[name]
             class == Class(g, node)
         IN  /\ Fits(judged.verdict, value)
             /\ judged.verdict.type = "select" =>
                  ~LooksLikeAPath(value) /\ ToSet(class) \cap LoadingClassWords = {}
             /\ judged.options # << >> => judged.verdict.type = "select"
             /\ ~NamesFiles(judged.options)
             /\ ShapesFor(declared, class, name) = None
<1> DEFINE value == Inputs(g, node)[name]
           class == Class(g, node)
           asked == ChosenShapeContract(declared, class, name, Inputs(g, node))
           shaped == StructuralChoice(ShapesFor(asked, class, name), value)
           named == Classify(name, value)
           options == OptionsFor(asked, class, name)
<1>1. judged = Settled(g, asked, node, name, value, shaped, named, options)
  BY DEF Judged, JudgedUnder
<1>2. ~NamesFiles(<< >>) BY DEF NamesFiles
<1>3. shaped # None => shaped.exposure # "expose"
  BY VerdictFields DEF StructuralChoice
<1>4. shaped = None => ShapesFor(asked, class, name) = None
  BY NoneAssumption DEF StructuralChoice
<1>5. shaped = None /\ ShapesFor(declared, class, name) = None
  <2> HIDE DEF shaped, named, value, options, asked
  <2>1. shaped = None BY <1>1, <1>3 DEF Settled, Plain
  <2> QED BY <2>1, <1>4, ShapesAreOfTheClass DEF asked
<1> HIDE DEF shaped, asked, options
<1>6. CASE named.exposure # "uncertain"
  <2>1. judged = Plain(named) BY <1>1, <1>5, <1>6 DEF Settled
  <2> QED BY <1>2, <1>5, <2>1, ExposedFits DEF Plain
<1>7. CASE named.exposure = "uncertain" /\ options # None
  <2>1. judged = AskTheRuntime(options, class, name, value)
    BY <1>1, <1>5, <1>7 DEF Settled
  <2> QED BY <1>5, <2>1, ListedFits
<1>8. CASE named.exposure = "uncertain" /\ options = None
  <2>1. judged = Plain(WithoutAList(g, asked, node, name, value))
    BY <1>1, <1>5, <1>8 DEF Settled
  <2> QED BY <1>2, <1>5, <2>1, UnlistedFits DEF Plain
<1> QED BY <1>6, <1>7, <1>8
(***************************************************************************)
(* The wiring.                                                             *)
(***************************************************************************)

LEMMA TabledIsIt ==
  ASSUME NEW f
  PROVE  Tabled(f) = f
BY DEF Tabled

LEMMA ReachedAtFirst ==
  ASSUME NEW g, NEW node
  PROVE  Reached(g, node, 0) = {node}
<1> DEFINE Wider(S) == S \cup {c.node : c \in UNION {Consumers(g, n) : n \in S}}
           Next0(h) == [i \in 0..0 |-> IF i = 0 THEN {node} ELSE Wider(h[i - 1])]
           nth == CHOOSE h : h = Next0(h)
<1>1. Reached(g, node, 0) = nth[0]
  BY DEF Reached, Iterate
<1> HIDE DEF Wider
<1>2. \E h : h = Next0(h)
  <2> DEFINE h == [i \in 0..0 |-> {node}]
  <2>1. h = Next0(h) OBVIOUS
  <2> HIDE DEF h, Next0
  <2> QED BY <2>1
<1>3. nth = Next0(nth)
  <2> HIDE DEF Next0
  <2> QED BY Zenon, <1>2
<1> HIDE DEF nth
<1> QED BY <1>1, <1>3

\* A node's own consumers are one wire away from it.
LEMMA ConsumersAreLabelled ==
  ASSUME NEW g, IsFiniteSet(DOMAIN g), NEW node, NEW c \in Consumers(g, node)
  PROVE  /\ c.name \in DOMAIN DownstreamLabels(g, node)
         /\ DownstreamLabels(g, node)[c.name] = 1
<1> DEFINE N == Cardinality(DOMAIN g)
           Names(n) == {d.name : d \in Consumers(g, n)}
           within == Tabled([d \in 0..N |-> Reached(g, node, d)])
           At(d) == UNION {Names(n) : n \in within[d - 1]}
           First(name, d) == name \in At(d) /\ \A e \in 1..(d - 1) : name \notin At(e)
           labels == [name \in UNION {At(d) : d \in 1..N} |->
                        CHOOSE d \in 1..N : First(name, d)]
<1>1. N \in Nat /\ 1 \in 1..N
  <2>1. DOMAIN g # {} BY DEF Consumers
  <2> QED BY <2>1, FS_CardinalityType, FS_EmptySet
<1>2. DownstreamLabels(g, node) = labels
  BY TabledIsIt DEF DownstreamLabels
<1>3. At(1) = Names(node)
  <2>1. within[0] = {node} BY <1>1, TabledIsIt, ReachedAtFirst
  <2>2. 1 - 1 = 0 OBVIOUS
  <2> HIDE DEF Names, within
  <2>3. At(1) = UNION {Names(n) : n \in {node}} BY <2>1, <2>2
  <2> QED BY <2>3
<1>4. c.name \in At(1) BY <1>3
<1> HIDE DEF At, N
<1>5. First(c.name, 1) BY <1>4
<1>6. \A d \in 1..N : First(c.name, d) => d = 1 BY <1>1, <1>4
<1>7. c.name \in DOMAIN labels BY <1>1, <1>4
<1>8. (CHOOSE d \in 1..N : First(c.name, d)) = 1
  <2> HIDE DEF First
  <2> QED BY <1>1, <1>5, <1>6
<1>9. labels[c.name] = 1
  <2> HIDE DEF First
  <2> QED BY <1>7, <1>8
<1> HIDE DEF labels
<1> QED BY <1>2, <1>7, <1>9

(***************************************************************************)
(* The candidates and their groups.                                        *)
(***************************************************************************)

JudgementOf(c) == Judged(graph, contract, c.node, c.input)
LabelsOf(c) == DownstreamLabels(graph, c.node)

\* A candidate is all that its target's judgement makes of it.
IsACandidate(c) ==
  /\ Target(c) \in LiteralInputs(graph)
  /\ Offered(JudgementOf(c), LabelsOf(c))
  /\ c = Candidate(Target(c), JudgementOf(c), LabelsOf(c))

Dimensions == {RoleOf(g) : g \in ControlGroups(candidates)} \cap DimensionNames

\* A field is what its group of candidates makes of it.
IsTheFieldOf(field, group) ==
  field = Field(group, field.id.mark, Dimensions, DeclaredFrameRate(graph))

CandidatesAreJudged == IsFiniteSet(candidates) /\ \A c \in candidates : IsACandidate(c)

FieldsAreOfGroups ==
  Done => \A f \in plan.fields : \E g \in ControlGroups(candidates) : IsTheFieldOf(f.draft, g)

AllIsReadFirst == todo \subseteq LiteralInputs(graph) /\ (Done => todo = {})

IInv == IsGraph(graph) /\ AllIsReadFirst /\ CandidatesAreJudged /\ FieldsAreOfGroups

(***************************************************************************)
(* The invariant.                                                          *)
(***************************************************************************)

LEMMA RenumberedGraphs ==
  ASSUME NEW g, IsGraph(g), NEW n \in DOMAIN g, NEW m \in DOMAIN g
  PROVE  IsGraph(Renumbered(g, n, m))
<1> DEFINE Wired(value) ==
             IF value.kind = "wire" THEN [value EXCEPT !.v.node = Swapped(n, m, value.v.node)]
             ELSE value
           Image(node) == [node EXCEPT !.in = [name \in DOMAIN node.in |-> Wired(node.in[name])]]
           r == Renumbered(g, n, m)
<1>1. r = [node \in DOMAIN g |-> Image(g[Swapped(n, m, node)])]
  BY DEF Renumbered
<1>2. \A x : IsValue(x) => IsValue(Wired(x))
  BY DEF IsValue
<1> HIDE DEF Wired
<1>3. \A x : IsNode(x) => IsNode(Image(x))
  <2> TAKE x
  <2> HAVE IsNode(x)
  <2>1. x = [class |-> x.class, title |-> x.title, in |-> x.in]
    BY DEF IsNode
  <2>2. Image(x) = [class |-> x.class, title |-> x.title,
                    in |-> [name \in DOMAIN x.in |-> Wired(x.in[name])]]
    BY <2>1
  <2> QED BY <1>2, <2>2 DEF IsNode
<1> HIDE DEF Image, r
<1>4. \A node \in DOMAIN g : Swapped(n, m, node) \in DOMAIN g
  BY DEF Swapped
<1>5. DOMAIN r = DOMAIN g /\ \A node \in DOMAIN g : r[node] = Image(g[Swapped(n, m, node)])
  BY <1>1
<1>6. \A node \in DOMAIN g : IsNode(r[node])
  BY <1>3, <1>4, <1>5 DEF IsGraph
<1> QED BY <1>5, <1>6 DEF IsGraph, r

LEMMA RespelledGraphs ==
  ASSUME NEW g, IsGraph(g), NEW n \in DOMAIN g, NEW name \in DOMAIN Inputs(g, n),
         Inputs(g, n)[name].kind \in {"int", "float"}
  PROVE  IsGraph([g EXCEPT ![n].in[name] = Respelled(@)])
<1> DEFINE x == g[n].in[name]
           node == g[n]
           in2 == [g[n].in EXCEPT ![name] = Respelled(@)]
           r == [g EXCEPT ![n].in[name] = Respelled(@)]
<1>1. IsNode(node) /\ IsValue(x) /\ x.kind \in {"int", "float"}
  BY DEF IsGraph, IsNode, Inputs
<1>2. IsValue(Respelled(x))
  BY <1>1 DEF IsValue, Respelled
<1>3. r[n] = [node EXCEPT !.in = in2] /\ DOMAIN r = DOMAIN g
  OBVIOUS
<1>4. \A k \in DOMAIN g : k # n => r[k] = g[k]
  OBVIOUS
<1>5. r[n] = [class |-> node.class, title |-> node.title, in |-> in2]
  BY <1>1, <1>3 DEF IsNode
<1>6. DOMAIN in2 = DOMAIN node.in /\ \A other \in DOMAIN node.in :
        in2[other] = IF other = name THEN Respelled(x) ELSE node.in[other]
  BY DEF Inputs
<1> HIDE DEF r, in2, x
<1>7. IsNode(r[n])
  BY <1>1, <1>2, <1>5, <1>6 DEF IsNode
<1>8. \A k \in DOMAIN g : IsNode(r[k])
  BY <1>4, <1>7 DEF IsGraph
<1> QED BY <1>3, <1>8 DEF IsGraph, r

\* The fields of a plan are the fields of its groups.
LEMMA PlannedFields ==
  ASSUME NEW f \in FieldsFrom(graph, candidates).fields
  PROVE  \E g \in ControlGroups(candidates) : IsTheFieldOf(f.draft, g)
<1> DEFINE depths == Depths(graph, ControlGroups(candidates))
           kept == DOMAIN depths \ Rejected(depths)
           dimensions == {RoleOf(g) : g \in DOMAIN depths} \cap DimensionNames
           MarkOf(g) == IF depths[g] = 0 THEN {} ELSE GroupMark(graph, g, depths[g])
           drafts == DraftsOf(graph, depths, kept)
<1>1. DOMAIN depths = ControlGroups(candidates)
  BY TabledIsIt DEF Depths
<1>2. drafts = [g \in kept |-> Field(g, MarkOf(g), dimensions, DeclaredFrameRate(graph))]
  BY TabledIsIt DEF DraftsOf
<1>3. FieldsFrom(graph, candidates).fields = Named(graph, depths, drafts)
  BY DEF FieldsFrom, FieldsAt
<1> HIDE DEF depths, drafts, MarkOf
<1>4. \E g \in DOMAIN drafts : f.draft = drafts[g]
  <2>1. PICK labels : Named(graph, depths, drafts)
                        = {[draft |-> drafts[g], label |-> labels[g]] : g \in DOMAIN drafts}
    BY Zenon DEF Named
  <2> QED BY <1>3, <2>1
<1>5. PICK g \in kept : f.draft = Field(g, MarkOf(g), dimensions, DeclaredFrameRate(graph))
  BY <1>2, <1>4
<1>6. f.draft.id.mark = MarkOf(g)
  BY <1>5 DEF Field
<1>7. dimensions = Dimensions BY <1>1 DEF Dimensions
<1>8. f.draft = Field(g, f.draft.id.mark, Dimensions, DeclaredFrameRate(graph))
  BY <1>5, <1>6, <1>7
<1> QED BY <1>1, <1>5, <1>8 DEF IsTheFieldOf

LEMMA ReadingOn ==
  ASSUME UNCHANGED <<graph, contract>>, NEW c, IsACandidate(c)
  PROVE  IsACandidate(c)'
BY DEF IsACandidate, JudgementOf, LabelsOf, Candidate

LEMMA ConsiderKeepsIInv ==
  ASSUME IInv, Consider
  PROVE  IInv'
<1>1. PICK t \in todo : Decided(t, Judged(graph, contract, t.node, t.input),
                                DownstreamLabels(graph, t.node))
  BY DEF Consider
<1> DEFINE judged == Judged(graph, contract, t.node, t.input)
           labels == DownstreamLabels(graph, t.node)
<1>2. /\ UNCHANGED <<graph, contract, plan>> /\ todo' = todo \ {t}
      /\ \/ candidates' = candidates
         \/ Offered(judged, labels) /\ candidates' = candidates \cup {Candidate(t, judged, labels)}
  BY <1>1 DEF Decided, Lock, Hold, SetAside, HasNoRole, Admit, Decide
<1>3. ~Done /\ ~Done' BY <1>2 DEF IInv, AllIsReadFirst, Done
<1>4. IsGraph(graph)' BY <1>2 DEF IInv
<1>5. AllIsReadFirst' BY <1>2, <1>3 DEF IInv, AllIsReadFirst
<1>6. Offered(judged, labels) => IsACandidate(Candidate(t, judged, labels))
  <2> DEFINE c == Candidate(t, judged, labels)
  <2>1. t \in LiteralInputs(graph) BY DEF IInv, AllIsReadFirst
  <2>2. t = [node |-> t.node, input |-> t.input] BY <2>1 DEF LiteralInputs
  <2>3. c.node = t.node /\ c.input = t.input BY DEF Candidate
  <2>4. Target(c) = t BY <2>2, <2>3 DEF Target
  <2> QED BY <2>1, <2>3, <2>4 DEF IsACandidate, JudgementOf, LabelsOf
<1>7. CandidatesAreJudged'
  <2>1. \A c \in candidates' : IsACandidate(c)
    BY <1>2, <1>6 DEF IInv, CandidatesAreJudged
  <2>2. IsFiniteSet(candidates')
    BY <1>2, FS_AddElement DEF IInv, CandidatesAreJudged
  <2> QED BY <1>2, <2>1, <2>2, ReadingOn DEF CandidatesAreJudged
<1>8. FieldsAreOfGroups' BY <1>3 DEF FieldsAreOfGroups
<1> QED BY <1>4, <1>5, <1>7, <1>8 DEF IInv

LEMMA ConcludeKeepsIInv ==
  ASSUME IInv, Conclude
  PROVE  IInv'
<1>1. UNCHANGED <<graph, contract, todo, candidates>> /\ todo = {}
  BY DEF Conclude
<1>2. IsGraph(graph)' BY <1>1 DEF IInv
<1>3. AllIsReadFirst' BY <1>1 DEF IInv, AllIsReadFirst
<1>4. CandidatesAreJudged'
  BY <1>1, ReadingOn DEF IInv, CandidatesAreJudged
<1>5. \A f \in plan'.fields : f \in FieldsFrom(graph, candidates).fields
  BY DEF Conclude, Planned
<1>6. \A f \in plan'.fields : \E g \in ControlGroups(candidates) : IsTheFieldOf(f.draft, g)
  BY <1>5, PlannedFields
<1>7. FieldsAreOfGroups'
  BY <1>1, <1>6 DEF FieldsAreOfGroups, IsTheFieldOf, Dimensions
<1> QED BY <1>2, <1>3, <1>4, <1>7 DEF IInv

LEMMA RereadKeepsIInv ==
  ASSUME NEW g, IsGraph(g), NEW how, Reread(g, how)
  PROVE  IInv'
<1>1. ~Done' BY DEF Reread, Unread, Done
<1> QED BY <1>1, FS_EmptySet DEF Reread, IInv, AllIsReadFirst, CandidatesAreJudged, FieldsAreOfGroups

LEMMA InitIsInv ==
  ASSUME Init
  PROVE  IInv
<1>1. ~Done BY DEF Init, Unread, Done
<1> QED BY <1>1, GraphsAssumption, FS_EmptySet
        DEF Init, IInv, AllIsReadFirst, CandidatesAreJudged, FieldsAreOfGroups

LEMMA StepsKeepIInv ==
  ASSUME IInv, [Next]_vars
  PROVE  IInv'
<1>1. CASE Consider BY <1>1, ConsiderKeepsIInv
<1>2. CASE Conclude BY <1>2, ConcludeKeepsIInv
<1>3. CASE \E n, m \in DOMAIN graph : Renumber(n, m)
  <2>1. PICK n \in DOMAIN graph, m \in DOMAIN graph : Renumber(n, m)
    BY <1>3
  <2>2. IsGraph(Renumbered(graph, n, m)) BY RenumberedGraphs DEF IInv
  <2> QED BY <2>1, <2>2, RereadKeepsIInv DEF Renumber
<1>4. CASE \E n \in DOMAIN graph : \E name \in DOMAIN Inputs(graph, n) : Respell(n, name)
  <2>1. PICK n \in DOMAIN graph : \E name \in DOMAIN Inputs(graph, n) : Respell(n, name)
    BY <1>4
  <2>2. PICK name \in DOMAIN Inputs(graph, n) : Respell(n, name)
    BY <2>1
  <2> DEFINE again == [graph EXCEPT ![n].in[name] = Respelled(@)]
  <2>3. IsGraph(again) BY <2>2, RespelledGraphs DEF IInv, Respell
  <2>4. Reread(again, [kind |-> "respelled", node |-> n, input |-> name])
    BY <2>2 DEF Respell
  <2> HIDE DEF again
  <2> QED BY <2>3, <2>4, RereadKeepsIInv
<1>5. CASE UNCHANGED vars
  <2>1. UNCHANGED <<graph, contract, todo, candidates, plan>> BY <1>5 DEF vars
  <2>2. CandidatesAreJudged'
    BY <2>1, ReadingOn DEF IInv, CandidatesAreJudged
  <2>3. FieldsAreOfGroups'
    BY <2>1 DEF IInv, FieldsAreOfGroups, IsTheFieldOf, Dimensions, Done
  <2> QED BY <2>1, <2>2, <2>3 DEF IInv, AllIsReadFirst, Done
<1> QED BY <1>1, <1>2, <1>3, <1>4, <1>5 DEF Next

\* The reading is one of the graph it is of, throughout.
THEOREM ReadingIsOfTheGraph == Spec => []IInv
BY InitIsInv, StepsKeepIInv, PTL DEF Spec

(***************************************************************************)
(* What a group of candidates has in common.                               *)
(***************************************************************************)

LEMMA Places ==
  ASSUME NEW name \in ToSet(Alphabet)
  PROVE  Place(name) \in Nat /\ Alphabet[Place(name)] = name
BY AlphabetAssumption DEF Place, ToSet

LEMMA FirstIsAMember ==
  ASSUME NEW group, group # {},
         \A c \in group : c.node \in Nat /\ c.input \in ToSet(Alphabet),
         \A c, d \in group : Target(c) = Target(d) => c = d
  PROVE  FirstMember(group) \in group
<1> DEFINE Spelling(c) == IF c.value.kind = "float" THEN 1 ELSE 0
<1>1. PICK a \in group : \A d \in group : a.node <= d.node
  <2> DEFINE T == {c.node : c \in group}
  <2>1. T \subseteq Nat /\ T # {} OBVIOUS
  <2> HIDE DEF T
  <2>2. PICK n \in T : \A y \in T : n <= y BY <2>1, Least
  <2> QED BY <2>2 DEF T
<1>2. PICK b \in group : /\ b.node = a.node
                         /\ \A d \in group : d.node = a.node => Spelling(b) <= Spelling(d)
  <2> DEFINE T == {Spelling(c) : c \in {c \in group : c.node = a.node}}
  <2>1. T \subseteq Nat /\ T # {} OBVIOUS
  <2> HIDE DEF T, Spelling
  <2>2. PICK n \in T : \A y \in T : n <= y BY <2>1, Least
  <2> QED BY <2>2 DEF T
<1>3. PICK c \in group : /\ c.node = a.node /\ Spelling(c) = Spelling(b)
                         /\ \A d \in group : d.node = a.node /\ Spelling(d) = Spelling(b)
                                               => Place(c.input) <= Place(d.input)
  <2> DEFINE S == {d \in group : d.node = a.node /\ Spelling(d) = Spelling(b)}
             T == {Place(d.input) : d \in S}
  <2>1. T \subseteq Nat /\ T # {} BY <1>2, Places
  <2> HIDE DEF T, Spelling
  <2>2. PICK n \in T : \A y \in T : n <= y BY <2>1, Least
  <2> QED BY <2>2 DEF T
<1>4. ASSUME NEW d \in group \ {c} PROVE Earlier(c, d)
  <2>1. CASE d.node # a.node BY <1>1, <1>3, <2>1 DEF Earlier
  <2>2. CASE d.node = a.node /\ Spelling(d) # Spelling(b)
    BY <1>2, <1>3, <2>2 DEF Earlier
  <2>3. CASE d.node = a.node /\ Spelling(d) = Spelling(b)
    <3>1. c.input # d.input BY <1>3, <2>3 DEF Target
    <3>2. Place(c.input) # Place(d.input) BY <3>1, Places
    <3>3. Place(c.input) < Place(d.input) BY <1>3, <2>3, <3>2, Places
    <3> QED BY <1>3, <2>3, <3>3 DEF Earlier
  <2> QED BY <2>1, <2>2, <2>3
<1> QED BY <1>4 DEF FirstMember

LEMMA ACandidate ==
  ASSUME IInv, NEW c \in candidates
  PROVE  /\ c.node \in DOMAIN graph /\ c.input \in DOMAIN Inputs(graph, c.node)
         /\ c.node \in Nat /\ c.input \in ToSet(Alphabet)
         /\ c.value = Inputs(graph, c.node)[c.input] /\ IsValue(c.value)
         /\ c.class = Class(graph, c.node)
         /\ c.verdict = JudgementOf(c).verdict /\ c.options = JudgementOf(c).options
         /\ c.numeric = DeclaredNumber(contract, c.class, c.input, Inputs(graph, c.node), c.verdict)
         /\ c.verdict.exposure = "expose"
         /\ c.verdict.media # None => ~IsTechnicalMedia(c.verdict, LabelsOf(c))
<1>1. IsACandidate(c) BY DEF IInv, CandidatesAreJudged
<1>2. c.node \in DOMAIN graph /\ c.input \in DOMAIN Inputs(graph, c.node)
  BY <1>1 DEF IsACandidate, LiteralInputs, Target
<1>3. c = Candidate(Target(c), JudgementOf(c), LabelsOf(c)) BY <1>1 DEF IsACandidate
<1>4. /\ c.value = Inputs(graph, c.node)[c.input]
      /\ c.class = Class(graph, c.node)
      /\ c.verdict = JudgementOf(c).verdict /\ c.options = JudgementOf(c).options
  BY <1>3 DEF Candidate, Target
<1>5. c.numeric = DeclaredNumber(contract, c.class, c.input, Inputs(graph, c.node), c.verdict)
  BY <1>3 DEF Candidate, Target
<1>6. /\ c.node \in Nat /\ c.input \in ToSet(Alphabet) /\ IsValue(c.value)
  BY <1>2, <1>4 DEF IInv, IsGraph, IsNode, Inputs
<1>7. Offered(JudgementOf(c), LabelsOf(c)) BY <1>1 DEF IsACandidate
<1> QED BY <1>2, <1>4, <1>5, <1>6, <1>7 DEF Offered

\* One input makes one candidate.
LEMMA OneCandidateEach ==
  ASSUME IInv, NEW c \in candidates, NEW d \in candidates, Target(c) = Target(d)
  PROVE  c = d
<1>1. IsACandidate(c) /\ IsACandidate(d) BY DEF IInv, CandidatesAreJudged
<1>2. c.node = d.node /\ c.input = d.input BY DEF Target
<1> QED BY <1>1, <1>2 DEF IsACandidate, JudgementOf, LabelsOf

LEMMA KeysTell ==
  ASSUME NEW c, NEW d, Key(c) = Key(d)
  PROVE  /\ c.role = d.role /\ c.verdict.type = d.verdict.type /\ c.value = d.value
         /\ IsNumber(c) = IsNumber(d)
BY DEF Key, IsNumber

LEMMA KeyGroupsOf ==
  ASSUME NEW all, NEW k \in KeyGroups(all)
  PROVE  k \subseteq all /\ k # {} /\ \A c, d \in k : Key(c) = Key(d)
BY DEF KeyGroups

\* What stands together for a group stands for all its members.
LEMMA JoinsTells ==
  ASSUME NEW all, NEW h \in KeyGroups(all), NEW k \in KeyGroups(all), Joins(h, k)
  PROVE  /\ \A c \in h \cup k : IsNumber(c)
         /\ \A c, d \in h \cup k : c.role = d.role
<1> DEFINE c0 == CHOOSE c \in h : TRUE
           d0 == CHOOSE d \in k : TRUE
<1>1. c0 \in h /\ d0 \in k BY KeyGroupsOf
<1>2. IsNumber(c0) /\ IsNumber(d0) /\ c0.role = d0.role BY DEF Joins
<1> HIDE DEF c0, d0
<1>3. \A c \in h : Key(c) = Key(c0) BY <1>1, KeyGroupsOf
<1>4. \A c \in k : Key(c) = Key(d0) BY <1>1, KeyGroupsOf
<1> QED BY <1>2, <1>3, <1>4, KeysTell

LEMMA GroupsOfCandidates ==
  ASSUME NEW all, NEW g \in ControlGroups(all)
  PROVE  /\ g \subseteq all /\ g # {}
         /\ \A c, d \in g : c.role = d.role
         /\ \A c, d \in g : Key(c) = Key(d) \/ (IsNumber(c) /\ IsNumber(d))
<1>1. PICK k \in KeyGroups(all) : g = k \cup UNION {h \in KeyGroups(all) : Joins(k, h)}
  BY DEF ControlGroups, OneNumberHoweverWritten
<1>2. g \subseteq all /\ g # {}
  BY <1>1, KeyGroupsOf
<1>3. CASE \A h \in KeyGroups(all) : ~Joins(k, h)
  <2>1. g = k BY <1>1, <1>3
  <2> QED BY <1>2, <2>1, KeyGroupsOf, KeysTell
<1>4. CASE \E h \in KeyGroups(all) : Joins(k, h)
  <2>1. \A c \in g : \E h \in KeyGroups(all) : Joins(k, h) /\ c \in k \cup h
    BY <1>1, <1>4
  <2>2. \A c \in g : IsNumber(c) BY <2>1, JoinsTells
  <2>3. PICK c0 : c0 \in k BY KeyGroupsOf
  <2>4. \A c \in g : c.role = c0.role BY <2>1, <2>3, JoinsTells
  <2> QED BY <1>2, <2>2, <2>4
<1> QED BY <1>3, <1>4

LEMMA FirstOfAGroup ==
  ASSUME IInv, NEW g \in ControlGroups(candidates)
  PROVE  FirstMember(g) \in g
<1>1. g \subseteq candidates /\ g # {} BY GroupsOfCandidates
<1>2. \A c \in g : c.node \in Nat /\ c.input \in ToSet(Alphabet) BY <1>1, ACandidate
<1>3. \A c, d \in g : Target(c) = Target(d) => c = d BY <1>1, OneCandidateEach
<1> QED BY <1>1, <1>2, <1>3, FirstIsAMember


LEMMA OneIsFound ==
  ASSUME NEW answers, DOMAIN answers \subseteq Nat, FirstFound(answers) # None
  PROVE  \E i \in DOMAIN answers : FirstFound(answers) = answers[i]
<1> DEFINE found == {i \in DOMAIN answers : answers[i] # None}
<1>1. found # {} /\ found \subseteq Nat BY DEF FirstFound
<1>2. FirstFound(answers) = answers[CHOOSE i \in found : \A j \in found : i <= j]
  BY <1>1 DEF FirstFound
<1>3. \E i \in found : \A j \in found : i <= j
  <2> HIDE DEF found
  <2> QED BY <1>1, Least
<1>4. (CHOOSE i \in found : \A j \in found : i <= j) \in found
  <2> HIDE DEF found
  <2> QED BY <1>3
<1> QED BY <1>2, <1>4

LEMMA NumericReading ==
  ASSUME NEW entry, NEW name, Reading(entry, name) # None,
         Reading(entry, name).table = "numeric"
  PROVE  \E spec : /\ Reading(entry, name).found = DeclaredNumeric(spec)
                   /\ DeclaredNumeric(spec) # None
<1> DEFINE As(table, found) == IF found = None THEN None ELSE [table |-> table, found |-> found]
           Tables(spec) == << As("options", DeclaredOptions(spec)),
                              As("numeric", DeclaredNumeric(spec)),
                              As("shapes", DeclaredShapes(spec)),
                              As("string", DeclaredString(spec)) >>
           Read(spec) == FirstFound(Tables(spec))
           In(section) == IF section = None \/ name \notin DOMAIN section THEN None
                          ELSE Read(section[name])
           sections == <<In(entry.input.required), In(entry.input.optional)>>
           reading == Reading(entry, name)
<1>1. reading = FirstFound(sections) BY DEF Reading
<1> HIDE DEF Read
<1>2. \E spec : reading = Read(spec)
  <2>1. DOMAIN sections \subseteq Nat OBVIOUS
  <2>2. PICK i \in DOMAIN sections : reading = sections[i]
    <3> HIDE DEF sections
    <3> QED BY <1>1, <2>1, OneIsFound
  <2> QED BY <2>2
<1>3. PICK spec : reading = Read(spec) BY <1>2
<1>4. \E i \in 1..4 : reading = Tables(spec)[i]
  <2>1. DOMAIN Tables(spec) = 1..4 OBVIOUS
  <2> HIDE DEF Tables
  <2>2. 1..4 \subseteq Nat OBVIOUS
  <2> QED BY <1>3, <2>1, <2>2, OneIsFound DEF Read
<1>5. reading = As("numeric", DeclaredNumeric(spec))
  BY <1>4
<1> QED BY <1>5

\* What is declared of a number is a type of numbers, and bounds that are numbers.
LEMMA DeclaredNumbers ==
  ASSUME NEW declared, NEW class, NEW name, NumericFor(declared, class, name) # None
  PROVE  NumericFor(declared, class, name) \in NumericDeclarations
<1> DEFINE n == NumericFor(declared, class, name)
           reading == Reading(declared[class], name)
<1>1. reading # None /\ reading.table = "numeric" /\ n = reading.found
  BY DEF NumericFor, For
<1>2. PICK spec : n = DeclaredNumeric(spec) /\ DeclaredNumeric(spec) # None
  BY <1>1, NumericReading
<1>3. \A x : DeclaredBound(x) \in DeclaredBounds
  BY DEF DeclaredBound, DeclaredBounds
<1> QED BY <1>2, <1>3 DEF DeclaredNumeric, NumericDeclarations

LEMMA CandidatesFit ==
  ASSUME IInv, NEW c \in candidates
  PROVE  /\ Fits(c.verdict, c.value)
         /\ c.verdict.type = "select" =>
              ~LooksLikeAPath(c.value) /\ ToSet(c.class) \cap LoadingClassWords = {}
         /\ c.options # << >> => c.verdict.type = "select"
         /\ ~NamesFiles(c.options)
         /\ ShapesFor(contract, c.class, c.input) = None
<1>1. /\ c.verdict = JudgementOf(c).verdict /\ c.options = JudgementOf(c).options
      /\ c.value = Inputs(graph, c.node)[c.input] /\ c.class = Class(graph, c.node)
      /\ c.verdict.exposure = "expose"
  BY ACandidate
<1>2. JudgementOf(c) = Judged(graph, contract, c.node, c.input) BY DEF JudgementOf
<1> QED BY <1>1, <1>2, JudgedFits

LEMMA NumbersAreNumbers ==
  ASSUME IInv, NEW c \in candidates
  PROVE  /\ IsNumber(c) => /\ c.value.kind \in {"int", "float"} /\ c.value.v \in Int
                           /\ Harmless(c.value) /\ c.verdict.media = None /\ ~c.verdict.prompt
         /\ c.numeric # None => IsNumber(c) /\ c.numeric \in NumericDeclarations
<1>1. Fits(c.verdict, c.value) BY CandidatesFit
<1>2. ASSUME IsNumber(c)
      PROVE  /\ c.value.kind \in {"int", "float"} /\ c.value.v \in Int
             /\ Harmless(c.value) /\ c.verdict.media = None /\ ~c.verdict.prompt
  <2>1. c.verdict.type \in {"integer", "float"} BY <1>2 DEF IsNumber, NumericFieldTypes
  <2>2. FieldTypeOf(c.value) \in {"integer", "float"}
    BY <1>1, <2>1 DEF Fits, NumericFieldTypes
  <2>3. c.value.kind \in {"int", "float"} BY <2>2, NoneAssumption DEF FieldTypeOf
  <2>4. c.value.v \in Int BY <2>3, ACandidate DEF IsValue
  <2> QED BY <1>1, <2>1, <2>3, <2>4 DEF Fits, MediaTypes
<1>3. ASSUME c.numeric # None
      PROVE  IsNumber(c) /\ c.numeric \in NumericDeclarations
  <2>1. IsNumber(c) BY <1>3, ACandidate DEF DeclaredNumber, IsNumber
  <2>2. PICK declared : c.numeric = NumericFor(declared, c.class, c.input)
    BY <1>3, ACandidate DEF DeclaredNumber
  <2> QED BY <1>3, <2>1, <2>2, DeclaredNumbers
<1> QED BY <1>2, <1>3

FieldOf(f, g) == \E mark, dimensions, rate : f = Field(g, mark, dimensions, rate)

LEMMA PartsOfAField ==
  ASSUME NEW g, NEW f, FieldOf(f, g)
  PROVE  LET first == FirstMember(g)
             declared == ResolvedDeclaration(g)
             spellings == {c.value.kind : c \in g}
         IN  /\ f.targets = {Target(c) : c \in g} /\ f.options = first.options
             /\ f.id.role = first.role
             /\ f.section \in {"main", "advanced"}
             /\ f.type = IF declared # None THEN declared.type
                         ELSE IF Cardinality(spellings) > 1 THEN "float" ELSE first.verdict.type
BY DEF FieldOf, Field

LEMMA SpellingsOfAGroup ==
  ASSUME NEW g, NEW c \in g, \A d \in g : d.value.kind = c.value.kind
  PROVE  Cardinality({d.value.kind : d \in g}) = 1
<1>1. {d.value.kind : d \in g} = {c.value.kind} OBVIOUS
<1> QED BY <1>1, FS_Singleton

\* A field has the type of each of its members, or they are all numbers.
LEMMA TypeOfAField ==
  ASSUME IInv, NEW g \in ControlGroups(candidates), NEW f, FieldOf(f, g), NEW c \in g
  PROVE  f.type = c.verdict.type \/ (IsNumber(c) /\ f.type \in NumericFieldTypes)
<1> DEFINE first == FirstMember(g)
           declared == ResolvedDeclaration(g)
<1>1. g \subseteq candidates /\ first \in g BY GroupsOfCandidates, FirstOfAGroup
<1>2. \A a, b \in g : Key(a) = Key(b) \/ (IsNumber(a) /\ IsNumber(b))
  BY GroupsOfCandidates
<1> HIDE DEF first
<1>3. \A a, b \in g : a.verdict.type = b.verdict.type \/ (IsNumber(a) /\ IsNumber(b))
  BY <1>2, KeysTell
<1>4. CASE declared # None
  <2> DEFINE numbers == {a.numeric : a \in g} \ {None}
  <2>1. numbers # {} /\ declared.type = (CHOOSE n \in numbers : TRUE).type
    BY <1>4 DEF ResolvedDeclaration
  <2>2. PICK a \in g : a.numeric # None /\ declared.type = a.numeric.type
    BY <2>1
  <2>3. IsNumber(a) /\ declared.type \in NumericFieldTypes
    BY <1>1, <2>2, NumbersAreNumbers DEF NumericDeclarations, NumericFieldTypes
  <2>4. IsNumber(c) BY <1>3, <2>3 DEF IsNumber
  <2> QED BY <1>4, <2>3, <2>4, PartsOfAField
<1>5. CASE declared = None /\ Cardinality({d.value.kind : d \in g}) > 1
  <2>1. f.type = "float" BY <1>5, PartsOfAField
  <2>2. PICK a \in g : a.value.kind # c.value.kind
    BY <1>5, SpellingsOfAGroup
  <2>3. IsNumber(c) BY <1>2, <2>2, KeysTell
  <2> QED BY <2>1, <2>3 DEF NumericFieldTypes
<1>6. CASE declared = None /\ ~(Cardinality({d.value.kind : d \in g}) > 1)
  <2>1. f.type = first.verdict.type BY <1>6, PartsOfAField DEF first
  <2> QED BY <1>1, <1>3, <2>1 DEF IsNumber
<1> QED BY <1>4, <1>5, <1>6

LEMMA GroupsOfFields ==
  ASSUME IInv, Done, NEW f \in Fields
  PROVE  \E g \in ControlGroups(candidates) : FieldOf(f, g)
BY DEF IInv, FieldsAreOfGroups, Fields, IsTheFieldOf, FieldOf

LEMMA NothingStructural ==
  ASSUME IInv
  PROVE  NothingStructuralIsOffered
<1> SUFFICES ASSUME Done, NEW f \in Fields, NEW t \in f.targets
             PROVE  /\ f.type \notin {"image", "video"} => ~LooksLikeAPath(ValueAt(t))
                    /\ f.type \notin {"image", "video", "select"} =>
                         ~LooksLikeAWebAddress(ValueAt(t)) /\ "weights" \notin LooksOf(ValueAt(t))
                    /\ ~NamesFiles(f.options)
                    /\ f.options # << >> => f.type = "select"
                    /\ ShapesFor(contract, Class(graph, t.node), t.input) = None
                    /\ f.type = "select" =>
                         ToSet(Class(graph, t.node)) \cap LoadingClassWords = {}
                    /\ f.type \in {"image", "video"} =>
                         \A c \in Consumers(graph, t.node) : Words(c.name) \cap MaskWords = {}
  BY DEF NothingStructuralIsOffered
<1>1. PICK g \in ControlGroups(candidates) : FieldOf(f, g) BY GroupsOfFields
<1> DEFINE first == FirstMember(g)
<1>2. first \in g /\ g \subseteq candidates BY GroupsOfCandidates, FirstOfAGroup
<1>3. f.targets = {Target(d) : d \in g} /\ f.options = first.options BY <1>1, PartsOfAField
<1>4. PICK c \in g : t = Target(c) BY <1>3
<1>5. c \in candidates /\ t.node = c.node /\ t.input = c.input BY <1>2, <1>4 DEF Target
<1>6. c.value = ValueAt(t) /\ c.class = Class(graph, t.node)
  BY <1>5, ACandidate DEF ValueAt
<1>7. f.type = c.verdict.type \/ (IsNumber(c) /\ f.type \in NumericFieldTypes)
  BY <1>1, TypeOfAField
<1>8. Fits(c.verdict, c.value) BY <1>5, CandidatesFit
<1>9. IsNumber(c) => Harmless(c.value) BY <1>5, NumbersAreNumbers
<1>10. f.type \notin {"image", "video", "select"} => Harmless(c.value)
  BY <1>7, <1>8, <1>9 DEF Fits, MediaTypes
<1>11. f.type \notin {"image", "video"} => ~LooksLikeAPath(c.value)
  <2>1. CASE f.type = "select"
    <3>1. f.type = c.verdict.type BY <1>7, <2>1 DEF NumericFieldTypes
    <3> QED BY <1>5, <2>1, <3>1, CandidatesFit
  <2>2. CASE f.type # "select" BY <1>10, <2>2 DEF Harmless
  <2> QED BY <2>1, <2>2
<1>12. ~NamesFiles(f.options) BY <1>2, <1>3, CandidatesFit
<1>13. f.options # << >> => f.type = "select"
  <2>1. f.options # << >> => first.verdict.type = "select" BY <1>2, <1>3, CandidatesFit
  <2>2. f.type = first.verdict.type \/ IsNumber(first) BY <1>1, <1>2, TypeOfAField
  <2> QED BY <2>1, <2>2 DEF IsNumber, NumericFieldTypes
<1>14. ShapesFor(contract, Class(graph, t.node), t.input) = None
  BY <1>5, <1>6, CandidatesFit
<1>15. f.type = "select" => ToSet(Class(graph, t.node)) \cap LoadingClassWords = {}
  BY <1>5, <1>6, <1>7, CandidatesFit DEF NumericFieldTypes
<1>16. ASSUME f.type \in {"image", "video"}, NEW d \in Consumers(graph, t.node)
       PROVE  Words(d.name) \cap MaskWords = {}
  <2>1. c.verdict.media # None
    BY <1>7, <1>8, <1>16, NoneAssumption DEF NumericFieldTypes, Fits, MediaTypes
  <2>2. ~IsTechnicalMedia(c.verdict, LabelsOf(c)) BY <1>5, <2>1, ACandidate
  <2>3. d.name \in DOMAIN LabelsOf(c) /\ LabelsOf(c)[d.name] = 1
    BY <1>5, ConsumersAreLabelled DEF IInv, IsGraph, LabelsOf
  <2> QED BY <2>2, <2>3 DEF IsTechnicalMedia, MaskEvidenceDepth
<1> QED BY <1>6, <1>10, <1>11, <1>12, <1>13, <1>14, <1>15, <1>16 DEF Harmless

\* Whatever a graph, its exports and its runtime are, nothing that is structure
\* comes before a person as a field.
THEOREM StructureStaysHidden == Spec => []NothingStructuralIsOffered
BY ReadingIsOfTheGraph, NothingStructural, PTL

(***************************************************************************)
(* One range for many nodes.                                               *)
(***************************************************************************)

Greatest(bounds) == Tightest(bounds, >)
Smallest(bounds) == Tightest(bounds, <)

\* Of bounds that no number exceeds, the greatest is chosen.
LEMMA GreatestOfTheLeast ==
  ASSUME NEW bounds, NEW top \in Int,
         \A b \in bounds \ {None} : b.v \in Int /\ b.v <= top
  PROVE  LET m == Greatest(bounds)
         IN  IF bounds \ {None} = {} THEN m = None
             ELSE m \in bounds \ {None} /\ \A b \in bounds \ {None} : b.v <= m.v
<1> DEFINE given == bounds \ {None}
           best == {x \in given : \A y \in given : x.v = y.v \/ x.v > y.v}
           m == Greatest(bounds)
<1>1. m = IF given = {} THEN None
          ELSE IF \E x \in best : x.kind = "int" THEN CHOOSE x \in best : x.kind = "int"
          ELSE CHOOSE x \in best : TRUE
  BY Zenon DEF Tightest, Greatest
<1> HIDE DEF m
<1>2. CASE given = {} BY <1>1, <1>2 DEF m
<1>3. CASE given # {}
  <2>1. best # {}
    <3> DEFINE T == {top - b.v : b \in given}
    <3>1. T \subseteq Nat /\ T # {} BY <1>3
    <3> HIDE DEF T
    <3>2. PICK n \in T : \A y \in T : n <= y BY <3>1, Least
    <3>3. PICK x \in given : n = top - x.v BY DEF T
    <3>4. \A y \in given : x.v >= y.v
      <4> TAKE y \in given
      <4>1. top - x.v <= top - y.v BY <3>2, <3>3 DEF T
      <4> QED BY <4>1
    <3> QED BY <3>4
  <2>2. m \in best BY <1>1, <1>3, <2>1
  <2> QED BY <1>3, <2>2 DEF m
<1> QED BY <1>2, <1>3

\* Of bounds that none is below, the least is chosen.
LEMMA LeastOfTheGreatest ==
  ASSUME NEW bounds, NEW bottom \in Int,
         \A b \in bounds \ {None} : b.v \in Int /\ bottom <= b.v
  PROVE  LET m == Smallest(bounds)
         IN  IF bounds \ {None} = {} THEN m = None
             ELSE m \in bounds \ {None} /\ \A b \in bounds \ {None} : m.v <= b.v
<1> DEFINE given == bounds \ {None}
           best == {x \in given : \A y \in given : x.v = y.v \/ x.v < y.v}
           m == Smallest(bounds)
<1>1. m = IF given = {} THEN None
          ELSE IF \E x \in best : x.kind = "int" THEN CHOOSE x \in best : x.kind = "int"
          ELSE CHOOSE x \in best : TRUE
  BY Zenon DEF Tightest, Smallest
<1> HIDE DEF m
<1>2. CASE given = {} BY <1>1, <1>2 DEF m
<1>3. CASE given # {}
  <2>1. best # {}
    <3> DEFINE T == {b.v - bottom : b \in given}
    <3>1. T \subseteq Nat /\ T # {} BY <1>3
    <3> HIDE DEF T
    <3>2. PICK n \in T : \A y \in T : n <= y BY <3>1, Least
    <3>3. PICK x \in given : n = x.v - bottom BY DEF T
    <3>4. \A y \in given : x.v <= y.v
      <4> TAKE y \in given
      <4>1. x.v - bottom <= y.v - bottom BY <3>2, <3>3 DEF T
      <4> QED BY <4>1
    <3> QED BY <3>4
  <2>2. m \in best BY <1>1, <1>3, <2>1
  <2> QED BY <1>3, <2>2 DEF m
<1> QED BY <1>2, <1>3

LEMMA MembersAreTheGroup ==
  ASSUME IInv, NEW g \in ControlGroups(candidates), NEW f, FieldOf(f, g)
  PROVE  Members(f) = g
<1>1. f.targets = {Target(d) : d \in g} /\ g \subseteq candidates
  BY PartsOfAField, GroupsOfCandidates
<1> QED BY <1>1, OneCandidateEach DEF Members

LEMMA ANumericField ==
  ASSUME IInv, NEW g \in ControlGroups(candidates), NEW f, FieldOf(f, g),
         f.type \in NumericFieldTypes
  PROVE  /\ f.default.v \in Int
         /\ ResolvedDeclaration(g) # None =>
              LET range == NumericBounds(ResolvedDeclaration(g), f.type, f.default)
              IN  f.min = range.min /\ f.max = range.max
<1> DEFINE first == FirstMember(g)
           spellings == {c.value.kind : c \in g}
           type == f.type
           blank == first.value.kind = "text"
                    /\ (first.verdict.media # None
                        \/ (first.verdict.prompt /\ first.role = <<"prompt">>))
                    /\ "blank" \in LooksOf(first.value)
           respelt == [first.value EXCEPT !.kind = IF type = "float" THEN "float" ELSE "int"]
<1>1. first \in g /\ first \in candidates BY GroupsOfCandidates, FirstOfAGroup
<1>2. IsNumber(first) BY <1>1, TypeOfAField DEF IsNumber
<1>3. /\ first.value.kind \in {"int", "float"} /\ first.value.v \in Int
      /\ first.verdict.media = None /\ ~first.verdict.prompt
  BY <1>1, <1>2, NumbersAreNumbers
<1>4. f.default = IF first.verdict.media # None \/ blank THEN None
                  ELSE IF Cardinality(spellings) > 1 THEN respelt ELSE first.value
  BY DEF FieldOf, Field
<1>5. respelt.v = first.value.v
  BY <1>1, ACandidate DEF IsValue
<1>6. f.default.v = first.value.v
  <2>1. ~blank /\ first.verdict.media = None BY <1>3
  <2> HIDE DEF blank, respelt
  <2> QED BY <1>4, <1>5, <2>1
<1>7. ASSUME ResolvedDeclaration(g) # None
      PROVE  /\ f.min = NumericBounds(ResolvedDeclaration(g), f.type, f.default).min
             /\ f.max = NumericBounds(ResolvedDeclaration(g), f.type, f.default).max
  BY <1>7 DEF FieldOf, Field
<1> QED BY <1>3, <1>6, <1>7


\* What the resolved bounds are, if some value is in every range.
LEMMA ResolvedBounds ==
  ASSUME IInv, NEW g \in ControlGroups(candidates), NEW v \in Int,
         NEW declared, declared = {c.numeric : c \in g} \ {None}, declared # {},
         \A n \in declared : InRange(n, v)
  PROVE  LET r == ResolvedDeclaration(g)
         IN  /\ r \in NumericDeclarations
             /\ InRange(r, v)
             /\ r.min \in {n.min : n \in declared} \cup {None}
             /\ r.max \in {n.max : n \in declared} \cup {None}
             /\ \A n \in declared :
                  /\ n \in NumericDeclarations
                  /\ n.min # None => r.min # None /\ n.min.v <= r.min.v
                  /\ n.max # None => r.max # None /\ r.max.v <= n.max.v
<1> DEFINE r == ResolvedDeclaration(g)
           mins == {n.min : n \in declared}
           maxs == {n.max : n \in declared}
           steps == {n.step : n \in declared}
           type == (CHOOSE n \in declared : TRUE).type
           step == IF Cardinality(steps) = 1 THEN CHOOSE s \in steps : TRUE ELSE None
<1>1. r = [type |-> type, min |-> Greatest(mins), max |-> Smallest(maxs), step |-> step]
  BY Zenon DEF ResolvedDeclaration, Greatest, Smallest
<1>2. g \subseteq candidates BY GroupsOfCandidates
<1>3. declared \subseteq NumericDeclarations BY <1>2, NumbersAreNumbers
<1>4. /\ mins \subseteq DeclaredBounds /\ maxs \subseteq DeclaredBounds
      /\ steps \subseteq DeclaredBounds
  BY <1>3 DEF NumericDeclarations
<1>5. type \in {"integer", "float"} BY <1>3 DEF NumericDeclarations
<1>6. step \in DeclaredBounds
  <2>1. CASE Cardinality(steps) = 1
    <3>1. steps # {} BY <2>1, FS_EmptySet
    <3>2. step = CHOOSE s \in steps : TRUE BY <2>1
    <3> HIDE DEF steps, step
    <3> QED BY <1>4, <3>1, <3>2
  <2>2. CASE Cardinality(steps) # 1 BY <2>2 DEF DeclaredBounds
  <2> QED BY <2>1, <2>2
<1>7. \A b \in mins \ {None} : b.v \in Int /\ b.v <= v
  BY <1>4 DEF DeclaredBounds, FiniteNumbers, InRange
<1>8. \A b \in maxs \ {None} : b.v \in Int /\ v <= b.v
  BY <1>4 DEF DeclaredBounds, FiniteNumbers, InRange
<1> HIDE DEF r, mins, maxs, steps, type, step
<1>9. IF mins \ {None} = {} THEN r.min = None
      ELSE r.min \in mins \ {None} /\ \A b \in mins \ {None} : b.v <= r.min.v
  BY <1>1, <1>7, GreatestOfTheLeast
<1>10. IF maxs \ {None} = {} THEN r.max = None
       ELSE r.max \in maxs \ {None} /\ \A b \in maxs \ {None} : r.max.v <= b.v
  BY <1>1, <1>8, LeastOfTheGreatest
<1>11. r \in NumericDeclarations
  <2>1. r.min \in DeclaredBounds BY <1>4, <1>9 DEF DeclaredBounds
  <2>2. r.max \in DeclaredBounds BY <1>4, <1>10 DEF DeclaredBounds
  <2> QED BY <1>1, <1>5, <1>6, <2>1, <2>2 DEF NumericDeclarations
<1>12. InRange(r, v) BY <1>7, <1>8, <1>9, <1>10 DEF InRange
<1>13. r.min \in mins \cup {None} /\ r.max \in maxs \cup {None} BY <1>9, <1>10
<1>14. ASSUME NEW n \in declared
       PROVE  /\ n.min # None => r.min # None /\ n.min.v <= r.min.v
              /\ n.max # None => r.max # None /\ r.max.v <= n.max.v
  <2>1. n.min \in mins /\ n.max \in maxs BY DEF mins, maxs
  <2> QED BY <1>9, <1>10, <2>1
<1> QED BY <1>3, <1>11, <1>12, <1>13, <1>14 DEF mins, maxs, r

BoundsIn(declared) == UNION {{n.min, n.max} : n \in declared}

LEMMA BoundsAreOfOne ==
  ASSUME NEW S, NEW b
  PROVE  b \in BoundsIn(S) <=> \E n \in S : b \in {n.min, n.max}
<1> DEFINE Both(n) == {n.min, n.max}
<1>1. BoundsIn(S) = UNION {Both(n) : n \in S} BY DEF BoundsIn
<1> HIDE DEF Both
<1>2. b \in BoundsIn(S) <=> \E n \in S : b \in Both(n) BY <1>1
<1> QED BY <1>2 DEF Both

LEMMA SharedRange ==
  ASSUME IInv
  PROVE  SharedRangeIsSafe
<1> DEFINE Declared(f) == {c.numeric : c \in Members(f)} \ {None}
           Bounds(f) == (UNION {{n.min, n.max} : n \in Declared(f)}) \ {None}
<1> SUFFICES ASSUME Done, NEW f \in Fields, f.type \in NumericFieldTypes,
                    \A n \in Declared(f) : InRange(n, f.default.v),
                    f.type = "integer" => \A b \in Bounds(f) : b.kind = "int",
                    NEW v \in UNION {(b.v - 2)..(b.v + 2) : b \in Bounds(f)},
                    InRange(f, v), NEW n \in Declared(f)
             PROVE  InRange(n, v)
  BY DEF SharedRangeIsSafe
<1>0. Bounds(f) = BoundsIn(Declared(f)) \ {None} BY DEF BoundsIn
<1> HIDE DEF Bounds
<1>1. PICK g \in ControlGroups(candidates) : FieldOf(f, g) BY GroupsOfFields
<1> DEFINE r == ResolvedDeclaration(g)
           declared == {c.numeric : c \in g} \ {None}
           range == NumericBounds(r, f.type, f.default)
<1>2. Declared(f) = declared BY <1>1, MembersAreTheGroup
<1>3. f.default.v \in Int /\ (r # None => f.min = range.min /\ f.max = range.max)
  BY <1>1, ANumericField
<1>4. /\ r \in NumericDeclarations /\ InRange(r, f.default.v)
      /\ r.min \in {k.min : k \in declared} \cup {None}
      /\ r.max \in {k.max : k \in declared} \cup {None}
      /\ n \in NumericDeclarations
      /\ n.min # None => r.min # None /\ n.min.v <= r.min.v
      /\ n.max # None => r.max # None /\ r.max.v <= n.max.v
  <2>1. \A k \in declared : InRange(k, f.default.v) BY <1>2
  <2>2. n \in declared BY <1>2
  <2> HIDE DEF declared, r
  <2> QED BY <1>3, <2>1, <2>2, ResolvedBounds DEF declared, r
<1>5. r # None BY <1>4, DeclarationAssumption
<1>6. \A b \in {r.min, r.max} \ {None} : b.v \in Int /\ (f.type = "integer" => b.kind = "int")
  <2>1. \A b \in {r.min, r.max} \ {None} : b.v \in Int
    BY <1>4 DEF NumericDeclarations, DeclaredBounds, FiniteNumbers
  <2>2. {r.min, r.max} \ {None} \subseteq Bounds(f)
    <3>1. \A k \in declared : {k.min, k.max} \ {None} \subseteq Bounds(f)
      BY <1>0, <1>2, BoundsAreOfOne
    <3>2. r.min \in {k.min : k \in declared} \cup {None} BY <1>4
    <3>3. r.max \in {k.max : k \in declared} \cup {None} BY <1>4
    <3> HIDE DEF Bounds, declared, r
    <3> QED BY <3>1, <3>2, <3>3
  <2> QED BY <2>1, <2>2
<1> HIDE DEF r, declared
<1>7. UsableBound(r.min, f.type) = r.min /\ UsableBound(r.max, f.type) = r.max
  BY <1>6 DEF UsableBound
<1>8. f.min = r.min /\ f.max = r.max
  <2>1. f.min = range.min /\ f.max = range.max BY <1>3, <1>5
  <2>2. ~(r.min # None /\ r.max # None /\ r.min.v > r.max.v) BY <1>3, <1>4, <1>6 DEF InRange
  <2>3. ~(r.min # None /\ f.default.v < r.min.v) BY <1>3, <1>4, <1>6 DEF InRange
  <2>4. ~(r.max # None /\ f.default.v > r.max.v) BY <1>3, <1>4, <1>6 DEF InRange
  <2> QED BY <1>7, <2>1, <2>2, <2>3, <2>4 DEF NumericBounds
<1>9. v \in Int
  <2>1. \A k \in Declared(f) : k \in NumericDeclarations
    <3>1. g \subseteq candidates BY GroupsOfCandidates
    <3>2. \A c \in g : c.numeric # None => c.numeric \in NumericDeclarations
      BY <3>1, NumbersAreNumbers
    <3> QED BY <1>2, <3>2 DEF declared
  <2>2. \A b \in Bounds(f) : b.v \in Int
    <3> HIDE DEF Declared
    <3>1. \A b \in Bounds(f) : b # None /\ \E k \in Declared(f) : b \in {k.min, k.max}
      BY <1>0, BoundsAreOfOne
    <3>2. \A b \in Bounds(f) : b \in FiniteNumbers
      BY <2>1, <3>1 DEF NumericDeclarations, DeclaredBounds
    <3> QED BY <3>2 DEF FiniteNumbers
  <2> HIDE DEF Bounds
  <2> QED BY <2>2
<1>10. /\ n.min # None => n.min.v \in Int /\ r.min.v \in Int
       /\ n.max # None => n.max.v \in Int /\ r.max.v \in Int
  BY <1>4, <1>6 DEF NumericDeclarations, DeclaredBounds, FiniteNumbers
<1> QED BY <1>4, <1>8, <1>9, <1>10 DEF InRange

\* A number a field takes is one that every node behind it takes.
THEOREM SharedRangesAreSafe == Spec => []SharedRangeIsSafe
BY ReadingIsOfTheGraph, SharedRange, PTL

(***************************************************************************)
(* The groups divide the candidates.                                       *)
(***************************************************************************)

LEMMA OneKeyGroupEach ==
  ASSUME NEW all, NEW k \in KeyGroups(all), NEW l \in KeyGroups(all), NEW c, c \in k, c \in l
  PROVE  k = l
BY DEF KeyGroups

LEMMA JoinsTellsMore ==
  ASSUME NEW all, NEW h \in KeyGroups(all), NEW k \in KeyGroups(all), Joins(h, k),
         NEW c \in h, NEW d \in k
  PROVE  /\ c.value.kind = "int" /\ d.value.kind = "float" /\ c.value.v = d.value.v
         /\ DeclaredAlike(c, d)
<1> DEFINE c0 == CHOOSE x \in h : TRUE
           d0 == CHOOSE x \in k : TRUE
<1>1. c0 \in h /\ d0 \in k OBVIOUS
<1>2. /\ c0.value.kind = "int" /\ d0.value.kind = "float" /\ c0.value.v = d0.value.v
      /\ SameKindOfControl(h, k)
  BY DEF Joins
<1> HIDE DEF c0, d0
<1>3. Key(c) = Key(c0) /\ Key(d) = Key(d0) BY <1>1, KeyGroupsOf
<1>4. c.value = c0.value /\ d.value = d0.value BY <1>3, KeysTell
<1> QED BY <1>2, <1>4 DEF SameKindOfControl

\* A number has one control in its whole spelling for each in its other.
LEMMA OneSpellingEach ==
  ASSUME IInv, NEW c \in candidates, NEW e \in candidates, NEW d,
         IsNumber(c), IsNumber(e), c.role = e.role,
         c.value.kind = "int", e.value.kind = "int",
         c.value.v = d.value.v, e.value.v = d.value.v,
         DeclaredAlike(c, d), DeclaredAlike(e, d)
  PROVE  Key(c) = Key(e)
<1>1. c.value = e.value BY ACandidate DEF IsValue
<1>2. c.verdict.type = e.verdict.type
  BY <1>1, CandidatesFit DEF Fits, IsNumber
<1>3. c.options = << >> /\ e.options = << >>
  BY CandidatesFit DEF IsNumber, NumericFieldTypes
<1>4. DeclarationKey(c) = DeclarationKey(e)
  BY <1>2 DEF DeclarationKey, DeclaredAlike
<1> QED BY <1>1, <1>2, <1>3, <1>4 DEF Key

LEMMA GroupsAreWholes ==
  ASSUME NEW all, NEW g \in ControlGroups(all)
  PROVE  \E k \in KeyGroups(all) :
           /\ g = k \cup UNION {h \in KeyGroups(all) : Joins(k, h)}
           /\ \A h \in KeyGroups(all) : ~Joins(h, k)
BY DEF ControlGroups, OneNumberHoweverWritten

LEMMA GroupsCover ==
  ASSUME NEW all
  PROVE  UNION ControlGroups(all) = all
<1> DEFINE With(k) == k \cup UNION {h \in KeyGroups(all) : Joins(k, h)}
<1>1. UNION ControlGroups(all) \subseteq all BY GroupsOfCandidates
<1>2. ASSUME NEW c \in all PROVE c \in UNION ControlGroups(all)
  <2>1. PICK k \in KeyGroups(all) : c \in k
    <3>1. {x \in all : Key(x) = Key(c)} \in KeyGroups(all) BY DEF KeyGroups
    <3> QED BY <3>1
  <2>2. \A h \in KeyGroups(all) : (\A l \in KeyGroups(all) : ~Joins(l, h))
                                    => With(h) \in ControlGroups(all)
    BY DEF ControlGroups, OneNumberHoweverWritten
  <2> HIDE DEF With
  <2>3. CASE \A l \in KeyGroups(all) : ~Joins(l, k)
    <3>1. With(k) \in ControlGroups(all) /\ c \in With(k) BY <2>1, <2>2, <2>3 DEF With
    <3> QED BY <3>1
  <2>4. CASE \E l \in KeyGroups(all) : Joins(l, k)
    <3>1. PICK l \in KeyGroups(all) : Joins(l, k) BY <2>4
    <3>2. \A h \in KeyGroups(all) : ~Joins(h, l)
      <4> SUFFICES ASSUME NEW h \in KeyGroups(all), Joins(h, l) PROVE FALSE
        OBVIOUS
      <4>1. PICK x : x \in l BY KeyGroupsOf
      <4>2. PICK y : y \in h BY KeyGroupsOf
      <4>3. x.value.kind = "float" BY <4>1, <4>2, JoinsTellsMore
      <4>4. x.value.kind = "int" BY <2>1, <3>1, <4>1, JoinsTellsMore
      <4> QED BY <4>3, <4>4
    <3>3. With(l) \in ControlGroups(all) BY <2>2, <3>2
    <3>4. c \in With(l) BY <2>1, <3>1 DEF With
    <3> QED BY <3>3, <3>4
  <2> QED BY <2>3, <2>4
<1> QED BY <1>1, <1>2

LEMMA GroupsAreApart ==
  ASSUME IInv, NEW g \in ControlGroups(candidates), NEW h \in ControlGroups(candidates),
         NEW c, c \in g, c \in h
  PROVE  g = h
<1> DEFINE all == KeyGroups(candidates)
           With(k) == k \cup UNION {l \in all : Joins(k, l)}
<1>1. PICK k \in all : g = With(k) /\ \A l \in all : ~Joins(l, k) BY GroupsAreWholes
<1>2. PICK m \in all : h = With(m) /\ \A l \in all : ~Joins(l, m) BY GroupsAreWholes
<1>3. PICK i \in all : c \in i /\ (i = k \/ Joins(k, i)) BY <1>1
<1>4. PICK j \in all : c \in j /\ (j = m \/ Joins(m, j)) BY <1>2
<1>5. i = j BY <1>3, <1>4, OneKeyGroupEach
<1>6. k = m
  <2>1. CASE i = k \/ j = m BY <1>1, <1>2, <1>3, <1>4, <1>5, <2>1
  <2>2. CASE Joins(k, i) /\ Joins(m, i)
    <3>1. PICK x : x \in k BY KeyGroupsOf
    <3>2. PICK y : y \in m BY KeyGroupsOf
    <3>3. x \in candidates /\ y \in candidates BY <3>1, <3>2, KeyGroupsOf
    <3>4. IsNumber(x) /\ IsNumber(y) /\ x.role = c.role /\ y.role = c.role
      BY <1>3, <2>2, <3>1, <3>2, JoinsTells
    <3>5. /\ x.value.kind = "int" /\ x.value.v = c.value.v /\ DeclaredAlike(x, c)
          /\ y.value.kind = "int" /\ y.value.v = c.value.v /\ DeclaredAlike(y, c)
      BY <1>3, <2>2, <3>1, <3>2, JoinsTellsMore
    <3>6. Key(x) = Key(y) BY <3>3, <3>4, <3>5, OneSpellingEach
    <3>7. k = {d \in candidates : Key(d) = Key(x)} /\ m = {d \in candidates : Key(d) = Key(y)}
      BY <3>1, <3>2 DEF KeyGroups
    <3> QED BY <3>6, <3>7
  <2> QED BY <1>3, <1>4, <1>5, <2>1, <2>2
<1> QED BY <1>1, <1>2, <1>6

(***************************************************************************)
(* What a node is wired into and out of.                                   *)
(***************************************************************************)

UpOne(g, up) ==
  [n \in DOMAIN g |-> {<<e.name, Class(g, e.node), up[e.node]>> : e \in Upstream(g, n)}]

PartOf(g, down, e) == <<e.name, Class(g, e.node), down[e.node]>>
Alike(g, down, n, part) == {e \in Consumers(g, n) : PartOf(g, down, e) = part}

DownOne(g, down) ==
  [n \in DOMAIN g |->
     {<<part, Cardinality(Alike(g, down, n, part))>> :
        part \in {PartOf(g, down, e) : e \in Consumers(g, n)}}]

\* The two ways in one, so that one induction serves both.
OneFurther(way, g, shapes) == IF way = "up" THEN UpOne(g, shapes) ELSE DownOne(g, shapes)
Shapes(way, g, depth) == IF way = "up" THEN UpShapes(g, depth) ELSE DownShapes(g, depth)

Bare(g) == [n \in DOMAIN g |-> {}]
IsHistory(way, g, n, h) ==
  h = [i \in 0..n |-> IF i = 0 THEN Bare(g) ELSE OneFurther(way, g, h[i - 1])]

LEMMA HistoriesExist ==
  ASSUME NEW way, NEW g, NEW n \in Nat
  PROVE  \E h : IsHistory(way, g, n, h)
<1> DEFINE T == {k \in Nat : ~ \E h : IsHistory(way, g, k, h)}
<1> SUFFICES ASSUME T # {} PROVE FALSE
  OBVIOUS
<1>1. T \subseteq Nat OBVIOUS
<1>2. PICK k \in T : \A j \in T : k <= j
  <2> HIDE DEF T
  <2> QED BY <1>1, Least
<1>3. CASE k = 0
  <2> DEFINE h == [i \in 0..0 |-> Bare(g)]
  <2>1. h = [i \in 0..0 |-> IF i = 0 THEN Bare(g) ELSE OneFurther(way, g, h[i - 1])]
    OBVIOUS
  <2>2. IsHistory(way, g, 0, h) BY <2>1 DEF IsHistory
  <2> QED BY <1>3, <2>2
<1>4. CASE k # 0
  <2>1. k - 1 \in Nat /\ k - 1 \notin T BY <1>2, <1>4
  <2>2. PICK h : IsHistory(way, g, k - 1, h) BY <2>1
  <2>3. h = [i \in 0..(k - 1) |-> IF i = 0 THEN Bare(g) ELSE OneFurther(way, g, h[i - 1])]
    BY <2>2 DEF IsHistory
  <2>4. \A i \in 0..(k - 1) :
          h[i] = IF i = 0 THEN Bare(g) ELSE OneFurther(way, g, h[i - 1])
    BY <2>3
  <2> DEFINE more == [i \in 0..k |-> IF i = k THEN OneFurther(way, g, h[k - 1]) ELSE h[i]]
             next == [i \in 0..k |-> IF i = 0 THEN Bare(g) ELSE OneFurther(way, g, more[i - 1])]
  <2>5. \A i \in 0..k : more[i] = next[i]
    <3> TAKE i \in 0..k
    <3>1. CASE i = k
      <4>1. more[k - 1] = h[k - 1] BY <1>4, <2>1
      <4> QED BY <1>4, <3>1, <4>1
    <3>2. CASE i # k
      <4>1. i \in 0..(k - 1) /\ more[i] = h[i] BY <3>2
      <4>2. CASE i = 0 BY <2>4, <4>1, <4>2
      <4>3. CASE i # 0
        <5>1. more[i - 1] = h[i - 1] BY <4>1, <4>3
        <5> QED BY <2>4, <4>1, <4>3, <5>1
      <4> QED BY <4>2, <4>3
    <3> QED BY <3>1, <3>2
  <2>6. more = next BY <2>5
  <2>7. IsHistory(way, g, k, more) BY <2>6 DEF IsHistory
  <2> QED BY <2>7
<1> QED BY <1>3, <1>4

LEMMA HistoriesAgree ==
  ASSUME NEW way, NEW g, NEW n \in Nat, NEW m \in Nat, NEW h, NEW j,
         IsHistory(way, g, n, h), IsHistory(way, g, m, j),
         NEW i \in 0..n, i \in 0..m
  PROVE  h[i] = j[i]
<1> DEFINE T == {k \in Nat : k <= n /\ k <= m /\ h[k] # j[k]}
<1> SUFFICES ASSUME T # {} PROVE FALSE
  OBVIOUS
<1>1. T \subseteq Nat OBVIOUS
<1>2. PICK k \in T : \A l \in T : k <= l
  <2> HIDE DEF T
  <2> QED BY <1>1, Least
<1>3. h[k] = IF k = 0 THEN Bare(g) ELSE OneFurther(way, g, h[k - 1])
  BY <1>2 DEF IsHistory
<1>4. j[k] = IF k = 0 THEN Bare(g) ELSE OneFurther(way, g, j[k - 1])
  BY <1>2 DEF IsHistory
<1>5. k # 0 => h[k - 1] = j[k - 1] BY <1>2
<1> QED BY <1>2, <1>3, <1>4, <1>5

LEMMA UpIsAHistory ==
  ASSUME NEW g, NEW n \in Nat
  PROVE  \E h : IsHistory("up", g, n, h) /\ UpShapes(g, n) = h[n]
<1> DEFINE Deeper(up) ==
             Tabled([m \in DOMAIN g |-> {<<e.name, Class(g, e.node), up[e.node]>> :
                                           e \in Upstream(g, m)}])
           Further(h) == [i \in 0..n |-> IF i = 0 THEN Bare(g) ELSE Deeper(h[i - 1])]
           nth == CHOOSE h : h = Further(h)
<1>1. UpShapes(g, n) = nth[n]
  BY Zenon DEF UpShapes, Iterate, Bare
<1>2. \A up : Deeper(up) = OneFurther("up", g, up)
  BY TabledIsIt DEF OneFurther, UpOne
<1> HIDE DEF Deeper
<1>3. \A h : IsHistory("up", g, n, h) <=> h = Further(h)
  BY <1>2 DEF IsHistory
<1>4. \E h : h = Further(h) BY <1>3, HistoriesExist
<1>5. nth = Further(nth)
  <2> HIDE DEF Further
  <2> QED BY Zenon, <1>4
<1> QED BY <1>1, <1>3, <1>5

LEMMA DownIsAHistory ==
  ASSUME NEW g, NEW n \in Nat
  PROVE  \E h : IsHistory("down", g, n, h) /\ DownShapes(g, n) = h[n]
<1> DEFINE Deeper(down) ==
             Tabled([m \in DOMAIN g |->
               {<<part, Cardinality({e \in Consumers(g, m) :
                                       <<e.name, Class(g, e.node), down[e.node]>> = part})>> :
                  part \in {<<e.name, Class(g, e.node), down[e.node]>> : e \in Consumers(g, m)}}])
           Further(h) == [i \in 0..n |-> IF i = 0 THEN Bare(g) ELSE Deeper(h[i - 1])]
           nth == CHOOSE h : h = Further(h)
<1>1. DownShapes(g, n) = nth[n]
  BY Zenon DEF DownShapes, Iterate, Bare
<1>2. \A down : Deeper(down) = OneFurther("down", g, down)
  BY TabledIsIt DEF OneFurther, DownOne, PartOf, Alike
<1> HIDE DEF Deeper
<1>3. \A h : IsHistory("down", g, n, h) <=> h = Further(h)
  BY <1>2 DEF IsHistory
<1>4. \E h : h = Further(h) BY <1>3, HistoriesExist
<1>5. nth = Further(nth)
  <2> HIDE DEF Further
  <2> QED BY Zenon, <1>4
<1> QED BY <1>1, <1>3, <1>5

\* A shape is made of the shapes one wire further, one wire shorter.
LEMMA ShapesGrow ==
  ASSUME NEW way \in {"up", "down"}, NEW g
  PROVE  /\ Shapes(way, g, 0) = Bare(g)
         /\ \A n \in Nat : Shapes(way, g, n + 1) = OneFurther(way, g, Shapes(way, g, n))
<1>1. \A n \in Nat : \E h : IsHistory(way, g, n, h) /\ Shapes(way, g, n) = h[n]
  BY UpIsAHistory, DownIsAHistory DEF Shapes
<1>2. Shapes(way, g, 0) = Bare(g) BY <1>1 DEF IsHistory
<1>3. ASSUME NEW n \in Nat
      PROVE  Shapes(way, g, n + 1) = OneFurther(way, g, Shapes(way, g, n))
  <2>1. PICK h : IsHistory(way, g, n, h) /\ Shapes(way, g, n) = h[n] BY <1>1
  <2>2. PICK j : IsHistory(way, g, n + 1, j) /\ Shapes(way, g, n + 1) = j[n + 1] BY <1>1
  <2>3. h[n] = j[n] BY <2>1, <2>2, HistoriesAgree
  <2>4. j[n + 1] = OneFurther(way, g, j[n]) BY <2>2 DEF IsHistory
  <2> QED BY <2>1, <2>2, <2>3, <2>4
<1> QED BY <1>2, <1>3

OfKind(S, f, v) == {e \in S : f[e] = v}

\* Sets with as many elements of each kind can be paired, kind by kind.
LEMMA Pairing ==
  ASSUME NEW C, NEW D, IsFiniteSet(C), IsFiniteSet(D), NEW a, NEW b,
         \A v : Cardinality(OfKind(C, a, v)) = Cardinality(OfKind(D, b, v))
  PROVE  \E pair \in Bijection(C, D) : \A e \in C : b[pair[e]] = a[e]
<1> DEFINE Of(v) == {e \in C : a[e] = v}
           To(v) == {e \in D : b[e] = v}
           Bij(v) == CHOOSE f : f \in Bijection(Of(v), To(v))
           pair == [e \in C |-> Bij(a[e])[e]]
<1>1. \A v : Bij(v) \in Bijection(Of(v), To(v))
  <2> TAKE v
  <2>1. IsFiniteSet(Of(v)) /\ IsFiniteSet(To(v)) BY FS_Subset
  <2>2. Cardinality(Of(v)) = Cardinality(To(v)) BY DEF OfKind
  <2> HIDE DEF Of, To
  <2>3. ExistsBijection(Of(v), To(v)) BY <2>1, <2>2, FS_SameCardinalityBij
  <2> QED BY <2>3 DEF ExistsBijection
<1> HIDE DEF Bij
<1>2. \A v : /\ \A e \in Of(v) : Bij(v)[e] \in To(v)
             /\ \A e, d \in Of(v) : Bij(v)[e] = Bij(v)[d] => e = d
             /\ \A t \in To(v) : \E e \in Of(v) : Bij(v)[e] = t
  BY <1>1 DEF Bijection, Injection, Surjection, IsInjective
<1>3. \A e \in C : pair[e] \in D /\ b[pair[e]] = a[e]
  BY <1>2
<1>4. \A e, d \in C : pair[e] = pair[d] => e = d
  <2> TAKE e, d \in C
  <2> HAVE pair[e] = pair[d]
  <2>1. a[e] = a[d] BY <1>3
  <2> QED BY <1>2, <2>1
<1>5. \A t \in D : \E e \in C : pair[e] = t
  <2> TAKE t \in D
  <2>1. PICK e \in Of(b[t]) : Bij(b[t])[e] = t BY <1>2
  <2> QED BY <2>1
<1>6. pair \in Bijection(C, D)
  <2>1. pair \in [C -> D] BY <1>3
  <2> HIDE DEF pair
  <2> QED BY <1>4, <1>5, <2>1 DEF Bijection, Injection, Surjection, IsInjective
<1> QED BY <1>3, <1>6

\* What is paired, kind by kind, is as many of each kind.
LEMMA PairsCountAlike ==
  ASSUME NEW C, NEW D, IsFiniteSet(C), NEW pair \in Bijection(C, D), NEW a, NEW b,
         \A e \in C : b[pair[e]] = a[e], NEW v
  PROVE  Cardinality(OfKind(C, a, v)) = Cardinality(OfKind(D, b, v))
<1> DEFINE S == {e \in C : a[e] = v}
           T == {e \in D : b[e] = v}
           f == [e \in S |-> pair[e]]
<1>1. /\ pair \in [C -> D]
      /\ \A e, d \in C : pair[e] = pair[d] => e = d
      /\ \A t \in D : \E e \in C : pair[e] = t
  BY DEF Bijection, Injection, Surjection, IsInjective
<1>2. f \in [S -> T] BY <1>1
<1>3. \A e, d \in S : f[e] = f[d] => e = d BY <1>1
<1>4. \A t \in T : \E e \in S : f[e] = t BY <1>1
<1>5. IsFiniteSet(S) BY FS_Subset
<1> HIDE DEF S, T, f
<1>6. ExistsBijection(S, T)
  BY <1>2, <1>3, <1>4 DEF ExistsBijection, Bijection, Injection, Surjection, IsInjective
<1>7. Cardinality(S) = Cardinality(T) BY <1>5, <1>6, FS_Bijection
<1> QED BY <1>7 DEF S, T, OfKind

LEMMA WiredNodes ==
  ASSUME NEW g, IsGraph(g), NEW n \in DOMAIN g
  PROVE  /\ \A e \in Upstream(g, n) : e.node \in DOMAIN g
         /\ \A e \in Consumers(g, n) : e.node \in DOMAIN g
         /\ IsFiniteSet(Consumers(g, n))
<1>1. \A e \in Upstream(g, n) : e.node \in DOMAIN g BY DEF Upstream, Wires
<1>2. \A e \in Consumers(g, n) : e.node \in DOMAIN g BY DEF Consumers
<1>3. IsFiniteSet(Consumers(g, n))
  <2> DEFINE Of(k) == {[node |-> k, name |-> name] :
                         name \in {w \in Wires(g, k) :
                                     Inputs(g, k)[w].v = [node |-> n, slot |-> 0]}}
             all == {Of(k) : k \in DOMAIN g}
  <2>1. Consumers(g, n) = UNION all BY DEF Consumers
  <2>2. IsFiniteSet(all)
    <3> DEFINE f == [k \in DOMAIN g |-> Of(k)]
    <3> HIDE DEF Of
    <3>1. f \in Surjection(DOMAIN g, all) BY DEF Surjection
    <3>2. IsFiniteSet(DOMAIN g) BY DEF IsGraph
    <3> HIDE DEF f, all
    <3> QED BY <3>1, <3>2, FS_Surjection
  <2>3. \A k \in DOMAIN g : IsFiniteSet(Of(k))
    <3> TAKE k \in DOMAIN g
    <3> DEFINE names == {w \in Wires(g, k) : Inputs(g, k)[w].v = [node |-> n, slot |-> 0]}
               f == [name \in names |-> [node |-> k, name |-> name]]
    <3>1. IsFiniteSet(DOMAIN Inputs(g, k)) BY DEF IsGraph, IsNode, Inputs
    <3>2. names \subseteq DOMAIN Inputs(g, k) BY DEF Wires
    <3>3. IsFiniteSet(names) BY <3>1, <3>2, FS_Subset
    <3>4. Of(k) = {[node |-> k, name |-> name] : name \in names} OBVIOUS
    <3> HIDE DEF names, Of
    <3>5. f \in Surjection(names, Of(k)) BY <3>4 DEF Surjection
    <3> HIDE DEF f
    <3> QED BY <3>3, <3>5, FS_Surjection
  <2> HIDE DEF Of
  <2>4. \A S \in all : IsFiniteSet(S) BY <2>3
  <2> HIDE DEF all
  <2> QED BY <2>1, <2>2, <2>4, FS_UNION
<1> QED BY <1>1, <1>2, <1>3

\* Where J tells no more apart than A and B do, it tells no more apart one
\* wire further on.
TellsLess(g, A, B, J) == \A x, y \in DOMAIN g : A[x] = B[y] => J[x] = J[y]

LEMMA UpTellsLess ==
  ASSUME NEW g, IsGraph(g), NEW A, NEW B, NEW J, TellsLess(g, A, B, J)
  PROVE  TellsLess(g, UpOne(g, A), UpOne(g, B), UpOne(g, J))
<1> SUFFICES ASSUME NEW n \in DOMAIN g, NEW m \in DOMAIN g, UpOne(g, A)[n] = UpOne(g, B)[m]
             PROVE  UpOne(g, J)[n] = UpOne(g, J)[m]
  BY DEF TellsLess
<1> DEFINE Part(S, e) == <<e.name, Class(g, e.node), S[e.node]>>
<1>1. \A S : /\ UpOne(g, S)[n] = {Part(S, e) : e \in Upstream(g, n)}
             /\ UpOne(g, S)[m] = {Part(S, e) : e \in Upstream(g, m)}
  BY DEF UpOne
<1>2. \A e \in Upstream(g, n), d \in Upstream(g, m) :
        Part(A, e) = Part(B, d) => Part(J, e) = Part(J, d)
  BY WiredNodes DEF TellsLess
<1> HIDE DEF Part
<1>3. \A e \in Upstream(g, n) : \E d \in Upstream(g, m) : Part(A, e) = Part(B, d)
  <2> TAKE e \in Upstream(g, n)
  <2>1. Part(A, e) \in UpOne(g, B)[m] BY <1>1
  <2> QED BY <1>1, <2>1
<1>4. \A d \in Upstream(g, m) : \E e \in Upstream(g, n) : Part(A, e) = Part(B, d)
  <2> TAKE d \in Upstream(g, m)
  <2>1. Part(B, d) \in UpOne(g, A)[n] BY <1>1
  <2> QED BY <1>1, <2>1
<1>5. UpOne(g, J)[n] \subseteq UpOne(g, J)[m] BY <1>1, <1>2, <1>3
<1>6. UpOne(g, J)[m] \subseteq UpOne(g, J)[n] BY <1>1, <1>2, <1>4
<1> QED BY <1>5, <1>6

LEMMA DownTellsLess ==
  ASSUME NEW g, IsGraph(g), NEW A, NEW B, NEW J, TellsLess(g, A, B, J)
  PROVE  TellsLess(g, DownOne(g, A), DownOne(g, B), DownOne(g, J))
<1> SUFFICES ASSUME NEW n \in DOMAIN g, NEW m \in DOMAIN g, DownOne(g, A)[n] = DownOne(g, B)[m]
             PROVE  DownOne(g, J)[n] = DownOne(g, J)[m]
  BY DEF TellsLess
<1> DEFINE C == Consumers(g, n)
           D == Consumers(g, m)
           Parts(S, E) == {PartOf(g, S, e) : e \in E}
           Many(S, k, p) == Cardinality(Alike(g, S, k, p))
<1>0. IsFiniteSet(C) /\ IsFiniteSet(D) BY WiredNodes
<1>1. \A S : /\ DownOne(g, S)[n] = {<<p, Many(S, n, p)>> : p \in Parts(S, C)}
             /\ DownOne(g, S)[m] = {<<p, Many(S, m, p)>> : p \in Parts(S, D)}
  BY DEF DownOne
<1>2. \A S, p : /\ p \in Parts(S, C) <=> Alike(g, S, n, p) # {}
                /\ p \in Parts(S, D) <=> Alike(g, S, m, p) # {}
  BY DEF Alike
<1>3. \A p : Many(A, n, p) = Many(B, m, p)
  <2> TAKE p
  <2> HIDE DEF Parts, Many
  <2>1. CASE p \in Parts(A, C)
    <3>1. <<p, Many(A, n, p)>> \in DownOne(g, B)[m] BY <1>1, <2>1
    <3>2. PICK q \in Parts(B, D) : <<p, Many(A, n, p)>> = <<q, Many(B, m, q)>> BY <1>1, <3>1
    <3> QED BY <3>2
  <2>2. CASE p \in Parts(B, D)
    <3>1. <<p, Many(B, m, p)>> \in DownOne(g, A)[n] BY <1>1, <2>2
    <3>2. PICK q \in Parts(A, C) : <<p, Many(B, m, p)>> = <<q, Many(A, n, q)>> BY <1>1, <3>1
    <3> QED BY <3>2
  <2>3. CASE p \notin Parts(A, C) /\ p \notin Parts(B, D)
    <3>1. Alike(g, A, n, p) = {} /\ Alike(g, B, m, p) = {} BY <1>2, <2>3
    <3> QED BY <3>1 DEF Many
  <2> QED BY <2>1, <2>2, <2>3
<1>4. PICK pair \in Bijection(C, D) : \A e \in C : PartOf(g, B, pair[e]) = PartOf(g, A, e)
  <2> DEFINE a == [e \in C |-> PartOf(g, A, e)]
             b == [e \in D |-> PartOf(g, B, e)]
  <2>1. \A v : Alike(g, A, n, v) = OfKind(C, a, v) /\ Alike(g, B, m, v) = OfKind(D, b, v)
    BY DEF Alike, OfKind
  <2>2. \A v : Cardinality(OfKind(C, a, v)) = Cardinality(OfKind(D, b, v))
    BY <1>3, <2>1
  <2>3. /\ \A e \in C : a[e] = PartOf(g, A, e)
        /\ \A e \in D : b[e] = PartOf(g, B, e)
    OBVIOUS
  <2> HIDE DEF a, b, C, D
  <2>4. PICK pair \in Bijection(C, D) : \A e \in C : b[pair[e]] = a[e]
    BY <1>0, <2>2, Pairing
  <2>5. \A e \in C : pair[e] \in D BY <2>4 DEF Bijection, Surjection
  <2> QED BY <2>3, <2>4, <2>5
<1>5. \A e \in C : pair[e] \in D BY <1>4 DEF Bijection, Surjection
<1>6. \A e \in C : PartOf(g, J, pair[e]) = PartOf(g, J, e)
  <2>1. \A e \in C, d \in D : PartOf(g, A, e) = PartOf(g, B, d) => PartOf(g, J, e) = PartOf(g, J, d)
    BY WiredNodes DEF TellsLess, PartOf
  <2> QED BY <1>4, <1>5, <2>1
<1>7. \A p : Many(J, n, p) = Many(J, m, p)
  <2> TAKE p
  <2> DEFINE a == [e \in C |-> PartOf(g, J, e)]
             b == [e \in D |-> PartOf(g, J, e)]
  <2>1. Alike(g, J, n, p) = OfKind(C, a, p) /\ Alike(g, J, m, p) = OfKind(D, b, p)
    BY DEF Alike, OfKind
  <2>2. \A e \in C : b[pair[e]] = a[e] BY <1>5, <1>6
  <2> HIDE DEF a, b, C, D
  <2>3. Cardinality(OfKind(C, a, p)) = Cardinality(OfKind(D, b, p))
    BY <1>0, <1>4, <2>2, PairsCountAlike
  <2> QED BY <2>1, <2>3
<1>8. Parts(J, C) = Parts(J, D)
  <2>1. \A d \in D : \E e \in C : pair[e] = d BY <1>4 DEF Bijection, Surjection
  <2> HIDE DEF C, D
  <2> QED BY <1>5, <1>6, <2>1
<1> HIDE DEF Parts, Many
<1>9. DownOne(g, J)[n] = {<<p, Many(J, n, p)>> : p \in Parts(J, C)} BY <1>1
<1>10. DownOne(g, J)[m] = {<<p, Many(J, n, p)>> : p \in Parts(J, C)}
  <2>1. DownOne(g, J)[m] = {<<p, Many(J, m, p)>> : p \in Parts(J, C)} BY <1>1, <1>8
  <2> QED BY <1>7, <2>1
<1> QED BY <1>9, <1>10

LEMMA ShapesTellLess ==
  ASSUME NEW way \in {"up", "down"}, NEW g, IsGraph(g),
         NEW k \in Nat, NEW l \in Nat, k >= 2, l >= 2
  PROVE  TellsLess(g, Shapes(way, g, k), Shapes(way, g, l), Shapes(way, g, 2))
<1> DEFINE S(i) == Shapes(way, g, i)
<1>1. \A A, B, J : TellsLess(g, A, B, J)
         => TellsLess(g, OneFurther(way, g, A), OneFurther(way, g, B), OneFurther(way, g, J))
  BY UpTellsLess, DownTellsLess DEF OneFurther
<1>2. \A A, B : TellsLess(g, A, B, S(0))
  <2>1. S(0) = Bare(g) BY ShapesGrow
  <2> QED BY <2>1 DEF TellsLess, Bare
<1>3. \A n \in Nat : S(n + 1) = OneFurther(way, g, S(n)) BY ShapesGrow
<1> HIDE DEF S
<1>4. \A i, j, m \in Nat : TellsLess(g, S(i), S(j), S(m))
                             => TellsLess(g, S(i + 1), S(j + 1), S(m + 1))
  BY <1>1, <1>3
<1>5. TellsLess(g, S(k - 1), S(l - 1), S(1))
  <2>1. TellsLess(g, S((k - 2) + 1), S((l - 2) + 1), S(0 + 1)) BY <1>2, <1>4
  <2>2. (k - 2) + 1 = k - 1 /\ (l - 2) + 1 = l - 1 /\ 0 + 1 = 1 OBVIOUS
  <2> QED BY <2>1, <2>2
<1>6. TellsLess(g, S(k), S(l), S(2))
  <2>1. TellsLess(g, S((k - 1) + 1), S((l - 1) + 1), S(1 + 1))
    <3>1. k - 1 \in Nat /\ l - 1 \in Nat /\ 1 \in Nat OBVIOUS
    <3> QED BY <1>4, <1>5, <3>1
  <2>2. (k - 1) + 1 = k /\ (l - 1) + 1 = l /\ 1 + 1 = 2 OBVIOUS
  <2> QED BY <2>1, <2>2
<1> QED BY <1>6 DEF S

\* What tells two marks apart near by tells them apart further on.
LEMMA MarksTellLess ==
  ASSUME NEW g, IsGraph(g), NEW c, NEW d, c.node \in DOMAIN g, d.node \in DOMAIN g,
         NEW k \in Nat, NEW l \in Nat, k >= 2, l >= 2, Mark(g, c, k) = Mark(g, d, l)
  PROVE  Mark(g, c, 2) = Mark(g, d, 2) /\ (k > 2 <=> l > 2)
<1>1. /\ c.input = d.input /\ Class(g, c.node) = Class(g, d.node)
      /\ UpShapes(g, k)[c.node] = UpShapes(g, l)[d.node]
      /\ DownShapes(g, k)[c.node] = DownShapes(g, l)[d.node]
  BY DEF Mark, Fingerprint
<1>2. k > 2 <=> l > 2
  <2>1. Mark(g, c, k).deep = (k > 2) /\ Mark(g, d, l).deep = (l > 2)
    BY DEF Mark, Fingerprint, FingerprintDepth
  <2> QED BY <2>1
<1>3. UpShapes(g, 2)[c.node] = UpShapes(g, 2)[d.node]
  BY <1>1, ShapesTellLess DEF TellsLess, Shapes
<1>4. DownShapes(g, 2)[c.node] = DownShapes(g, 2)[d.node]
  BY <1>1, ShapesTellLess DEF TellsLess, Shapes
<1> QED BY <1>1, <1>2, <1>3, <1>4 DEF Mark, Fingerprint

LEMMA GroupMarksTellLess ==
  ASSUME NEW g, IsGraph(g), NEW G, NEW H, G # {},
         \A c \in G \cup H : c.node \in DOMAIN g,
         NEW k \in Nat, NEW l \in Nat, k >= 2, l >= 2,
         GroupMark(g, G, k) = GroupMark(g, H, l)
  PROVE  GroupMark(g, G, 2) = GroupMark(g, H, 2) /\ (k > 2 <=> l > 2)
<1>1. \A c \in G : \E d \in H : Mark(g, c, k) = Mark(g, d, l)
  <2> TAKE c \in G
  <2>1. Mark(g, c, k) \in GroupMark(g, H, l) BY DEF GroupMark
  <2> QED BY <2>1 DEF GroupMark
<1>2. \A d \in H : \E c \in G : Mark(g, c, k) = Mark(g, d, l)
  <2> TAKE d \in H
  <2>1. Mark(g, d, l) \in GroupMark(g, G, k) BY DEF GroupMark
  <2> QED BY <2>1 DEF GroupMark
<1>3. k > 2 <=> l > 2
  <2>1. PICK c \in G : TRUE OBVIOUS
  <2>2. PICK d \in H : Mark(g, c, k) = Mark(g, d, l) BY <1>1
  <2> QED BY <2>2, MarksTellLess
<1>4. \A c \in G : \E d \in H : Mark(g, c, 2) = Mark(g, d, 2) BY <1>1, MarksTellLess
<1>5. \A d \in H : \E c \in G : Mark(g, c, 2) = Mark(g, d, 2) BY <1>2, MarksTellLess
<1> QED BY <1>3, <1>4, <1>5 DEF GroupMark

LEMMA ApartMeansApart ==
  ASSUME NEW g, NEW groups, IsFiniteSet(groups), NEW depth, Apart(g, groups, depth),
         NEW G \in groups, NEW H \in groups, GroupMark(g, G, depth) = GroupMark(g, H, depth)
  PROVE  G = H
<1> DEFINE f == [x \in groups |-> GroupMark(g, x, depth)]
           marks == {GroupMark(g, x, depth) : x \in groups}
<1>1. f \in Surjection(groups, marks) BY DEF Surjection
<1>2. Cardinality(marks) = Cardinality(groups) BY DEF Apart
<1>3. f[G] = f[H] OBVIOUS
<1> HIDE DEF f, marks
<1>4. f \in Injection(groups, marks) BY <1>1, <1>2, FS_Surjection
<1>5. DOMAIN f = groups BY <1>1 DEF Surjection
<1> QED BY <1>3, <1>4, <1>5 DEF Injection, IsInjective

LEMMA FiniteGroups ==
  ASSUME IInv
  PROVE  IsFiniteSet(ControlGroups(candidates))
<1>1. ControlGroups(candidates) \subseteq SUBSET candidates BY GroupsOfCandidates
<1>2. IsFiniteSet(SUBSET candidates) BY FS_SUBSET DEF IInv, CandidatesAreJudged
<1> QED BY <1>1, <1>2, FS_Subset

LEMMA SeparatingDepths ==
  ASSUME NEW g, IsFiniteSet(DOMAIN g), NEW groups, SeparatingDepth(g, groups) # None
  PROVE  /\ SeparatingDepth(g, groups) \in Nat /\ SeparatingDepth(g, groups) > 2
         /\ Apart(g, groups, SeparatingDepth(g, groups))
<1> DEFINE N == Cardinality(DOMAIN g)
           found == {d \in (FingerprintDepth + 1)..N : Apart(g, groups, d)}
           least == CHOOSE d \in found : \A e \in found : d <= e
<1>1. found # {} /\ SeparatingDepth(g, groups) = least
  BY DEF SeparatingDepth
<1>2. found \subseteq Nat /\ \A d \in found : d > 2 /\ Apart(g, groups, d)
  BY FS_CardinalityType DEF FingerprintDepth
<1> HIDE DEF found
<1>3. \E d \in found : \A e \in found : d <= e BY <1>1, <1>2, Least
<1>4. least \in found BY <1>3
<1> QED BY <1>1, <1>2, <1>4

MarkGiven(depths, group) ==
  IF depths[group] = 0 THEN {} ELSE GroupMark(graph, group, depths[group])

\* No two groups of a role are given the same mark.
LEMMA MarksTellApart ==
  ASSUME IInv, NEW depths, depths = Depths(graph, ControlGroups(candidates)),
         NEW G \in DOMAIN depths \ Rejected(depths),
         NEW H \in DOMAIN depths \ Rejected(depths),
         RoleOf(G) = RoleOf(H), MarkGiven(depths, G) = MarkGiven(depths, H)
  PROVE  G = H
<1> SUFFICES ASSUME G # H PROVE FALSE
  OBVIOUS
<1> DEFINE all == ControlGroups(candidates)
           OfRole(g) == {h \in all : RoleOf(h) = RoleOf(g)}
           role == OfRole(G)
           Near(g) == Colliding(graph, g, role)
<1>1. depths = [g \in all |-> IF OfRole(g) = {g} THEN 0 ELSE DepthOf(graph, g, OfRole(g))]
  BY TabledIsIt DEF Depths
<1>2. DOMAIN depths = all /\ G \in all /\ H \in all BY <1>1
<1>3. OfRole(H) = role /\ G \in role /\ H \in role BY <1>2
<1> HIDE DEF OfRole, all, role
<1>4. depths[G] = DepthOf(graph, G, role) /\ depths[H] = DepthOf(graph, H, role)
  BY <1>1, <1>2, <1>3 DEF role
<1>5. depths[G] # None /\ depths[H] # None BY DEF Rejected
<1>6. IsFiniteSet(DOMAIN graph) BY DEF IInv, IsGraph
<1>7. ASSUME NEW g \in {G, H}
      PROVE  /\ depths[g] \in Nat /\ depths[g] >= 2
             /\ Near(g) # {g} => /\ depths[g] = SeparatingDepth(graph, Near(g))
                                 /\ Apart(graph, Near(g), depths[g])
  <2>1. depths[g] # None
        /\ depths[g] = IF Near(g) = {g} THEN 2 ELSE SeparatingDepth(graph, Near(g))
    BY <1>4, <1>5 DEF DepthOf, FingerprintDepth
  <2> HIDE DEF Near
  <2>2. CASE Near(g) = {g} BY <2>1, <2>2
  <2>3. CASE Near(g) # {g} BY <1>6, <2>1, <2>3, SeparatingDepths
  <2> QED BY <2>2, <2>3
<1>8. GroupMark(graph, G, depths[G]) = GroupMark(graph, H, depths[H])
  BY <1>7 DEF MarkGiven
<1>9. /\ IsGraph(graph) /\ G # {}
      /\ \A c \in G \cup H : c.node \in DOMAIN graph
  BY <1>2, GroupsOfCandidates, ACandidate DEF IInv, all
<1>10. GroupMark(graph, G, 2) = GroupMark(graph, H, 2)
  BY <1>7, <1>8, <1>9, GroupMarksTellLess
<1>11. H \in Near(G) /\ G \in Near(G) /\ Near(G) = Near(H)
  BY <1>3, <1>10 DEF Colliding, FingerprintDepth
<1>12. Near(G) # {G} /\ Near(H) # {H} BY <1>11
<1>13. depths[G] = depths[H] /\ Apart(graph, Near(G), depths[G])
  BY <1>7, <1>11, <1>12
<1>14. IsFiniteSet(Near(G))
  <2>1. Near(G) \subseteq all BY DEF Colliding, role, OfRole
  <2> QED BY <2>1, FiniteGroups, FS_Subset DEF all
<1> HIDE DEF Near
<1> QED BY <1>8, <1>11, <1>13, <1>14, ApartMeansApart

(***************************************************************************)
(* The inventory.                                                          *)
(***************************************************************************)

\* While a graph is read each of its inputs is in one place: to be judged,
\* answered for, or a candidate.
EachIsSomewhere ==
  ~Done =>
    /\ {Target(c) : c \in controls} \cup {Target(c) : c \in candidates} \cup todo
         = LiteralInputs(graph)
    /\ \A c \in controls :
         /\ c.section \in {"locked", "technical", "needs_review"} /\ Target(c) \notin todo
         /\ \A d \in candidates : Target(c) # Target(d)
    /\ \A d \in candidates : Target(d) \notin todo
    /\ \A c, d \in controls : Target(c) = Target(d) => c = d

AnswersInv == EachIsSomewhere /\ EveryInputIsAnswered

LEMMA Controls ==
  ASSUME NEW t, t = [node |-> t.node, input |-> t.input], NEW section, NEW kind, NEW field
  PROVE  LET c == Control(t, section, kind, field)
         IN  Target(c) = t /\ c.section = section /\ c.field = field
BY DEF Control, Target

LEMMA ConsiderAnswers ==
  ASSUME IInv, AnswersInv, Consider
  PROVE  AnswersInv'
<1>1. PICK t \in todo : Decided(t, Judged(graph, contract, t.node, t.input),
                                DownstreamLabels(graph, t.node))
  BY DEF Consider
<1> DEFINE judged == Judged(graph, contract, t.node, t.input)
           labels == DownstreamLabels(graph, t.node)
           c0 == Candidate(t, judged, labels)
<1>2. t = [node |-> t.node, input |-> t.input]
  BY DEF IInv, AllIsReadFirst, LiteralInputs
<1>3. Target(c0) = t BY <1>2 DEF Candidate, Target
<1>4. /\ UNCHANGED <<graph, plan>> /\ todo' = todo \ {t}
      /\ \/ /\ candidates' = candidates
            /\ \E section \in {"locked", "technical", "needs_review"} : \E kind :
                 controls' = controls \cup {Control(t, section, kind, None)}
         \/ controls' = controls /\ candidates' = candidates \cup {c0}
  BY <1>1 DEF Decided, Lock, Hold, SetAside, HasNoRole, Admit, Decide
<1>5. ~Done /\ ~Done' BY <1>4 DEF IInv, AllIsReadFirst, Done
<1>6. EachIsSomewhere'
  <2>1. CASE controls' = controls /\ candidates' = candidates \cup {c0}
    <3> HIDE DEF c0
    <3> QED BY <1>3, <1>4, <1>5, <2>1 DEF AnswersInv, EachIsSomewhere
  <2>2. CASE candidates' = candidates
             /\ \E section \in {"locked", "technical", "needs_review"} : \E kind :
                  controls' = controls \cup {Control(t, section, kind, None)}
    <3>1. PICK x : /\ controls' = controls \cup {x} /\ Target(x) = t
                   /\ x.section \in {"locked", "technical", "needs_review"}
      BY <1>2, <2>2, Controls
    <3> QED BY <1>4, <1>5, <2>2, <3>1 DEF AnswersInv, EachIsSomewhere
  <2> QED BY <1>4, <2>1, <2>2
<1> QED BY <1>5, <1>6 DEF AnswersInv, EveryInputIsAnswered

\* The groups of a role are drafted apart, or rejected together.
LEMMA WhatIsFound ==
  ASSUME IInv
  PROVE  LET all == ControlGroups(candidates)
             depths == Depths(graph, all)
             found == FieldsFrom(graph, candidates)
         IN  \E draft :
               /\ found.rejected = Rejected(depths) /\ Rejected(depths) \subseteq all
               /\ {f.draft : f \in found.fields} = {draft[g] : g \in all \ Rejected(depths)}
               /\ \A g \in all \ Rejected(depths) :
                    /\ FieldOf(draft[g], g)
                    /\ draft[g].id = [role |-> FirstMember(g).role, mark |-> MarkGiven(depths, g)]
<1> DEFINE all == ControlGroups(candidates)
           depths == Depths(graph, all)
           kept == DOMAIN depths \ Rejected(depths)
           dimensions == {RoleOf(g) : g \in DOMAIN depths} \cap DimensionNames
           draft == DraftsOf(graph, depths, kept)
           found == FieldsFrom(graph, candidates)
<1>1. DOMAIN depths = all BY TabledIsIt DEF Depths
<1>2. draft = [g \in kept |-> Field(g, MarkGiven(depths, g), dimensions, DeclaredFrameRate(graph))]
  BY TabledIsIt DEF DraftsOf, MarkGiven
<1>3. found.rejected = Rejected(depths) /\ found.fields = Named(graph, depths, draft)
  BY DEF FieldsFrom, FieldsAt
<1>4. Rejected(depths) \subseteq all BY <1>1 DEF Rejected
<1> HIDE DEF depths, draft, all, found
<1>5. {f.draft : f \in found.fields} = {draft[g] : g \in kept}
  <2>1. PICK labels : Named(graph, depths, draft)
                        = {[draft |-> draft[g], label |-> labels[g]] : g \in DOMAIN draft}
    BY Zenon DEF Named
  <2>2. DOMAIN draft = kept BY <1>2
  <2> DEFINE Made(g) == [draft |-> draft[g], label |-> labels[g]]
  <2>3. found.fields = {Made(g) : g \in kept} BY <1>3, <2>1, <2>2
  <2>4. \A g : Made(g).draft = draft[g] OBVIOUS
  <2> HIDE DEF Made, kept
  <2>5. \A g \in kept : Made(g) \in found.fields BY <2>3
  <2>6. \A f \in found.fields : \E g \in kept : f = Made(g) BY <2>3
  <2> QED BY <2>4, <2>5, <2>6
<1>6. \A g \in kept :
        /\ FieldOf(draft[g], g)
        /\ draft[g].id = [role |-> FirstMember(g).role, mark |-> MarkGiven(depths, g)]
  <2> TAKE g \in kept
  <2>1. draft[g] = Field(g, MarkGiven(depths, g), dimensions, DeclaredFrameRate(graph))
    BY <1>2
  <2>2. FieldOf(draft[g], g) BY <2>1 DEF FieldOf
  <2>3. draft[g].id = [role |-> FirstMember(g).role, mark |-> MarkGiven(depths, g)]
    BY <2>1 DEF Field
  <2> QED BY <2>2, <2>3
<1> QED BY <1>1, <1>3, <1>4, <1>5, <1>6 DEF depths, all, found

\* The groups kept and the groups rejected answer for every candidate once.
LEMMA GroupsAnswer ==
  ASSUME IInv
  PROVE  LET found == FieldsFrom(graph, candidates)
             drafts == {f.draft : f \in found.fields}
             inFields == FieldControls(found.fields)
             rejected == RejectedControls(found.rejected)
         IN  /\ {Target(x) : x \in inFields \cup rejected} = {Target(c) : c \in candidates}
             /\ \A x, y \in inFields \cup rejected : Target(x) = Target(y) => x = y
             /\ \A x \in inFields : InAField(x)
             /\ \A x \in rejected : x.section = "needs_review"
             /\ \A f \in drafts : f.targets = {Target(x) : x \in {x \in inFields : x.field = f.id}}
<1> DEFINE all == ControlGroups(candidates)
           depths == Depths(graph, all)
           kept == all \ Rejected(depths)
           found == FieldsFrom(graph, candidates)
           drafts == {f.draft : f \in found.fields}
           inFields == FieldControls(found.fields)
           rejected == RejectedControls(found.rejected)
<1>1. PICK draft :
        /\ found.rejected = Rejected(depths) /\ Rejected(depths) \subseteq all
        /\ drafts = {draft[g] : g \in kept}
        /\ \A g \in kept :
             /\ FieldOf(draft[g], g)
             /\ draft[g].id = [role |-> FirstMember(g).role, mark |-> MarkGiven(depths, g)]
  BY WhatIsFound
<1> DEFINE In(g, c) == Control(Target(c), draft[g].section, None, draft[g].id)
           Out(c) == Control(Target(c), "needs_review", None, None)
<1>2. \A g \in kept : /\ draft[g].targets = {Target(c) : c \in g}
                      /\ draft[g].section \in {"main", "advanced"}
  BY <1>1, PartsOfAField
<1>3. \A g \in all : g \subseteq candidates /\ g # {} BY GroupsOfCandidates
<1>4. \A x : x \in inFields <=> \E g \in kept : \E c \in g : x = In(g, c)
  <2> TAKE x
  <2>1. x \in inFields <=> \E f \in drafts : \E t \in f.targets :
                             x = Control(t, f.section, None, f.id)
    BY DEF FieldControls
  <2>2. x \in inFields <=> \E g \in kept : \E t \in draft[g].targets :
                             x = Control(t, draft[g].section, None, draft[g].id)
    <3> HIDE DEF inFields, kept, drafts
    <3> QED BY <1>1, <2>1
  <2> HIDE DEF inFields, kept
  <2> QED BY <1>2, <2>2
<1>5. \A x : x \in rejected <=> \E g \in Rejected(depths) : \E c \in g : x = Out(c)
  BY <1>1 DEF RejectedControls
<1>6. \A g, c : /\ Target(In(g, c)) = Target(c) /\ In(g, c).section = draft[g].section
                /\ In(g, c).field = draft[g].id
                /\ Target(Out(c)) = Target(c) /\ Out(c).section = "needs_review"
  BY Controls DEF Target
<1> HIDE DEF In, Out, kept, drafts, inFields, rejected, depths, all
<1>7. kept \cap Rejected(depths) = {} /\ kept \cup Rejected(depths) = all
  BY <1>1 DEF kept
<1>8. UNION all = candidates BY GroupsCover DEF all
<1>9. {Target(x) : x \in inFields \cup rejected} = {Target(c) : c \in candidates}
  <2>1. \A x \in inFields \cup rejected : \E c \in candidates : Target(x) = Target(c)
    BY <1>3, <1>4, <1>5, <1>6, <1>7
  <2>2. \A c \in candidates : \E x \in inFields \cup rejected : Target(x) = Target(c)
    <3> TAKE c \in candidates
    <3>1. PICK g \in all : c \in g BY <1>8
    <3>2. CASE g \in kept BY <1>4, <1>6, <3>1, <3>2
    <3>3. CASE g \in Rejected(depths) BY <1>5, <1>6, <3>1, <3>3
    <3> QED BY <1>7, <3>2, <3>3
  <2> QED BY <2>1, <2>2
<1>10. \A g, h \in all : \A c \in g, d \in h : Target(c) = Target(d) => c = d /\ g = h
  BY <1>3, OneCandidateEach, GroupsAreApart DEF all
<1>11. \A x, y \in inFields \cup rejected : Target(x) = Target(y) => x = y
  <2> TAKE x, y \in inFields \cup rejected
  <2> HAVE Target(x) = Target(y)
  <2>1. CASE x \in inFields /\ y \in inFields BY <1>4, <1>6, <1>7, <1>10, <2>1
  <2>2. CASE x \in rejected /\ y \in rejected BY <1>5, <1>6, <1>7, <1>10, <2>2
  <2>3. CASE x \in inFields /\ y \in rejected BY <1>4, <1>5, <1>6, <1>7, <1>10, <2>3
  <2>4. CASE x \in rejected /\ y \in inFields BY <1>4, <1>5, <1>6, <1>7, <1>10, <2>4
  <2> QED BY <2>1, <2>2, <2>3, <2>4
<1>12. \A x \in inFields : InAField(x) BY <1>2, <1>4, <1>6 DEF InAField
<1>13. \A x \in rejected : x.section = "needs_review" BY <1>5, <1>6
<1>14. \A g, h \in kept : draft[g].id = draft[h].id => g = h
  <2> TAKE g, h \in kept
  <2> HAVE draft[g].id = draft[h].id
  <2>1. FirstMember(g).role = FirstMember(h).role /\ MarkGiven(depths, g) = MarkGiven(depths, h)
    <3>1. \A k \in kept :
            draft[k].id = [role |-> FirstMember(k).role, mark |-> MarkGiven(depths, k)]
      BY Zenon, <1>1
    <3>2. [role |-> FirstMember(g).role, mark |-> MarkGiven(depths, g)]
            = [role |-> FirstMember(h).role, mark |-> MarkGiven(depths, h)]
      BY Zenon, <3>1
    <3> QED BY <3>2
  <2>2. \A k \in {g, h} : RoleOf(k) = FirstMember(k).role
    <3> TAKE k \in {g, h}
    <3>1. k \in all BY <1>7
    <3>2. FirstMember(k) \in k /\ \A c, d \in k : c.role = d.role
      BY <3>1, FirstOfAGroup, GroupsOfCandidates DEF all
    <3> QED BY <1>3, <3>1, <3>2 DEF RoleOf
  <2>3. DOMAIN depths = all BY TabledIsIt DEF Depths, depths
  <2>4. g \in DOMAIN depths \ Rejected(depths) /\ h \in DOMAIN depths \ Rejected(depths)
    BY <2>3 DEF kept
  <2> QED BY <2>1, <2>2, <2>4, MarksTellApart DEF depths, all
<1>15. \A f \in drafts : f.targets = {Target(x) : x \in {x \in inFields : x.field = f.id}}
  <2> TAKE f \in drafts
  <2>1. PICK g \in kept : f = draft[g] BY <1>1
  <2>2. \A x \in inFields : x.field = f.id <=> \E c \in g : x = In(g, c)
    BY <1>4, <1>6, <1>14, <2>1
  <2>3. \A c \in g : In(g, c) \in inFields BY <1>4
  <2>4. f.targets = {Target(c) : c \in g} BY <1>2, <2>1
  <2> QED BY <1>6, <2>2, <2>3, <2>4
<1> QED BY <1>9, <1>11, <1>12, <1>13, <1>15 DEF drafts, inFields, rejected

LEMMA ConcludeAnswers ==
  ASSUME IInv, AnswersInv, Conclude
  PROVE  AnswersInv'
<1> DEFINE found == FieldsFrom(graph, candidates)
           inFields == FieldControls(found.fields)
           rejected == RejectedControls(found.rejected)
           held == {c \in controls' : c.section = "needs_review"}
<1>1. /\ UNCHANGED <<graph, todo, candidates>> /\ todo = {} /\ ~Done
      /\ controls' = controls \cup inFields \cup rejected
      /\ plan' = [read |-> TRUE, review |-> held # {},
                  fields |-> IF held = {} THEN found.fields ELSE {}]
  BY DEF Conclude, Planned, Done
<1>2. Done' BY <1>1 DEF Done
<1>3. /\ {Target(c) : c \in controls} \cup {Target(c) : c \in candidates} = LiteralInputs(graph)
      /\ \A c \in controls : /\ c.section \in {"locked", "technical", "needs_review"}
                             /\ \A d \in candidates : Target(c) # Target(d)
      /\ \A c, d \in controls : Target(c) = Target(d) => c = d
  BY <1>1 DEF AnswersInv, EachIsSomewhere
<1>4. /\ {Target(x) : x \in inFields \cup rejected} = {Target(c) : c \in candidates}
      /\ \A x, y \in inFields \cup rejected : Target(x) = Target(y) => x = y
      /\ \A x \in inFields : InAField(x)
      /\ \A x \in rejected : x.section = "needs_review"
      /\ \A f \in {f.draft : f \in found.fields} :
           f.targets = {Target(x) : x \in {x \in inFields : x.field = f.id}}
  BY GroupsAnswer
<1> HIDE DEF inFields, rejected, found
<1>5. {Target(c) : c \in controls'} = LiteralInputs(graph)
  BY <1>1, <1>3, <1>4
<1>6. \A c, d \in controls' : Target(c) = Target(d) => c = d
  <2>1. \A x \in inFields \cup rejected : \E d \in candidates : Target(x) = Target(d)
    BY <1>4
  <2> QED BY <1>1, <1>3, <1>4, <2>1
<1>7. plan'.review <=> \E c \in controls' : c.section = "needs_review"
  BY <1>1
<1>8. plan'.review => Fields' = {}
  BY <1>1 DEF Fields
<1>9. \A f \in Fields' :
        f.targets = {Target(c) : c \in {c \in controls' : InAField(c) /\ c.field = f.id}}
  <2> TAKE f \in Fields'
  <2>1. f \in {d.draft : d \in found.fields} BY <1>1 DEF Fields
  <2>2. \A c \in controls' : InAField(c) <=> c \in inFields
    BY <1>1, <1>3, <1>4 DEF InAField
  <2>3. {c \in controls' : InAField(c) /\ c.field = f.id} = {c \in inFields : c.field = f.id}
    BY <1>1, <2>2
  <2> QED BY <1>4, <2>1, <2>3
<1> QED BY <1>1, <1>2, <1>5, <1>6, <1>7, <1>8, <1>9
        DEF AnswersInv, EachIsSomewhere, EveryInputIsAnswered, InAField

LEMMA RereadAnswers ==
  ASSUME NEW g, NEW how, Reread(g, how)
  PROVE  AnswersInv'
<1>1. ~Done' BY DEF Reread, Unread, Done
<1> QED BY <1>1 DEF Reread, AnswersInv, EachIsSomewhere, EveryInputIsAnswered

LEMMA StepsAnswer ==
  ASSUME IInv, AnswersInv, [Next]_vars
  PROVE  AnswersInv'
<1>1. CASE Consider BY <1>1, ConsiderAnswers
<1>2. CASE Conclude BY <1>2, ConcludeAnswers
<1>3. CASE \E n, m \in DOMAIN graph : Renumber(n, m)
  BY <1>3, RereadAnswers DEF Renumber
<1>4. CASE \E n \in DOMAIN graph : \E name \in DOMAIN Inputs(graph, n) : Respell(n, name)
  BY <1>4, RereadAnswers DEF Respell
<1>5. CASE UNCHANGED vars
  BY <1>5 DEF vars, AnswersInv, EachIsSomewhere, EveryInputIsAnswered, Done, Fields
<1> QED BY <1>1, <1>2, <1>3, <1>4, <1>5 DEF Next

LEMMA InitAnswers ==
  ASSUME Init
  PROVE  AnswersInv
<1>1. ~Done BY DEF Init, Unread, Done
<1> QED BY <1>1 DEF Init, AnswersInv, EachIsSomewhere, EveryInputIsAnswered

\* Every literal input of a graph is answered for, once, in the one field it
\* belongs to or outside all of them, whatever the graph and its runtime.
THEOREM InputsAreAnswered == Spec => []EveryInputIsAnswered
<1>1. Spec => []AnswersInv
  BY InitAnswers, StepsAnswer, ReadingIsOfTheGraph, PTL DEF Spec
<1>2. AnswersInv => EveryInputIsAnswered BY DEF AnswersInv
<1> QED BY <1>1, <1>2, PTL

(***************************************************************************)
(* What the fields are called.                                             *)
(***************************************************************************)

Repeats(F, x, n, h) == h = [i \in 0..n |-> IF i = 0 THEN x ELSE F[h[i - 1]]]

\* Repeating a step of a set's elements has a history, and Iterate is its end.
LEMMA RepetitionsExist ==
  ASSUME NEW X, NEW F \in [X -> X], NEW x \in X, NEW n \in Nat
  PROVE  \E h \in [0..n -> X] : Repeats(F, x, n, h)
<1> DEFINE T == {k \in Nat : ~ \E h \in [0..k -> X] : Repeats(F, x, k, h)}
<1> SUFFICES ASSUME T # {} PROVE FALSE
  OBVIOUS
<1>1. T \subseteq Nat OBVIOUS
<1>2. PICK k \in T : \A j \in T : k <= j
  <2> HIDE DEF T
  <2> QED BY <1>1, Least
<1>3. CASE k = 0
  <2> DEFINE h == [i \in 0..0 |-> x]
  <2>1. h \in [0..0 -> X] /\ Repeats(F, x, 0, h)
    BY DEF Repeats
  <2> HIDE DEF h
  <2>2. 0 \notin T BY <2>1
  <2> QED BY <1>2, <1>3, <2>2
<1>4. CASE k # 0
  <2>1. k - 1 \in Nat /\ k - 1 \notin T
    <3> HIDE DEF T
    <3> QED BY <1>1, <1>2, <1>4
  <2>2. PICK h \in [0..(k - 1) -> X] : Repeats(F, x, k - 1, h)
    BY <2>1
  <2>3. \A i \in 0..(k - 1) : h[i] = IF i = 0 THEN x ELSE F[h[i - 1]]
    BY <2>2 DEF Repeats
  <2> DEFINE more == [i \in 0..k |-> IF i = k THEN F[h[k - 1]] ELSE h[i]]
             next == [i \in 0..k |-> IF i = 0 THEN x ELSE F[more[i - 1]]]
  <2>4. \A i \in 0..k : more[i] = next[i]
    <3> TAKE i \in 0..k
    <3>1. CASE i = k
      <4>1. more[k - 1] = h[k - 1] BY <1>4, <2>1
      <4> QED BY <1>4, <3>1, <4>1
    <3>2. CASE i # k
      <4>1. i \in 0..(k - 1) /\ more[i] = h[i] BY <3>2
      <4>2. CASE i = 0 BY <2>3, <4>1, <4>2
      <4>3. CASE i # 0
        <5>1. more[i - 1] = h[i - 1] BY <4>1, <4>3
        <5> QED BY <2>3, <4>1, <4>3, <5>1
      <4> QED BY <4>2, <4>3
    <3> QED BY <3>1, <3>2
  <2>5. more = next BY <2>4
  <2>6. more \in [0..k -> X]
    <3>1. F[h[k - 1]] \in X BY <2>1
    <3>2. \A i \in 0..k : i # k => h[i] \in X BY <2>1
    <3> QED BY <3>1, <3>2
  <2>7. Repeats(F, x, k, more) BY <2>5 DEF Repeats
  <2> HIDE DEF more
  <2>8. k \notin T BY <2>6, <2>7
  <2> QED BY <1>2, <2>8
<1> QED BY <1>3, <1>4

\* The names a climb looks at.
IsLadder(ladder) == /\ Len(ladder) \in Nat \ {0} /\ DOMAIN ladder = 1..Len(ladder)

ClimbOf(ladders, rungs) ==
  [f \in DOMAIN ladders |->
     IF /\ rungs[f] < Len(ladders[f])
        /\ \E g \in DOMAIN ladders \ {f} : ladders[g][rungs[g]] = ladders[f][rungs[f]]
     THEN rungs[f] + 1 ELSE rungs[f]]

RungsOf(ladders) == UNION {{f} \X DOMAIN ladders[f] : f \in DOMAIN ladders}
Standing(ladders) ==
  {r \in [DOMAIN ladders -> Nat] : \A f \in DOMAIN ladders : r[f] \in DOMAIN ladders[f]}
Climbed(ladders, rungs) ==
  {p \in RungsOf(ladders) : p[2] <= rungs[p[1]]}

LEMMA ClimbsStand ==
  ASSUME NEW ladders, \A f \in DOMAIN ladders : IsLadder(ladders[f]),
         NEW r \in Standing(ladders)
  PROVE  /\ ClimbOf(ladders, r) \in Standing(ladders)
         /\ \A f \in DOMAIN ladders : ClimbOf(ladders, r)[f] >= r[f]
<1> DEFINE up == ClimbOf(ladders, r)
<1>1. \A f \in DOMAIN ladders :
        /\ r[f] \in Nat /\ r[f] \in 1..Len(ladders[f]) /\ Len(ladders[f]) \in Nat
        /\ DOMAIN ladders[f] = 1..Len(ladders[f])
  BY DEF Standing, IsLadder
<1>2. \A f \in DOMAIN ladders :
        up[f] = r[f] \/ (up[f] = r[f] + 1 /\ r[f] < Len(ladders[f]))
  BY DEF ClimbOf
<1>3. DOMAIN up = DOMAIN ladders /\ up = [f \in DOMAIN ladders |-> up[f]]
  BY DEF ClimbOf
<1> HIDE DEF up
<1>4. \A f \in DOMAIN ladders : up[f] \in Nat /\ up[f] \in DOMAIN ladders[f] /\ up[f] >= r[f]
  BY <1>1, <1>2
<1>5. up \in [DOMAIN ladders -> Nat] BY <1>3, <1>4
<1> QED BY <1>4, <1>5 DEF Standing, up

LEMMA ClimbsGrow ==
  ASSUME NEW ladders, \A f \in DOMAIN ladders : IsLadder(ladders[f]),
         IsFiniteSet(RungsOf(ladders)),
         NEW r \in Standing(ladders), ClimbOf(ladders, r) # r
  PROVE  /\ Cardinality(Climbed(ladders, r)) \in Nat
         /\ Cardinality(Climbed(ladders, ClimbOf(ladders, r)))
              > Cardinality(Climbed(ladders, r))
<1> DEFINE up == ClimbOf(ladders, r)
           A == Climbed(ladders, r)
           B == Climbed(ladders, up)
<1>1. up \in Standing(ladders) /\ \A f \in DOMAIN ladders : up[f] >= r[f]
  BY ClimbsStand
<1>2. IsFiniteSet(A) /\ IsFiniteSet(B)
  <2>1. A \subseteq RungsOf(ladders) /\ B \subseteq RungsOf(ladders) BY DEF Climbed
  <2> QED BY <2>1, FS_Subset
<1> HIDE DEF up
<1>3. \A p \in RungsOf(ladders) : /\ p[1] \in DOMAIN ladders /\ p[2] \in Nat
                                  /\ r[p[1]] \in Nat /\ up[p[1]] \in Nat
  BY <1>1 DEF RungsOf, Standing, IsLadder
<1>4. A \subseteq B
  BY <1>1, <1>3 DEF Climbed
<1>5. PICK f \in DOMAIN ladders : up[f] # r[f]
  <2>1. r = [f \in DOMAIN ladders |-> r[f]] BY DEF Standing
  <2>2. up = [f \in DOMAIN ladders |-> up[f]] BY <1>1 DEF Standing
  <2>3. up # r BY DEF up
  <2> QED BY <2>1, <2>2, <2>3
<1>6. up[f] \in Nat /\ r[f] \in Nat /\ up[f] \in DOMAIN ladders[f] /\ up[f] > r[f]
  BY <1>1, <1>5 DEF Standing
<1>7. <<f, up[f]>> \in RungsOf(ladders) BY <1>6 DEF RungsOf
<1>8. <<f, up[f]>> \in B /\ <<f, up[f]>> \notin A
  BY <1>6, <1>7 DEF Climbed
<1>9. A # B BY <1>8
<1>10. Cardinality(A) \in Nat /\ Cardinality(B) \in Nat BY <1>2, FS_CardinalityType
<1>11. Cardinality(A) <= Cardinality(B) /\ Cardinality(A) # Cardinality(B)
  BY <1>2, <1>4, <1>9, FS_Subset
<1> QED BY <1>10, <1>11 DEF up

\* A climb of as many rounds as there are rungs ends where no round moves.
LEMMA ClimbsEnd ==
  ASSUME NEW ladders, \A f \in DOMAIN ladders : IsLadder(ladders[f]),
         IsFiniteSet(RungsOf(ladders)),
         NEW n, n = 1 + Cardinality(RungsOf(ladders)), NEW h \in [0..n -> Standing(ladders)],
         \A i \in 1..n : h[i] = ClimbOf(ladders, h[i - 1])
  PROVE  h[n] = ClimbOf(ladders, h[n])
<1> DEFINE N == Cardinality(RungsOf(ladders))
           M(i) == Cardinality(Climbed(ladders, h[i]))
           Fixed(i) == h[i] = ClimbOf(ladders, h[i])
           T == {k \in Nat : k <= n /\ ~Fixed(k) /\ ~(M(k) \in Nat /\ M(k) >= k)}
<1>1. N \in Nat /\ n \in Nat /\ n = N + 1 BY FS_CardinalityType
<1>2. \A i \in 0..n : IsFiniteSet(Climbed(ladders, h[i])) /\ M(i) \in Nat /\ M(i) <= N
  <2> TAKE i \in 0..n
  <2>1. Climbed(ladders, h[i]) \subseteq RungsOf(ladders) BY DEF Climbed
  <2> QED BY <2>1, FS_Subset, FS_CardinalityType
<1>3. T = {}
  <2> SUFFICES ASSUME T # {} PROVE FALSE
    OBVIOUS
  <2>1. T \subseteq Nat OBVIOUS
  <2>2. PICK k \in T : \A j \in T : k <= j
    <3> HIDE DEF T
    <3> QED BY <2>1, Least
  <2>3. k # 0 /\ k \in 0..n /\ k - 1 \in 0..n /\ k - 1 \notin T
    BY <1>1, <1>2, <2>2
  <2>4. h[k] = ClimbOf(ladders, h[k - 1]) BY <2>3
  <2>5. ~Fixed(k - 1)
    <3>1. CASE Fixed(k - 1)
      <4>1. h[k] = h[k - 1] BY <2>4, <3>1
      <4>2. Fixed(k) BY <3>1, <4>1
      <4> QED BY <2>2, <4>2
    <3> QED BY <3>1
  <2>6. M(k - 1) >= k - 1 BY <2>3, <2>5
  <2>7. M(k) > M(k - 1)
    <3>1. h[k - 1] \in Standing(ladders) BY <2>3
    <3> QED BY <2>4, <2>5, <3>1, ClimbsGrow
  <2>8. M(k) \in Nat /\ M(k - 1) \in Nat BY <1>2, <2>3
  <2>9. M(k) >= k
    <3> HIDE DEF M
    <3> QED BY <2>3, <2>6, <2>7, <2>8
  <2> QED BY <2>2, <2>8, <2>9
<1>4. n \notin T BY <1>3
<1>5. M(n) \in Nat /\ M(n) <= N BY <1>1, <1>2
<1>6. Fixed(n)
  <2> HIDE DEF M, Fixed, N
  <2> QED BY <1>1, <1>4, <1>5
<1> QED BY <1>6

\* Fields that differ in their names of last resort are called differently.
LEMMA NamesEndApart ==
  ASSUME NEW ladders, IsFiniteSet(DOMAIN ladders),
         \A f \in DOMAIN ladders : IsLadder(ladders[f]),
         \A f, g \in DOMAIN ladders :
           ladders[f][Len(ladders[f])] = ladders[g][Len(ladders[g])] => f = g
  PROVE  \A f, g \in DOMAIN ladders : Distinguish(ladders)[f] = Distinguish(ladders)[g] => f = g
<1> DEFINE fields == DOMAIN ladders
           Climb(rungs) ==
             Tabled([f \in fields |->
               IF /\ rungs[f] < Len(ladders[f])
                  /\ \E g \in fields \ {f} : ladders[g][rungs[g]] = ladders[f][rungs[f]]
               THEN rungs[f] + 1 ELSE rungs[f]])
           n == 1 + Cardinality(UNION {{f} \X DOMAIN ladders[f] : f \in fields})
           start == [f \in fields |-> 1]
           Further(h) == [i \in 0..n |-> IF i = 0 THEN start ELSE Climb(h[i - 1])]
           nth == CHOOSE h : h = Further(h)
           X == Standing(ladders)
<1>1. Distinguish(ladders) = Tabled([f \in fields |-> ladders[f][nth[n][f]]])
  BY Zenon DEF Distinguish, Iterate
<1>2. \A r : Climb(r) = ClimbOf(ladders, r)
  BY TabledIsIt DEF ClimbOf
<1>3. n = 1 + Cardinality(RungsOf(ladders)) BY DEF RungsOf
<1>4. IsFiniteSet(RungsOf(ladders))
  <2> DEFINE Row == [f \in fields |-> {f} \X DOMAIN ladders[f]]
             rows == {Row[f] : f \in fields}
  <2>1. Row \in Surjection(fields, rows) BY DEF Surjection
  <2>2. IsFiniteSet(rows) BY <2>1, FS_Surjection
  <2>3. \A f \in fields : IsFiniteSet(Row[f])
    <3> TAKE f \in fields
    <3>1. IsFiniteSet(DOMAIN ladders[f]) BY FS_Interval DEF IsLadder
    <3>2. IsFiniteSet({f}) BY FS_Singleton
    <3> QED BY <3>1, <3>2, FS_Product
  <2>4. \A R \in rows : IsFiniteSet(R) BY <2>3
  <2>5. RungsOf(ladders) = UNION rows BY DEF RungsOf
  <2> HIDE DEF rows
  <2> QED BY <2>2, <2>4, <2>5, FS_UNION
<1>5. n \in Nat BY <1>3, <1>4, FS_CardinalityType
<1>6. start \in X BY DEF Standing, IsLadder
<1> HIDE DEF Climb, n, start, X
<1>7. \E h : h = Further(h)
  <2> DEFINE F == [r \in X |-> ClimbOf(ladders, r)]
  <2>1. F \in [X -> X] BY ClimbsStand DEF X
  <2>2. \A r \in X : F[r] = Climb(r) BY <1>2
  <2> HIDE DEF F
  <2>3. PICK h \in [0..n -> X] : Repeats(F, start, n, h)
    BY Zenon, <1>5, <1>6, <2>1, RepetitionsExist
  <2>4. \A i \in 0..n : i # 0 => h[i - 1] \in X BY <1>5
  <2>5. h = Further(h) BY <2>2, <2>3, <2>4 DEF Repeats
  <2> QED BY <2>5
<1>8. nth = Further(nth)
  <2> HIDE DEF Further
  <2> QED BY Zenon, <1>7
<1> HIDE DEF nth
<1>9. DOMAIN nth = 0..n /\ nth[0] = start /\ \A i \in 1..n : nth[i] = ClimbOf(ladders, nth[i - 1])
  BY <1>2, <1>5, <1>8
<1>10. \A i \in 0..n : nth[i] \in X
  <2> DEFINE T == {k \in Nat : k <= n /\ nth[k] \notin X}
  <2> SUFFICES ASSUME T # {} PROVE FALSE
    BY <1>5
  <2>1. T \subseteq Nat OBVIOUS
  <2>2. PICK k \in T : \A j \in T : k <= j
    <3> HIDE DEF T
    <3> QED BY <2>1, Least
  <2>3. k # 0 BY <1>6, <1>9, <2>2
  <2>4. k \in 1..n /\ k - 1 \in Nat /\ k - 1 <= n /\ k - 1 \notin T BY <1>5, <2>2, <2>3
  <2>5. nth[k - 1] \in X /\ nth[k] = ClimbOf(ladders, nth[k - 1]) BY <1>9, <2>4
  <2> QED BY <2>2, <2>5, ClimbsStand DEF X
<1>11. nth \in [0..n -> Standing(ladders)]
  BY <1>8, <1>9, <1>10 DEF X
<1>12. nth[n] = ClimbOf(ladders, nth[n])
  BY <1>3, <1>4, <1>9, <1>11, ClimbsEnd
<1> DEFINE r == nth[n]
<1>13. r \in Standing(ladders) BY <1>5, <1>11
<1>14. \A f \in fields : Distinguish(ladders)[f] = ladders[f][r[f]]
  BY <1>1, TabledIsIt
<1> HIDE DEF r
<1>15. \A f \in fields : r[f] \in Nat /\ r[f] <= Len(ladders[f]) /\ Len(ladders[f]) \in Nat
  BY <1>13 DEF Standing, IsLadder
<1>16. \A f \in fields : (\E g \in fields \ {f} : ladders[g][r[g]] = ladders[f][r[f]])
                         => r[f] = Len(ladders[f])
  <2> TAKE f \in fields
  <2> HAVE \E g \in fields \ {f} : ladders[g][r[g]] = ladders[f][r[f]]
  <2>1. r[f] = ClimbOf(ladders, r)[f] BY <1>12 DEF r
  <2>2. r[f] < Len(ladders[f]) => ClimbOf(ladders, r)[f] = r[f] + 1 BY DEF ClimbOf
  <2> QED BY <1>15, <2>1, <2>2
<1> QED BY <1>14, <1>16

\* Only so many names can be reached.
LEMMA LabelsAreFinite ==
  ASSUME NEW g, IsGraph(g), NEW node
  PROVE  IsFiniteSet(DOMAIN DownstreamLabels(g, node))
<1> DEFINE Names(n) == {c.name : c \in Consumers(g, n)}
           within == Tabled([d \in 0..Cardinality(DOMAIN g) |-> Reached(g, node, d)])
           At(d) == UNION {Names(n) : n \in within[d - 1]}
           depths == 1..Cardinality(DOMAIN g)
           In == [n \in DOMAIN g |-> DOMAIN Inputs(g, n)]
           ins == {In[n] : n \in DOMAIN g}
<1>1. DOMAIN DownstreamLabels(g, node) = UNION {At(d) : d \in depths}
  BY TabledIsIt DEF DownstreamLabels
<1>2. \A n : Names(n) \subseteq UNION ins
  BY DEF Consumers, Wires
<1> HIDE DEF Names, within
<1>3. DOMAIN DownstreamLabels(g, node) \subseteq UNION ins BY <1>1, <1>2
<1>4. IsFiniteSet(ins)
  <2>1. In \in Surjection(DOMAIN g, ins) BY DEF Surjection
  <2> QED BY <2>1, FS_Surjection DEF IsGraph
<1>5. \A I \in ins : IsFiniteSet(I) BY DEF IsGraph, IsNode, Inputs
<1>6. IsFiniteSet(UNION ins)
  <2> HIDE DEF ins
  <2> QED BY <1>4, <1>5, FS_UNION
<1> QED BY <1>3, <1>6, FS_Subset

LEMMA RepeatsGone ==
  ASSUME NEW list, IsFiniteSet(DOMAIN list)
  PROVE  /\ DOMAIN WithoutRepeats(list) = 1..Len(WithoutRepeats(list))
         /\ Len(WithoutRepeats(list)) \in Nat
         /\ \E S : WithoutRepeats(list) \in Seq(S)
<1> DEFINE firsts == {i \in DOMAIN list : \A j \in 1..(i - 1) : list[j] # list[i]}
           Rank(i) == Cardinality({j \in firsts : j <= i})
           Kept(k) == list[CHOOSE i \in firsts : Rank(i) = k]
           kept == [k \in 1..Cardinality(firsts) |-> Kept(k)]
<1>1. WithoutRepeats(list) = kept BY Zenon DEF WithoutRepeats
<1>2. Cardinality(firsts) \in Nat
  <2>1. firsts \subseteq DOMAIN list OBVIOUS
  <2> QED BY <2>1, FS_Subset, FS_CardinalityType
<1> HIDE DEF firsts, Kept
<1> DEFINE S == {Kept(k) : k \in 1..Cardinality(firsts)}
<1>3. kept \in Seq(S) BY <1>2
<1> HIDE DEF kept, S
<1> QED BY <1>1, <1>3

\* The names a field may go by are finitely many, and the last is of its id.
LEMMA LaddersEnd ==
  ASSUME NEW group, IsFiniteSet(group), \A c \in group : IsFiniteSet(DOMAIN c.labels),
         NEW first, NEW id
  PROVE  LET ladder == Alternatives(group, first, id)
         IN  IsLadder(ladder) /\ ladder[Len(ladder)].id = id
<1> DEFINE reached == MergedDownstream(group)
           told == {name \in DOMAIN reached : <<Tokens(name)>> # first.words}
           further == InOrder([name \in told |-> reached[name]])
           hops == IF Cardinality(told) < WiringHints THEN Cardinality(told) ELSE WiringHints
           Wired(n) == Label(first.stem, first.words \o [i \in 1..n |-> Tokens(further[i])],
                             first.mark, None)
           title == SharedTitle(group)
           byTitle == IF title = << >> THEN << >>
                      ELSE <<Label(first.stem, <<title>>, None, None)>>
           named == <<first>> \o [n \in 1..hops |-> Wired(n)] \o byTitle
           last == Label(first.stem, << >>, None, id)
<1>1. Alternatives(group, first, id) = Append(WithoutRepeats(named), last)
  BY Zenon DEF Alternatives
<1>2. IsFiniteSet(told)
  <2> DEFINE Of == [c \in group |-> DOMAIN c.labels]
             all == {Of[c] : c \in group}
  <2>1. Of \in Surjection(group, all) BY DEF Surjection
  <2>2. IsFiniteSet(all) BY <2>1, FS_Surjection
  <2>3. \A D \in all : IsFiniteSet(D) OBVIOUS
  <2>4. DOMAIN reached = UNION all BY DEF MergedDownstream
  <2>5. told \subseteq UNION all BY <2>4
  <2> HIDE DEF all, told
  <2> QED BY <2>2, <2>3, <2>5, FS_UNION, FS_Subset
<1>3. hops \in Nat
  <2> HIDE DEF told
  <2> QED BY <1>2, FS_CardinalityType DEF WiringHints
<1> HIDE DEF hops, Wired
<1> DEFINE S == {first} \cup {Wired(n) : n \in 1..hops}
                \cup {Label(first.stem, <<title>>, None, None)}
<1>4. named \in Seq(S)
  <2>1. <<first>> \in Seq(S) OBVIOUS
  <2>2. [n \in 1..hops |-> Wired(n)] \in Seq(S) BY <1>3
  <2>3. byTitle \in Seq(S)
    <3> DEFINE called == Label(first.stem, <<title>>, None, None)
    <3>1. called \in S OBVIOUS
    <3>2. byTitle = << >> \/ byTitle = <<called>> OBVIOUS
    <3> HIDE DEF S, byTitle, called
    <3>3. << >> \in Seq(S) OBVIOUS
    <3>4. <<called>> \in Seq(S) BY <3>1
    <3> QED BY <3>2, <3>3, <3>4
  <2> HIDE DEF S, byTitle
  <2> QED BY <2>1, <2>2, <2>3
<1> HIDE DEF named, S
<1>5. IsFiniteSet(DOMAIN named)
  <2>1. Len(named) \in Nat /\ DOMAIN named = 1..Len(named) BY <1>4
  <2>2. 1 \in Int /\ Len(named) \in Int BY <2>1
  <2>3. IsFiniteSet(1..Len(named)) BY Zenon, <2>2, FS_Interval
  <2> QED BY <2>1, <2>3
<1>6. PICK R : WithoutRepeats(named) \in Seq(R) BY <1>5, RepeatsGone
<1>7. last.id = id BY DEF Label
<1> HIDE DEF last
<1> DEFINE without == WithoutRepeats(named)
           ladder == Append(without, last)
<1>8. without \in Seq(R \cup {last}) BY <1>6
<1> HIDE DEF without
<1>9. /\ ladder \in Seq(R \cup {last}) /\ Len(ladder) = Len(without) + 1
      /\ ladder[Len(ladder)] = last
  BY <1>8
<1>10. Len(without) \in Nat BY <1>8
<1> HIDE DEF ladder
<1>11. IsLadder(ladder) BY <1>9, <1>10 DEF IsLadder
<1> QED BY <1>1, <1>7, <1>9, <1>11 DEF ladder, without

\* The fields of one reading are called differently.
LEMMA FieldsAreCalledApart ==
  ASSUME IInv
  PROVE  \A f, h \in FieldsFrom(graph, candidates).fields : f # h => f.label # h.label
<1> DEFINE all == ControlGroups(candidates)
           depths == Depths(graph, all)
           kept == all \ Rejected(depths)
           draft == DraftsOf(graph, depths, DOMAIN depths \ Rejected(depths))
           found == FieldsFrom(graph, candidates)
           ladders == [g \in kept |-> Alternatives(g, FirstLabel(graph, g, depths[g]), draft[g].id)]
           called == Distinguish(ladders)
<1>1. DOMAIN depths = all BY TabledIsIt DEF Depths
<1>2. /\ DOMAIN draft = kept
      /\ \A g \in kept : draft[g].id = [role |-> FirstMember(g).role, mark |-> MarkGiven(depths, g)]
  <2> DEFINE dimensions == {RoleOf(g) : g \in DOMAIN depths} \cap DimensionNames
  <2>1. draft = [g \in kept |-> Field(g, MarkGiven(depths, g), dimensions, DeclaredFrameRate(graph))]
    BY <1>1, TabledIsIt DEF DraftsOf, MarkGiven
  <2>2. \A g \in kept : draft[g] = Field(g, MarkGiven(depths, g), dimensions, DeclaredFrameRate(graph))
    <3> HIDE DEF draft, kept, depths
    <3> QED BY <2>1
  <2>3. DOMAIN draft = kept
    <3> HIDE DEF draft, kept, depths
    <3> QED BY <2>1
  <2>4. \A g \in kept :
          draft[g].id = [role |-> FirstMember(g).role, mark |-> MarkGiven(depths, g)]
    <3> TAKE g \in kept
    <3>1. draft[g] = Field(g, MarkGiven(depths, g), dimensions, DeclaredFrameRate(graph))
      BY <2>2
    <3> HIDE DEF draft, kept, depths, dimensions
    <3> QED BY <3>1 DEF Field
  <2> QED BY <2>3, <2>4
<1>3. found.fields = {[draft |-> draft[g], label |-> called[g]] : g \in kept}
  <2>1. found.fields = Named(graph, depths, draft) BY DEF FieldsFrom, FieldsAt
  <2> DEFINE tabled == Tabled([g \in DOMAIN draft |->
                         Alternatives(g, FirstLabel(graph, g, depths[g]), draft[g].id)])
  <2>2. Named(graph, depths, draft) = {[draft |-> draft[g], label |-> Distinguish(tabled)[g]] :
                                         g \in DOMAIN draft}
    BY Zenon DEF Named
  <2>3. tabled = ladders BY <1>2, TabledIsIt
  <2> HIDE DEF tabled, ladders, draft, kept, depths, found
  <2> QED BY <1>2, <2>1, <2>2, <2>3
<1>4. \A g \in all : g \subseteq candidates /\ g # {} BY GroupsOfCandidates
<1>5. \A c \in candidates : IsFiniteSet(DOMAIN c.labels)
  <2> TAKE c \in candidates
  <2>1. c.labels = LabelsOf(c)
    BY DEF IInv, CandidatesAreJudged, IsACandidate, Candidate
  <2> QED BY <2>1, LabelsAreFinite DEF IInv, LabelsOf
<1>6. \A g \in kept : IsLadder(ladders[g]) /\ ladders[g][Len(ladders[g])].id = draft[g].id
  <2> TAKE g \in kept
  <2>1. g \subseteq candidates BY <1>4
  <2>2. IsFiniteSet(g) BY <2>1, FS_Subset DEF IInv, CandidatesAreJudged
  <2>3. \A c \in g : IsFiniteSet(DOMAIN c.labels) BY <1>5, <2>1
  <2> DEFINE ladder == Alternatives(g, FirstLabel(graph, g, depths[g]), draft[g].id)
  <2>4. IsLadder(ladder) /\ ladder[Len(ladder)].id = draft[g].id
    <3> HIDE DEF draft, depths, kept
    <3> QED BY <2>2, <2>3, LaddersEnd
  <2>5. ladders[g] = ladder OBVIOUS
  <2> QED BY <2>4, <2>5
<1>7. IsFiniteSet(kept) BY FiniteGroups, FS_Subset
<1>8. \A g, h \in kept : draft[g].id = draft[h].id => g = h
  <2> TAKE g, h \in kept
  <2> HAVE draft[g].id = draft[h].id
  <2>1. FirstMember(g).role = FirstMember(h).role /\ MarkGiven(depths, g) = MarkGiven(depths, h)
    <3>1. [role |-> FirstMember(g).role, mark |-> MarkGiven(depths, g)]
            = [role |-> FirstMember(h).role, mark |-> MarkGiven(depths, h)]
      <4> HIDE DEF draft, kept, depths
      <4> QED BY Zenon, <1>2
    <3> QED BY <3>1
  <2>2. \A k \in {g, h} : RoleOf(k) = FirstMember(k).role
    <3> TAKE k \in {g, h}
    <3>1. k \in all OBVIOUS
    <3>2. FirstMember(k) \in k /\ \A c, d \in k : c.role = d.role
      BY <3>1, FirstOfAGroup, GroupsOfCandidates
    <3> QED BY <1>4, <3>1, <3>2 DEF RoleOf
  <2>3. g \in DOMAIN depths \ Rejected(depths) /\ h \in DOMAIN depths \ Rejected(depths)
    BY <1>1
  <2> QED BY <2>1, <2>2, <2>3, MarksTellApart
<1> DEFINE last(g) == ladders[g][Len(ladders[g])]
<1>9. \A g, h \in kept : last(g) = last(h) => g = h
  <2> HIDE DEF ladders, draft, kept
  <2> QED BY <1>6, <1>8
<1>10. DOMAIN ladders = kept OBVIOUS
<1> HIDE DEF ladders, draft, kept, found
<1>11. \A g, h \in kept : called[g] = called[h] => g = h
  BY <1>6, <1>7, <1>9, <1>10, NamesEndApart
<1> HIDE DEF called
<1> QED BY <1>3, <1>11 DEF found

\* A plan's fields are those found, or none.
FieldsAreFound == Done => plan.fields \subseteq FieldsFrom(graph, candidates).fields

LEMMA StepsKeepFound ==
  ASSUME IInv, FieldsAreFound, [Next]_vars
  PROVE  FieldsAreFound'
<1>1. CASE Consider
  <2>1. UNCHANGED plan /\ todo # {} BY <1>1 DEF Consider, Decided, Lock, Hold, SetAside,
                                            HasNoRole, Admit, Decide
  <2> QED BY <2>1 DEF IInv, AllIsReadFirst, FieldsAreFound, Done
<1>2. CASE Conclude
  <2>1. UNCHANGED <<graph, candidates>> BY <1>2 DEF Conclude
  <2>2. plan'.fields \subseteq FieldsFrom(graph, candidates).fields
    BY <1>2 DEF Conclude, Planned
  <2> QED BY <2>1, <2>2 DEF FieldsAreFound
<1>3. CASE \E g, how : Reread(g, how)
  BY <1>3 DEF Reread, Unread, FieldsAreFound, Done
<1>4. CASE UNCHANGED vars
  BY <1>4 DEF vars, FieldsAreFound, Done
<1> QED BY <1>1, <1>2, <1>3, <1>4 DEF Next, Renumber, Respell

\* No two fields of a plan are called the same, whatever the graph.
THEOREM LabelsAreApart == Spec => []LabelsTellApart
<1>1. Init => FieldsAreFound BY DEF Init, Unread, FieldsAreFound, Done
<1>2. Spec => []FieldsAreFound
  BY <1>1, StepsKeepFound, ReadingIsOfTheGraph, PTL DEF Spec
<1>3. IInv /\ FieldsAreFound => LabelsTellApart
  BY FieldsAreCalledApart DEF FieldsAreFound, LabelsTellApart
<1> QED BY <1>2, <1>3, ReadingIsOfTheGraph, PTL

(***************************************************************************)
(* One graph carried over to another: node for node the same class, inputs *)
(* and wires, under other numbers.                                         *)
(***************************************************************************)

Carries(g, h, pi) ==
  /\ pi \in Bijection(DOMAIN g, DOMAIN h)
  /\ \A n \in DOMAIN g :
       /\ Class(h, pi[n]) = Class(g, n)
       /\ DOMAIN Inputs(h, pi[n]) = DOMAIN Inputs(g, n)
       /\ Wires(h, pi[n]) = Wires(g, n)
       /\ \A name \in Wires(g, n) :
            LET v == Inputs(g, n)[name].v
            IN  Inputs(h, pi[n])[name].v = [node |-> pi[v.node], slot |-> v.slot]

LEMMA NodesCarried ==
  ASSUME NEW g, NEW h, NEW pi, Carries(g, h, pi)
  PROVE  /\ \A n \in DOMAIN g : pi[n] \in DOMAIN h
         /\ \A n, m \in DOMAIN g : pi[n] = pi[m] => n = m
         /\ \A k \in DOMAIN h : \E n \in DOMAIN g : pi[n] = k
BY DEF Carries, Bijection, Injection, Surjection, IsInjective

LEMMA UpstreamCarried ==
  ASSUME NEW g, NEW h, NEW pi, Carries(g, h, pi), NEW n \in DOMAIN g
  PROVE  Upstream(h, pi[n]) = {[name |-> e.name, node |-> pi[e.node]] : e \in Upstream(g, n)}
<1> DEFINE At(w) == Inputs(g, n)[w].v.node
<1>1. Wires(h, pi[n]) = Wires(g, n) BY DEF Carries
<1>2. \A w \in Wires(g, n) : Inputs(h, pi[n])[w].v.node = pi[At(w)]
  <2> TAKE w \in Wires(g, n)
  <2> DEFINE v == Inputs(g, n)[w].v
  <2>1. Inputs(h, pi[n])[w].v = [node |-> pi[v.node], slot |-> v.slot] BY Zenon DEF Carries
  <2> HIDE DEF v
  <2>2. Inputs(h, pi[n])[w].v.node = pi[v.node] BY <2>1
  <2> QED BY <2>2 DEF v
<1>3. Upstream(g, n) = {[name |-> w, node |-> At(w)] : w \in Wires(g, n)}
  BY DEF Upstream
<1> HIDE DEF At
<1>4. Upstream(h, pi[n]) = {[name |-> w, node |-> pi[At(w)]] : w \in Wires(g, n)}
  BY <1>1, <1>2 DEF Upstream
<1>5. \A e \in Upstream(g, n) : \E w \in Wires(g, n) : e.name = w /\ e.node = At(w) BY <1>3
<1>6. \A w \in Wires(g, n) : \E e \in Upstream(g, n) : e.name = w /\ e.node = At(w)
  <2> TAKE w \in Wires(g, n)
  <2>1. [name |-> w, node |-> At(w)] \in Upstream(g, n) BY <1>3
  <2> QED BY <2>1
<1> QED BY <1>4, <1>5, <1>6

LEMMA ConsumersCarried ==
  ASSUME NEW g, IsGraph(g), NEW h, NEW pi, Carries(g, h, pi), NEW n \in DOMAIN g
  PROVE  Consumers(h, pi[n]) = {[node |-> pi[e.node], name |-> e.name] : e \in Consumers(g, n)}
<1>1. \A x \in DOMAIN g : \A w \in Wires(g, x) :
        Inputs(h, pi[x])[w].v = [node |-> pi[n], slot |-> 0]
          <=> Inputs(g, x)[w].v = [node |-> n, slot |-> 0]
  <2> TAKE x \in DOMAIN g
  <2> TAKE w \in Wires(g, x)
  <2> DEFINE v == Inputs(g, x)[w].v
  <2>1. v = [node |-> v.node, slot |-> v.slot] /\ v.node \in DOMAIN g
    BY DEF Wires, IsGraph, IsNode, IsValue, Inputs
  <2>2. Inputs(h, pi[x])[w].v = [node |-> pi[v.node], slot |-> v.slot]
    BY DEF Carries
  <2> HIDE DEF v
  <2>3. [node |-> pi[v.node], slot |-> v.slot] = [node |-> pi[n], slot |-> 0]
          <=> pi[v.node] = pi[n] /\ v.slot = 0
    OBVIOUS
  <2>4. [node |-> v.node, slot |-> v.slot] = [node |-> n, slot |-> 0]
          <=> v.node = n /\ v.slot = 0
    OBVIOUS
  <2>5. pi[v.node] = pi[n] <=> v.node = n BY <2>1, NodesCarried
  <2> QED BY <2>1, <2>2, <2>3, <2>4, <2>5 DEF v
<1>2. \A x \in DOMAIN g : Wires(h, pi[x]) = Wires(g, x) BY DEF Carries
<1>3. \A c : c \in Consumers(g, n) <=>
               \E x \in DOMAIN g : \E w \in Wires(g, x) :
                 /\ Inputs(g, x)[w].v = [node |-> n, slot |-> 0]
                 /\ c = [node |-> x, name |-> w]
  BY DEF Consumers
<1>4. \A c : c \in Consumers(h, pi[n]) <=>
               \E x \in DOMAIN h : \E w \in Wires(h, x) :
                 /\ Inputs(h, x)[w].v = [node |-> pi[n], slot |-> 0]
                 /\ c = [node |-> x, name |-> w]
  BY DEF Consumers
<1>5. \A c \in Consumers(g, n) : [node |-> pi[c.node], name |-> c.name] \in Consumers(h, pi[n])
  <2> TAKE c \in Consumers(g, n)
  <2>1. PICK x \in DOMAIN g : \E w \in Wires(g, x) :
               /\ Inputs(g, x)[w].v = [node |-> n, slot |-> 0]
               /\ c = [node |-> x, name |-> w]
    BY <1>3
  <2>2. PICK w \in Wires(g, x) : /\ Inputs(g, x)[w].v = [node |-> n, slot |-> 0]
                                 /\ c = [node |-> x, name |-> w]
    BY <2>1
  <2>3. pi[x] \in DOMAIN h /\ w \in Wires(h, pi[x])
        /\ Inputs(h, pi[x])[w].v = [node |-> pi[n], slot |-> 0]
    BY <1>1, <1>2, <2>2, NodesCarried
  <2>4. c.node = x /\ c.name = w BY <2>2
  <2> QED BY <1>4, <2>3, <2>4
<1>6. \A d \in Consumers(h, pi[n]) :
        \E c \in Consumers(g, n) : d = [node |-> pi[c.node], name |-> c.name]
  <2> TAKE d \in Consumers(h, pi[n])
  <2>1. PICK y \in DOMAIN h : \E w \in Wires(h, y) :
               /\ Inputs(h, y)[w].v = [node |-> pi[n], slot |-> 0]
               /\ d = [node |-> y, name |-> w]
    BY <1>4
  <2>2. PICK w \in Wires(h, y) : /\ Inputs(h, y)[w].v = [node |-> pi[n], slot |-> 0]
                                 /\ d = [node |-> y, name |-> w]
    BY <2>1
  <2>3. PICK x \in DOMAIN g : pi[x] = y BY NodesCarried
  <2>4. w \in Wires(g, x) /\ Inputs(g, x)[w].v = [node |-> n, slot |-> 0]
    BY <1>1, <1>2, <2>2, <2>3
  <2>5. [node |-> x, name |-> w] \in Consumers(g, n) BY <1>3, <2>4
  <2> QED BY <2>2, <2>3, <2>5
<1> QED BY <1>5, <1>6

\* What a node is wired into and out of does not depend on numbers.
LEMMA UpCarried ==
  ASSUME NEW g, NEW h, NEW pi, Carries(g, h, pi), NEW A, NEW B,
         \A n \in DOMAIN g : B[pi[n]] = A[n], NEW n \in DOMAIN g, IsGraph(g)
  PROVE  UpOne(h, B)[pi[n]] = UpOne(g, A)[n]
<1> DEFINE Part(f, S, e) == <<e.name, Class(f, e.node), S[e.node]>>
           Image(e) == [name |-> e.name, node |-> pi[e.node]]
<1>1. UpOne(g, A)[n] = {Part(g, A, e) : e \in Upstream(g, n)} BY DEF UpOne
<1>2. UpOne(h, B)[pi[n]] = {Part(h, B, e) : e \in Upstream(h, pi[n])}
  BY NodesCarried DEF UpOne
<1>3. Upstream(h, pi[n]) = {Image(e) : e \in Upstream(g, n)} BY UpstreamCarried
<1>4. \A e \in Upstream(g, n) : Part(h, B, Image(e)) = Part(g, A, e)
  BY WiredNodes DEF Carries
<1> HIDE DEF Part, Image
<1>5. \A e \in Upstream(g, n) : Image(e) \in Upstream(h, pi[n]) BY <1>3
<1>6. \A d \in Upstream(h, pi[n]) : \E e \in Upstream(g, n) : d = Image(e) BY <1>3
<1> QED BY <1>1, <1>2, <1>4, <1>5, <1>6

LEMMA DownCarried ==
  ASSUME NEW g, NEW h, NEW pi, Carries(g, h, pi), NEW A, NEW B,
         \A n \in DOMAIN g : B[pi[n]] = A[n], NEW n \in DOMAIN g, IsGraph(g)
  PROVE  DownOne(h, B)[pi[n]] = DownOne(g, A)[n]
<1> DEFINE C == Consumers(g, n)
           D == Consumers(h, pi[n])
           Image(e) == [node |-> pi[e.node], name |-> e.name]
           a == [e \in C |-> PartOf(g, A, e)]
           b == [e \in D |-> PartOf(h, B, e)]
           pair == [e \in C |-> Image(e)]
<1>1. DownOne(g, A)[n] = {<<p, Cardinality(Alike(g, A, n, p))>> : p \in {PartOf(g, A, e) : e \in C}}
  BY DEF DownOne
<1>2. DownOne(h, B)[pi[n]]
        = {<<p, Cardinality(Alike(h, B, pi[n], p))>> : p \in {PartOf(h, B, e) : e \in D}}
  BY NodesCarried DEF DownOne
<1>3. D = {Image(e) : e \in C} BY ConsumersCarried
<1>4. \A e \in C : PartOf(h, B, Image(e)) = PartOf(g, A, e)
  BY WiredNodes DEF Carries, PartOf
<1>5. \A e, d \in C : Image(e) = Image(d) => e = d
  <2> TAKE e, d \in C
  <2> HAVE Image(e) = Image(d)
  <2>1. pi[e.node] = pi[d.node] /\ e.name = d.name OBVIOUS
  <2>2. e.node = d.node BY <2>1, WiredNodes, NodesCarried
  <2>3. \A c \in C : c = [node |-> c.node, name |-> c.name] BY DEF Consumers
  <2> HIDE DEF C, Image
  <2> QED BY <2>1, <2>2, <2>3
<1>6. \A p : /\ Alike(g, A, n, p) = OfKind(C, a, p)
             /\ Alike(h, B, pi[n], p) = OfKind(D, b, p)
  BY DEF Alike, OfKind
<1>7. \A e \in C : Image(e) \in D /\ pair[e] = Image(e) /\ b[Image(e)] = a[e]
  BY <1>3, <1>4
<1>8. \A d \in D : \E e \in C : d = Image(e) BY <1>3
<1>9. DOMAIN pair = C OBVIOUS
<1>10. pair \in [C -> D] BY <1>7
<1> HIDE DEF Image, pair, D, C, a, b
<1>11. pair \in Bijection(C, D)
  BY <1>5, <1>7, <1>8, <1>10 DEF Bijection, Injection, Surjection, IsInjective
<1>12. IsFiniteSet(C) BY WiredNodes DEF C
<1>13. \A e \in C : b[pair[e]] = a[e] BY <1>7
<1>14. \A p : Cardinality(OfKind(C, a, p)) = Cardinality(OfKind(D, b, p))
  BY <1>11, <1>12, <1>13, PairsCountAlike
<1>15. {PartOf(g, A, e) : e \in C} = {PartOf(h, B, e) : e \in D}
  BY <1>4, <1>7, <1>8
<1>16. \A p : Cardinality(Alike(g, A, n, p)) = Cardinality(Alike(h, B, pi[n], p))
  BY <1>6, <1>14
<1> QED BY <1>1, <1>2, <1>15, <1>16

LEMMA ShapesCarried ==
  ASSUME NEW way \in {"up", "down"}, NEW g, IsGraph(g), NEW h, NEW pi, Carries(g, h, pi),
         NEW depth \in Nat, NEW n \in DOMAIN g
  PROVE  Shapes(way, h, depth)[pi[n]] = Shapes(way, g, depth)[n]
<1> DEFINE Same(d) == \A k \in DOMAIN g : Shapes(way, h, d)[pi[k]] = Shapes(way, g, d)[k]
           T == {d \in Nat : ~Same(d)}
<1> SUFFICES ASSUME T # {} PROVE FALSE
  OBVIOUS
<1>1. T \subseteq Nat OBVIOUS
<1>2. PICK d \in T : \A j \in T : d <= j
  <2> HIDE DEF T
  <2> QED BY <1>1, Least
<1>3. Same(0)
  <2>1. Shapes(way, g, 0) = Bare(g) /\ Shapes(way, h, 0) = Bare(h) BY ShapesGrow
  <2>2. \A k \in DOMAIN g : Bare(h)[pi[k]] = Bare(g)[k] BY NodesCarried DEF Bare
  <2> QED BY <2>1, <2>2
<1>4. \A j \in Nat : Same(j) => Same(j + 1)
  <2> TAKE j \in Nat
  <2> HAVE Same(j)
  <2>1. /\ Shapes(way, g, j + 1) = OneFurther(way, g, Shapes(way, g, j))
        /\ Shapes(way, h, j + 1) = OneFurther(way, h, Shapes(way, h, j))
    BY ShapesGrow
  <2>2. \A k \in DOMAIN g : OneFurther(way, h, Shapes(way, h, j))[pi[k]]
                              = OneFurther(way, g, Shapes(way, g, j))[k]
    BY UpCarried, DownCarried DEF OneFurther
  <2> QED BY <2>1, <2>2
<1> HIDE DEF Same
<1>5. d \in Nat /\ ~Same(d) /\ \A j \in Nat : ~Same(j) => d <= j BY <1>2
<1>6. d # 0 BY <1>3, <1>5
<1>7. PICK j \in Nat : d = j + 1
  <2>1. d - 1 \in Nat /\ d = (d - 1) + 1 BY <1>5, <1>6
  <2> QED BY <2>1
<1>8. ~Same(j + 1) BY <1>5, <1>7
<1>9. ~Same(j) BY <1>4, <1>8
<1>10. ~(d <= j) BY <1>5, <1>7
<1> QED BY <1>5, <1>9, <1>10

LEMMA MarksCarried ==
  ASSUME NEW g, IsGraph(g), NEW h, NEW pi, Carries(g, h, pi), NEW c, NEW d,
         c.node \in DOMAIN g, d.node = pi[c.node], d.input = c.input, NEW depth \in Nat
  PROVE  Mark(h, d, depth) = Mark(g, c, depth)
<1>1. /\ UpShapes(h, depth)[d.node] = UpShapes(g, depth)[c.node]
      /\ DownShapes(h, depth)[d.node] = DownShapes(g, depth)[c.node]
  BY ShapesCarried DEF Shapes
<1>2. Class(h, d.node) = Class(g, c.node) BY DEF Carries
<1> QED BY <1>1, <1>2 DEF Mark, Fingerprint

(***************************************************************************)
(* The names a node's output reaches, carried over.                        *)
(***************************************************************************)

Beyond(g, S) == S \cup {c.node : c \in UNION {Consumers(g, n) : n \in S}}
IsAReach(g, node, n, r) ==
  r = [i \in 0..n |-> IF i = 0 THEN {node} ELSE Beyond(g, r[i - 1])]

LEMMA ReachedIsAReach ==
  ASSUME NEW g, NEW node \in DOMAIN g, NEW n \in Nat
  PROVE  \E r : /\ IsAReach(g, node, n, r) /\ Reached(g, node, n) = r[n]
                /\ \A i \in 0..n : r[i] \subseteq DOMAIN g
<1> DEFINE X == SUBSET DOMAIN g
           F == [S \in X |-> Beyond(g, S)]
           Further(r) == [i \in 0..n |-> IF i = 0 THEN {node} ELSE Beyond(g, r[i - 1])]
           nth == CHOOSE r : r = Further(r)
<1>1. Reached(g, node, n) = nth[n]
  BY Zenon DEF Reached, Iterate, Beyond
<1>2. \A k : \A e \in Consumers(g, k) : e.node \in DOMAIN g BY DEF Consumers
<1>3. \A S \in X : Beyond(g, S) \in X BY <1>2 DEF Beyond
<1>4. F \in [X -> X] BY <1>3
<1>5. {node} \in X OBVIOUS
<1>6. \A S \in X : F[S] = Beyond(g, S) OBVIOUS
<1> HIDE DEF F, X
<1>7. PICK r \in [0..n -> X] : Repeats(F, {node}, n, r) BY <1>4, <1>5, RepetitionsExist
<1>8. r = Further(r)
  <2>1. r = [i \in 0..n |-> IF i = 0 THEN {node} ELSE F[r[i - 1]]] BY <1>7 DEF Repeats
  <2>2. \A i \in 0..n : i # 0 => r[i - 1] \in X BY <1>7
  <2> QED BY <1>6, <2>1, <2>2
<1>9. nth = Further(nth)
  <2> HIDE DEF Further
  <2> QED BY Zenon, <1>8
<1>10. IsAReach(g, node, n, nth) BY Zenon, <1>9 DEF IsAReach
<1> HIDE DEF nth
<1>11. \A i \in 0..n : nth[i] \in X
  <2> DEFINE T == {i \in Nat : i <= n /\ nth[i] \notin X}
  <2> SUFFICES ASSUME T # {} PROVE FALSE
    OBVIOUS
  <2>1. T \subseteq Nat OBVIOUS
  <2>2. PICK k \in T : \A j \in T : k <= j
    <3> HIDE DEF T
    <3> QED BY <2>1, Least
  <2>3. nth[k] = IF k = 0 THEN {node} ELSE Beyond(g, nth[k - 1])
    <3>1. k \in 0..n BY <2>2
    <3> HIDE DEF T
    <3> QED BY <1>10, <3>1 DEF IsAReach
  <2>4. CASE k = 0 BY <1>5, <2>2, <2>3, <2>4
  <2>5. CASE k # 0
    <3>1. k - 1 \in Nat /\ k - 1 <= n /\ k - 1 \notin T BY <2>2, <2>5
    <3>2. nth[k - 1] \in X BY <3>1
    <3> QED BY <1>3, <2>2, <2>3, <2>5, <3>2
  <2> QED BY <2>4, <2>5
<1> QED BY <1>1, <1>10, <1>11 DEF X

ImageOf(pi, S) == {pi[x] : x \in S}

LEMMA BeyondCarried ==
  ASSUME NEW g, IsGraph(g), NEW h, NEW pi, Carries(g, h, pi), NEW S, S \subseteq DOMAIN g
  PROVE  Beyond(h, ImageOf(pi, S)) = ImageOf(pi, Beyond(g, S))
<1>1. \A n \in S : Consumers(h, pi[n])
                     = {[node |-> pi[e.node], name |-> e.name] : e \in Consumers(g, n)}
  BY ConsumersCarried
<1>2. \A n \in S : {e.node : e \in Consumers(h, pi[n])} = {pi[e.node] : e \in Consumers(g, n)}
  <2> TAKE n \in S
  <2> DEFINE Image(e) == [node |-> pi[e.node], name |-> e.name]
  <2>1. \A e : Image(e).node = pi[e.node] OBVIOUS
  <2>2. Consumers(h, pi[n]) = {Image(e) : e \in Consumers(g, n)} BY <1>1
  <2> HIDE DEF Image
  <2> QED BY <2>1, <2>2
<1>3. \A x : x \in Beyond(h, ImageOf(pi, S)) <=>
               \/ \E n \in S : x = pi[n]
               \/ \E n \in S : x \in {e.node : e \in Consumers(h, pi[n])}
  BY DEF Beyond, ImageOf
<1>4. \A x : x \in ImageOf(pi, Beyond(g, S)) <=>
               \/ \E n \in S : x = pi[n]
               \/ \E n \in S : x \in {pi[e.node] : e \in Consumers(g, n)}
  BY DEF Beyond, ImageOf
<1> QED BY <1>2, <1>3, <1>4

LEMMA ReachCarried ==
  ASSUME NEW g, IsGraph(g), NEW h, NEW pi, Carries(g, h, pi), NEW node \in DOMAIN g, NEW n \in Nat
  PROVE  /\ Reached(h, pi[node], n) = ImageOf(pi, Reached(g, node, n))
         /\ Reached(g, node, n) \subseteq DOMAIN g
<1>1. PICK r : /\ IsAReach(g, node, n, r) /\ Reached(g, node, n) = r[n]
               /\ \A i \in 0..n : r[i] \subseteq DOMAIN g
  BY ReachedIsAReach
<1>2. pi[node] \in DOMAIN h BY NodesCarried
<1>3. PICK s : IsAReach(h, pi[node], n, s) /\ Reached(h, pi[node], n) = s[n]
  BY <1>2, ReachedIsAReach
<1> DEFINE T == {i \in Nat : i <= n /\ s[i] # ImageOf(pi, r[i])}
<1>4. T = {}
  <2> SUFFICES ASSUME T # {} PROVE FALSE
    OBVIOUS
  <2>1. T \subseteq Nat OBVIOUS
  <2>2. PICK k \in T : \A j \in T : k <= j
    <3> HIDE DEF T
    <3> QED BY <2>1, Least
  <2>0. k \in 0..n BY <2>2
  <2>3. r[k] = IF k = 0 THEN {node} ELSE Beyond(g, r[k - 1])
    <3> HIDE DEF T
    <3> QED BY <1>1, <2>0 DEF IsAReach
  <2>4. s[k] = IF k = 0 THEN {pi[node]} ELSE Beyond(h, s[k - 1])
    <3> HIDE DEF T
    <3> QED BY <1>3, <2>0 DEF IsAReach
  <2>5. CASE k = 0
    <3>1. ImageOf(pi, {node}) = {pi[node]} BY DEF ImageOf
    <3> QED BY <2>2, <2>3, <2>4, <2>5, <3>1
  <2>6. CASE k # 0
    <3>1. k - 1 \in Nat /\ k - 1 <= n /\ k - 1 \notin T BY <2>2, <2>6
    <3>2. s[k - 1] = ImageOf(pi, r[k - 1]) /\ r[k - 1] \subseteq DOMAIN g BY <1>1, <3>1
    <3>3. Beyond(h, ImageOf(pi, r[k - 1])) = ImageOf(pi, Beyond(g, r[k - 1]))
      BY <3>2, BeyondCarried
    <3> QED BY <2>2, <2>3, <2>4, <2>6, <3>2, <3>3
  <2> QED BY <2>5, <2>6
<1> QED BY <1>1, <1>3, <1>4

LEMMA SizeCarried ==
  ASSUME NEW g, IsGraph(g), NEW h, NEW pi, Carries(g, h, pi)
  PROVE  Cardinality(DOMAIN h) = Cardinality(DOMAIN g)
<1>1. IsFiniteSet(DOMAIN g) /\ ExistsBijection(DOMAIN g, DOMAIN h)
  BY DEF Carries, IsGraph, ExistsBijection
<1> QED BY <1>1, FS_Bijection

NamesAt(g, within, d) == UNION {{c.name : c \in Consumers(g, n)} : n \in within[d - 1]}
FirstAt(g, within, name, d) ==
  name \in NamesAt(g, within, d) /\ \A e \in 1..(d - 1) : name \notin NamesAt(g, within, e)
LabelsBy(g, size, within) ==
  [name \in UNION {NamesAt(g, within, d) : d \in 1..size} |->
     CHOOSE d \in 1..size : FirstAt(g, within, name, d)]

LEMMA LabelsAreBy ==
  ASSUME NEW g, NEW node
  PROVE  DownstreamLabels(g, node)
           = LabelsBy(g, Cardinality(DOMAIN g),
                      [d \in 0..Cardinality(DOMAIN g) |-> Reached(g, node, d)])
<1> DEFINE N == Cardinality(DOMAIN g)
           Names(n) == {d.name : d \in Consumers(g, n)}
           within == Tabled([d \in 0..N |-> Reached(g, node, d)])
           At(d) == UNION {Names(n) : n \in within[d - 1]}
           First(name, d) == name \in At(d) /\ \A e \in 1..(d - 1) : name \notin At(e)
           labels == [name \in UNION {At(d) : d \in 1..N} |->
                        CHOOSE d \in 1..N : First(name, d)]
<1>1. DownstreamLabels(g, node) = labels
  BY TabledIsIt DEF DownstreamLabels
<1>2. within = [d \in 0..N |-> Reached(g, node, d)] BY TabledIsIt
<1>3. labels = LabelsBy(g, N, within)
  BY Zenon DEF LabelsBy, FirstAt, NamesAt
<1> HIDE DEF within, N, labels
<1>4. DownstreamLabels(g, node) = LabelsBy(g, N, [d \in 0..N |-> Reached(g, node, d)])
  BY <1>1, <1>2, <1>3
<1> QED BY <1>4 DEF N

\* What a node's output is used for does not depend on numbers.
LEMMA LabelsCarried ==
  ASSUME NEW g, IsGraph(g), NEW h, NEW pi, Carries(g, h, pi), NEW node \in DOMAIN g
  PROVE  DownstreamLabels(h, pi[node]) = DownstreamLabels(g, node)
<1> DEFINE N == Cardinality(DOMAIN g)
           v == [d \in 0..N |-> Reached(g, node, d)]
           w == [d \in 0..N |-> Reached(h, pi[node], d)]
<1>1. N \in Nat BY FS_CardinalityType DEF IsGraph
<1>2. DownstreamLabels(g, node) = LabelsBy(g, N, v) BY LabelsAreBy
<1>3. DownstreamLabels(h, pi[node]) = LabelsBy(h, N, w) BY LabelsAreBy, SizeCarried
<1>4. \A n \in DOMAIN g : {c.name : c \in Consumers(h, pi[n])} = {c.name : c \in Consumers(g, n)}
  <2> TAKE n \in DOMAIN g
  <2> DEFINE Image(e) == [node |-> pi[e.node], name |-> e.name]
  <2>1. \A e : Image(e).name = e.name OBVIOUS
  <2>2. Consumers(h, pi[n]) = {Image(e) : e \in Consumers(g, n)} BY ConsumersCarried
  <2> HIDE DEF Image
  <2>3. \A e \in Consumers(g, n) : Image(e) \in Consumers(h, pi[n]) BY <2>2
  <2>4. \A c \in Consumers(h, pi[n]) : \E e \in Consumers(g, n) : c.name = e.name BY <2>1, <2>2
  <2>5. \A e \in Consumers(g, n) : \E c \in Consumers(h, pi[n]) : c.name = e.name BY <2>1, <2>3
  <2> QED BY <2>4, <2>5
<1>5. \A d \in 1..N : NamesAt(h, w, d) = NamesAt(g, v, d)
  <2> TAKE d \in 1..N
  <2>1. d - 1 \in 0..N /\ d - 1 \in Nat BY <1>1
  <2>2. w[d - 1] = ImageOf(pi, v[d - 1]) /\ v[d - 1] \subseteq DOMAIN g
    BY <2>1, ReachCarried
  <2> HIDE DEF v, w
  <2> DEFINE Names(f, n) == {c.name : c \in Consumers(f, n)}
  <2>3. \A n \in v[d - 1] : Names(h, pi[n]) = Names(g, n) BY <1>4, <2>2
  <2>4. /\ NamesAt(h, w, d) = UNION {Names(h, n) : n \in w[d - 1]}
        /\ NamesAt(g, v, d) = UNION {Names(g, n) : n \in v[d - 1]}
    BY Zenon DEF NamesAt
  <2> HIDE DEF Names
  <2>5. {Names(h, n) : n \in w[d - 1]} = {Names(g, n) : n \in v[d - 1]}
    BY <2>2, <2>3 DEF ImageOf
  <2> QED BY <2>4, <2>5
<1> HIDE DEF N, v, w
<1>6. {NamesAt(h, w, d) : d \in 1..N} = {NamesAt(g, v, d) : d \in 1..N} BY <1>5
<1>7. \A d \in 1..N : \A name : FirstAt(h, w, name, d) <=> FirstAt(g, v, name, d)
  <2> TAKE d \in 1..N
  <2> TAKE name
  <2>1. \A e \in 1..(d - 1) : e \in 1..N BY <1>1
  <2> QED BY <1>5, <2>1 DEF FirstAt
<1>8. \A name : (CHOOSE d \in 1..N : FirstAt(h, w, name, d))
                  = (CHOOSE d \in 1..N : FirstAt(g, v, name, d))
  BY <1>7
<1>9. LabelsBy(h, N, w) = LabelsBy(g, N, v)
  BY <1>6, <1>8 DEF LabelsBy
<1> QED BY <1>2, <1>3, <1>9

(***************************************************************************)
(* Two sets of candidates that match, and the ids of their fields.         *)
(***************************************************************************)

MarkIn(g, depths, G) == IF depths[G] = 0 THEN {} ELSE GroupMark(g, G, depths[G])

\* The ids of the fields made of some candidates, and what each is bound to.
IdsOf(g, all) ==
  LET depths == Depths(g, ControlGroups(all)) IN
  {<<[role |-> RoleOf(G), mark |-> MarkIn(g, depths, G)], {Target(c) : c \in G}>> :
     G \in ControlGroups(all) \ Rejected(depths)}

NoneKept(g, all) == Rejected(Depths(g, ControlGroups(all))) # {}

\* Each candidate has its match, of the same role, where its node has gone.
Matches(g, h, pi, C, phi) ==
  /\ IsGraph(g) /\ Carries(g, h, pi)
  /\ IsFiniteSet(C)
  /\ \A c \in C : /\ c.node \in DOMAIN g /\ phi[c].node = pi[c.node]
                  /\ phi[c].input = c.input /\ phi[c].role = c.role
  /\ \A c, d \in C : phi[c] = phi[d] => c = d

Images(phi, S) == {ImageOf(phi, G) : G \in S}

LEMMA ImagesAreApart ==
  ASSUME NEW g, NEW h, NEW pi, NEW C, NEW phi, Matches(g, h, pi, C, phi),
         NEW G, NEW H, G \subseteq C, H \subseteq C, ImageOf(phi, G) = ImageOf(phi, H)
  PROVE  G = H
<1>1. \A c, d \in C : phi[c] = phi[d] => c = d BY DEF Matches
<1>2. \A c \in G : \E d \in H : phi[c] = phi[d]
  <2> TAKE c \in G
  <2>1. phi[c] \in ImageOf(phi, H) BY DEF ImageOf
  <2> QED BY <2>1 DEF ImageOf
<1>3. \A c \in H : \E d \in G : phi[c] = phi[d]
  <2> TAKE c \in H
  <2>1. phi[c] \in ImageOf(phi, G) BY DEF ImageOf
  <2> QED BY <2>1 DEF ImageOf
<1> QED BY <1>1, <1>2, <1>3

LEMMA ImagesAreAsMany ==
  ASSUME NEW g, NEW h, NEW pi, NEW C, NEW phi, Matches(g, h, pi, C, phi),
         NEW S, S \subseteq SUBSET C
  PROVE  IsFiniteSet(S) /\ Cardinality(Images(phi, S)) = Cardinality(S)
<1> DEFINE f == [G \in S |-> ImageOf(phi, G)]
           T == Images(phi, S)
<1>1. IsFiniteSet(S)
  <2>1. IsFiniteSet(SUBSET C) BY FS_SUBSET DEF Matches
  <2> QED BY <2>1, FS_Subset
<1>2. \A G \in S : f[G] \in T BY DEF Images
<1>3. \A G, H \in S : f[G] = f[H] => G = H BY ImagesAreApart
<1>4. \A t \in T : \E G \in S : f[G] = t BY DEF Images
<1>5. f \in [S -> T] BY <1>2
<1> HIDE DEF f, T
<1>6. f \in Bijection(S, T) BY <1>3, <1>4, <1>5 DEF Bijection, Injection, Surjection, IsInjective
<1>7. ExistsBijection(S, T) BY <1>6 DEF ExistsBijection
<1>8. Cardinality(S) = Cardinality(T) BY <1>1, <1>7, FS_Bijection
<1> QED BY <1>1, <1>8 DEF T

LEMMA GroupMarksMatch ==
  ASSUME NEW g, NEW h, NEW pi, NEW C, NEW phi, Matches(g, h, pi, C, phi),
         NEW G, G \subseteq C, NEW depth \in Nat
  PROVE  GroupMark(h, ImageOf(phi, G), depth) = GroupMark(g, G, depth)
<1>1. \A c \in G : Mark(h, phi[c], depth) = Mark(g, c, depth)
  <2> TAKE c \in G
  <2>1. /\ IsGraph(g) /\ Carries(g, h, pi) /\ c.node \in DOMAIN g
        /\ phi[c].node = pi[c.node] /\ phi[c].input = c.input
    BY DEF Matches
  <2> QED BY <2>1, MarksCarried
<1> QED BY <1>1 DEF GroupMark, ImageOf

LEMMA ApartMatch ==
  ASSUME NEW g, NEW h, NEW pi, NEW C, NEW phi, Matches(g, h, pi, C, phi),
         NEW S, S \subseteq SUBSET C, NEW depth \in Nat
  PROVE  Apart(h, Images(phi, S), depth) <=> Apart(g, S, depth)
<1>1. \A G \in S : GroupMark(h, ImageOf(phi, G), depth) = GroupMark(g, G, depth)
  BY GroupMarksMatch
<1>2. {GroupMark(h, H, depth) : H \in Images(phi, S)} = {GroupMark(g, G, depth) : G \in S}
  <2>1. \A G \in S : ImageOf(phi, G) \in Images(phi, S) BY DEF Images
  <2>2. \A H \in Images(phi, S) : \E G \in S : H = ImageOf(phi, G) BY DEF Images
  <2>3. \A H \in Images(phi, S) : \E G \in S :
          GroupMark(h, H, depth) = GroupMark(g, G, depth)
    BY <1>1, <2>2
  <2>4. \A G \in S : \E H \in Images(phi, S) :
          GroupMark(h, H, depth) = GroupMark(g, G, depth)
    BY <1>1, <2>1
  <2> QED BY <2>3, <2>4
<1>3. Cardinality(Images(phi, S)) = Cardinality(S) BY ImagesAreAsMany
<1> QED BY Zenon, <1>2, <1>3 DEF Apart

LEMMA SameAtDepthMatch ==
  ASSUME NEW g, NEW h, NEW pi, NEW C, NEW phi, Matches(g, h, pi, C, phi),
         NEW S, S \subseteq SUBSET C, NEW depth \in Nat \ {0}
  PROVE  SameAtDepth(h, Images(phi, S), depth) <=> SameAtDepth(g, S, depth)
<1>1. \A c \in C : \A d \in Nat : Mark(h, phi[c], d) = Mark(g, c, d)
  <2> TAKE c \in C
  <2> TAKE d \in Nat
  <2>1. /\ IsGraph(g) /\ Carries(g, h, pi) /\ c.node \in DOMAIN g
        /\ phi[c].node = pi[c.node] /\ phi[c].input = c.input
    BY DEF Matches
  <2> QED BY <2>1, MarksCarried
<1>2. depth - 1 \in Nat OBVIOUS
<1>3. \A c \in UNION S : c \in C /\ phi[c] \in UNION Images(phi, S) BY DEF Images, ImageOf
<1>4. \A d \in UNION Images(phi, S) : \E c \in UNION S : d = phi[c] BY DEF Images, ImageOf
<1> QED BY <1>1, <1>2, <1>3, <1>4 DEF SameAtDepth

LEMMA SeparatingDepthsMatch ==
  ASSUME NEW g, NEW h, NEW pi, NEW C, NEW phi, Matches(g, h, pi, C, phi),
         NEW S, S \subseteq SUBSET C
  PROVE  SeparatingDepth(h, Images(phi, S)) = SeparatingDepth(g, S)
<1> DEFINE N == Cardinality(DOMAIN g)
           Found(f, R) == {d \in (FingerprintDepth + 1)..Cardinality(DOMAIN f) : Apart(f, R, d)}
           Stops(f, R, d) == \E e \in (FingerprintDepth + 2)..(d - 1) : SameAtDepth(f, R, e)
           Lowest(T) == CHOOSE d \in T : \A e \in T : d <= e
           Depth(f, R) == IF Found(f, R) = {} \/ Stops(f, R, Lowest(Found(f, R))) THEN None
                          ELSE Lowest(Found(f, R))
           R == Images(phi, S)
<1>1. N \in Nat /\ Cardinality(DOMAIN h) = N
  BY SizeCarried, FS_CardinalityType DEF Matches, IsGraph
<1>2. SeparatingDepth(g, S) = Depth(g, S) BY Zenon DEF SeparatingDepth
<1>3. SeparatingDepth(h, R) = Depth(h, R) BY Zenon DEF SeparatingDepth
<1>4. \A d \in (FingerprintDepth + 1)..N : Apart(h, R, d) <=> Apart(g, S, d)
  <2> TAKE d \in (FingerprintDepth + 1)..N
  <2>1. d \in Nat BY <1>1 DEF FingerprintDepth
  <2> QED BY <2>1, ApartMatch
<1>5. Found(h, R) = Found(g, S)
  <2> HIDE DEF R, N
  <2> QED BY <1>1, <1>4 DEF N
<1>6. \A d : Found(g, S) # {} /\ d \in Found(g, S) => (Stops(h, R, d) <=> Stops(g, S, d))
  <2> TAKE d
  <2> HAVE Found(g, S) # {} /\ d \in Found(g, S)
  <2>1. d \in Nat BY <1>1 DEF FingerprintDepth
  <2>2. \A e \in (FingerprintDepth + 2)..(d - 1) : e \in Nat \ {0} BY <2>1 DEF FingerprintDepth
  <2> QED BY <2>2, SameAtDepthMatch
<1>7. Found(g, S) # {} => Lowest(Found(g, S)) \in Found(g, S)
  <2>1. Found(g, S) \subseteq Nat BY <1>1 DEF FingerprintDepth
  <2> HIDE DEF Found
  <2> QED BY <2>1, Least
<1> HIDE DEF Found, Stops, Lowest, R
<1>8. Depth(h, R) = Depth(g, S) BY <1>5, <1>6, <1>7
<1> QED BY <1>2, <1>3, <1>8 DEF R

LEMMA DepthsMatch ==
  ASSUME NEW g, NEW h, NEW pi, NEW C, NEW phi, Matches(g, h, pi, C, phi),
         NEW S, S \subseteq SUBSET C, NEW G \in S
  PROVE  DepthOf(h, ImageOf(phi, G), Images(phi, S)) = DepthOf(g, G, S)
<1> DEFINE near == Colliding(g, G, S)
           far == Colliding(h, ImageOf(phi, G), Images(phi, S))
<1>1. \A H \in S : GroupMark(h, ImageOf(phi, H), FingerprintDepth) = GroupMark(g, H, FingerprintDepth)
  <2>1. FingerprintDepth \in Nat BY DEF FingerprintDepth
  <2> QED BY <2>1, GroupMarksMatch
<1>2. far = Images(phi, near) BY <1>1 DEF Colliding, Images
<1>3. near \subseteq S BY DEF Colliding
<1>4. far = {ImageOf(phi, G)} <=> near = {G}
  <2>1. G \in near BY DEF Colliding
  <2>2. near = {G} => far = {ImageOf(phi, G)} BY <1>2 DEF Images
  <2>3. ASSUME far = {ImageOf(phi, G)}, NEW H \in near PROVE H = G
    <3>1. ImageOf(phi, H) = ImageOf(phi, G) BY <1>2, <2>3 DEF Images
    <3> QED BY <1>3, <3>1, ImagesAreApart
  <2> QED BY <2>1, <2>2, <2>3
<1>5. SeparatingDepth(h, far) = SeparatingDepth(g, near)
  BY <1>2, <1>3, SeparatingDepthsMatch
<1> HIDE DEF near, far
<1>6. DepthOf(g, G, S) = IF near = {G} THEN FingerprintDepth ELSE SeparatingDepth(g, near)
  BY DEF DepthOf, near
<1>7. DepthOf(h, ImageOf(phi, G), Images(phi, S))
        = IF far = {ImageOf(phi, G)} THEN FingerprintDepth ELSE SeparatingDepth(h, far)
  BY DEF DepthOf, far
<1> QED BY <1>4, <1>5, <1>6, <1>7

OfRole(S, G) == {H \in S : RoleOf(H) = RoleOf(G)}
DepthIn(g, S, G) == IF OfRole(S, G) = {G} THEN 0 ELSE DepthOf(g, G, OfRole(S, G))

LEMMA DepthsAre ==
  ASSUME NEW g, NEW S
  PROVE  Depths(g, S) = [G \in S |-> DepthIn(g, S, G)]
BY TabledIsIt DEF Depths, DepthIn, OfRole

LEMMA DepthsAreNumbers ==
  ASSUME NEW g, IsGraph(g), NEW S, NEW G \in S
  PROVE  DepthIn(g, S, G) = None \/ DepthIn(g, S, G) \in Nat
<1>1. IsFiniteSet(DOMAIN g) BY DEF IsGraph
<1>2. \A R : SeparatingDepth(g, R) = None \/ SeparatingDepth(g, R) \in Nat
  BY <1>1, SeparatingDepths
<1>3. DepthOf(g, G, OfRole(S, G)) \in {FingerprintDepth, SeparatingDepth(g, Colliding(g, G, OfRole(S, G)))}
  BY DEF DepthOf
<1> QED BY <1>2, <1>3 DEF DepthIn, FingerprintDepth

MovedBy(pi, t) == [node |-> pi[t.node], input |-> t.input]

LEMMA RolesMatch ==
  ASSUME NEW g, NEW h, NEW pi, NEW C, NEW phi, Matches(g, h, pi, C, phi),
         NEW G \in ControlGroups(C)
  PROVE  RoleOf(ImageOf(phi, G)) = RoleOf(G)
<1>1. G \subseteq C /\ G # {} /\ \A c, d \in G : c.role = d.role BY GroupsOfCandidates
<1>2. (CHOOSE c \in G : TRUE) \in G BY <1>1
<1>3. ImageOf(phi, G) # {} BY <1>1 DEF ImageOf
<1>4. (CHOOSE c \in ImageOf(phi, G) : TRUE) \in ImageOf(phi, G) BY <1>3
<1>5. PICK c \in G : (CHOOSE d \in ImageOf(phi, G) : TRUE) = phi[c] BY <1>4 DEF ImageOf
<1>6. phi[c].role = c.role BY <1>1 DEF Matches
<1>7. c.role = (CHOOSE e \in G : TRUE).role BY <1>1, <1>2
<1> QED BY <1>5, <1>6, <1>7 DEF RoleOf

LEMMA DepthsInMatch ==
  ASSUME NEW g, NEW h, NEW pi, NEW C, NEW phi, Matches(g, h, pi, C, phi),
         NEW S, S = ControlGroups(C), NEW G \in S
  PROVE  DepthIn(h, Images(phi, S), ImageOf(phi, G)) = DepthIn(g, S, G)
<1>1. \A H \in S : H \subseteq C BY GroupsOfCandidates
<1>2. \A H \in S : RoleOf(ImageOf(phi, H)) = RoleOf(H) BY RolesMatch
<1>3. OfRole(Images(phi, S), ImageOf(phi, G)) = Images(phi, OfRole(S, G))
  BY <1>2 DEF OfRole, Images
<1>4. OfRole(S, G) \subseteq S /\ G \in OfRole(S, G) BY DEF OfRole
<1>5. OfRole(S, G) \subseteq SUBSET C BY <1>1, <1>4
<1>6. Images(phi, OfRole(S, G)) = {ImageOf(phi, G)} <=> OfRole(S, G) = {G}
  <2>1. OfRole(S, G) = {G} => Images(phi, OfRole(S, G)) = {ImageOf(phi, G)} BY DEF Images
  <2>2. ASSUME Images(phi, OfRole(S, G)) = {ImageOf(phi, G)}, NEW H \in OfRole(S, G)
        PROVE  H = G
    <3>1. ImageOf(phi, H) = ImageOf(phi, G) BY <2>2 DEF Images
    <3> QED BY <1>1, <1>4, <3>1, ImagesAreApart
  <2> QED BY <1>4, <2>1, <2>2
<1>7. DepthOf(h, ImageOf(phi, G), Images(phi, OfRole(S, G))) = DepthOf(g, G, OfRole(S, G))
  BY <1>4, <1>5, DepthsMatch
<1> QED BY <1>3, <1>6, <1>7 DEF DepthIn

\* What matches goes by the same ids, bound to where the nodes have gone.
LEMMA IdsMatch ==
  ASSUME NEW g, NEW h, NEW pi, NEW C, NEW phi, Matches(g, h, pi, C, phi),
         NEW D, ControlGroups(D) = Images(phi, ControlGroups(C))
  PROVE  /\ NoneKept(h, D) <=> NoneKept(g, C)
         /\ IdsOf(h, D) = {<<p[1], {MovedBy(pi, t) : t \in p[2]}>> : p \in IdsOf(g, C)}
<1> DEFINE S == ControlGroups(C)
           R == ControlGroups(D)
           d == Depths(g, S)
           e == Depths(h, R)
           im(G) == ImageOf(phi, G)
<1>1. d = [G \in S |-> DepthIn(g, S, G)] /\ e = [G \in R |-> DepthIn(h, R, G)]
  BY DepthsAre
<1>2. R = {im(G) : G \in S} BY DEF Images
<1>3. \A G \in S : e[im(G)] = d[G] /\ im(G) \in R
  <2> TAKE G \in S
  <2>1. DepthIn(h, Images(phi, S), im(G)) = DepthIn(g, S, G) BY DepthsInMatch
  <2>2. im(G) \in R BY <1>2
  <2> HIDE DEF S, R, im, d, e
  <2>3. Images(phi, S) = R BY DEF S, R
  <2> QED BY <1>1, <2>1, <2>2, <2>3
<1>4. \A G \in S : RoleOf(im(G)) = RoleOf(G) BY RolesMatch
<1>5. \A G \in S : d[G] = None \/ d[G] \in Nat
  <2>1. IsGraph(g) BY DEF Matches
  <2> HIDE DEF S, d
  <2> QED BY <1>1, <2>1, DepthsAreNumbers
<1>6. DOMAIN d = S /\ DOMAIN e = R BY <1>1
<1>7. \A G \in S : G \subseteq C BY GroupsOfCandidates
<1>8. \A G \in S, k \in Nat : GroupMark(h, im(G), k) = GroupMark(g, G, k)
  BY <1>7, GroupMarksMatch
<1>9. \A G \in S : {Target(c) : c \in im(G)} = {MovedBy(pi, t) : t \in {Target(c) : c \in G}}
  <2> TAKE G \in S
  <2>1. \A c \in G : Target(phi[c]) = MovedBy(pi, Target(c))
    <3> TAKE c \in G
    <3>1. phi[c].node = pi[c.node] /\ phi[c].input = c.input BY <1>7 DEF Matches
    <3> QED BY <3>1 DEF Target, MovedBy
  <2> QED BY <2>1 DEF ImageOf
<1> HIDE DEF S, R, d, e, im
<1>10. \A G \in S : im(G) \in Rejected(e) <=> G \in Rejected(d)
  <2> TAKE G \in S
  <2>1. G \in Rejected(d) <=> \E H \in S : RoleOf(H) = RoleOf(G) /\ d[H] = None
    BY <1>6 DEF Rejected
  <2>2. im(G) \in Rejected(e) <=> \E H \in R : RoleOf(H) = RoleOf(im(G)) /\ e[H] = None
    BY <1>3, <1>6 DEF Rejected
  <2> QED BY <1>2, <1>3, <1>4, <2>1, <2>2
<1>11. Rejected(d) \subseteq S /\ Rejected(e) \subseteq R BY <1>6 DEF Rejected
<1>12. Rejected(e) # {} <=> Rejected(d) # {} BY <1>2, <1>3, <1>10, <1>11
<1>13. \A G \in S \ Rejected(d) : MarkIn(h, e, im(G)) = MarkIn(g, d, G)
  <2> TAKE G \in S \ Rejected(d)
  <2>1. d[G] # None BY <1>6 DEF Rejected
  <2>2. d[G] \in Nat /\ e[im(G)] = d[G] BY <1>3, <1>5, <2>1
  <2> QED BY <1>8, <2>2 DEF MarkIn
<1> DEFINE IdOf(G) == <<[role |-> RoleOf(G), mark |-> MarkIn(g, d, G)], {Target(c) : c \in G}>>
           IdIn(H) == <<[role |-> RoleOf(H), mark |-> MarkIn(h, e, H)], {Target(c) : c \in H}>>
           Moving(p) == <<p[1], {MovedBy(pi, t) : t \in p[2]}>>
<1>14. IdsOf(g, C) = {IdOf(G) : G \in S \ Rejected(d)} BY DEF IdsOf, S, d
<1>15. IdsOf(h, D) = {IdIn(H) : H \in R \ Rejected(e)} BY DEF IdsOf, R, e
<1>16. \A G \in S \ Rejected(d) : IdIn(im(G)) = Moving(IdOf(G))
  BY <1>4, <1>9, <1>13
<1> HIDE DEF IdOf, IdIn, Moving
<1>17. \A H \in R \ Rejected(e) : \E G \in S \ Rejected(d) : H = im(G) BY <1>2, <1>10
<1>18. \A G \in S \ Rejected(d) : im(G) \in R \ Rejected(e) BY <1>3, <1>10
<1>19. {IdIn(H) : H \in R \ Rejected(e)} = {Moving(p) : p \in {IdOf(G) : G \in S \ Rejected(d)}}
  <2>1. \A H \in R \ Rejected(e) : \E G \in S \ Rejected(d) : IdIn(H) = Moving(IdOf(G))
    BY <1>16, <1>17
  <2>2. \A G \in S \ Rejected(d) : \E H \in R \ Rejected(e) : IdIn(H) = Moving(IdOf(G))
    BY <1>16, <1>18
  <2> QED BY <2>1, <2>2
<1>20. IdsOf(h, D) = {Moving(p) : p \in IdsOf(g, C)} BY <1>14, <1>15, <1>19
<1>21. NoneKept(h, D) <=> NoneKept(g, C) BY <1>12 DEF NoneKept, S, R, d, e
<1> QED BY <1>20, <1>21 DEF Moving

(***************************************************************************)
(* Candidates of one key and declaration each are grouped alike.           *)
(***************************************************************************)

JoinsOne(c, d) ==
  /\ IsNumber(c) /\ IsNumber(d)
  /\ c.role = d.role /\ c.value.v = d.value.v
  /\ c.value.kind = "int" /\ d.value.kind = "float"
  /\ DeclaredAlike(c, d)

\* What stands together for two groups stands for any of their members.
LEMMA JoinsIsForAll ==
  ASSUME NEW all, NEW K \in KeyGroups(all), NEW L \in KeyGroups(all)
  PROVE  Joins(K, L) <=> \A c \in K, d \in L : JoinsOne(c, d)
<1> DEFINE c0 == CHOOSE c \in K : TRUE
           d0 == CHOOSE d \in L : TRUE
<1>1. c0 \in K /\ d0 \in L BY KeyGroupsOf
<1>2. Joins(K, L) <=> /\ IsNumber(c0) /\ IsNumber(d0)
                      /\ c0.role = d0.role /\ c0.value.v = d0.value.v
                      /\ c0.value.kind = "int" /\ d0.value.kind = "float"
                      /\ SameKindOfControl(K, L)
  BY DEF Joins
<1> HIDE DEF c0, d0
<1>3. \A c \in K : c.role = c0.role /\ c.value = c0.value /\ IsNumber(c) = IsNumber(c0)
  BY <1>1, KeyGroupsOf, KeysTell
<1>4. \A d \in L : d.role = d0.role /\ d.value = d0.value /\ IsNumber(d) = IsNumber(d0)
  BY <1>1, KeyGroupsOf, KeysTell
<1> QED BY <1>1, <1>2, <1>3, <1>4 DEF JoinsOne, SameKindOfControl

KeepsKeys(C, phi) ==
  \A c \in C : /\ Key(phi[c]) = Key(c)
               /\ phi[c].numeric = c.numeric /\ phi[c].class = c.class /\ phi[c].input = c.input

LEMMA GroupsMatch ==
  ASSUME NEW C, NEW phi, KeepsKeys(C, phi)
  PROVE  ControlGroups(ImageOf(phi, C)) = Images(phi, ControlGroups(C))
<1> DEFINE D == ImageOf(phi, C)
           K == KeyGroups(C)
           L == KeyGroups(D)
           im(G) == ImageOf(phi, G)
<1>1. \A c \in C : phi[c] \in D /\ Key(phi[c]) = Key(c) BY DEF KeepsKeys, ImageOf
<1>2. \A d \in D : \E c \in C : d = phi[c] BY DEF ImageOf
<1>3. \A key : im({c \in C : Key(c) = key}) = {d \in D : Key(d) = key}
  BY <1>1, <1>2 DEF ImageOf
<1>4. {Key(d) : d \in D} = {Key(c) : c \in C} BY <1>1, <1>2
<1>5. L = {im(k) : k \in K}
  <2> DEFINE Of(key) == {c \in C : Key(c) = key}
             To(key) == {d \in D : Key(d) = key}
             keys == {Key(c) : c \in C}
  <2>1. K = {Of(key) : key \in keys} BY DEF KeyGroups
  <2>2. L = {To(key) : key \in keys} BY <1>4 DEF KeyGroups
  <2>3. \A key : im(Of(key)) = To(key) BY <1>3
  <2> HIDE DEF Of, To, keys, K, L, im
  <2> QED BY <2>1, <2>2, <2>3
<1>6. \A k \in K : k \subseteq C BY KeyGroupsOf
<1>7. \A c, d \in C : JoinsOne(phi[c], phi[d]) <=> JoinsOne(c, d)
  <2> TAKE c, d \in C
  <2>1. \A e \in {c, d} : /\ Key(phi[e]) = Key(e) /\ phi[e].numeric = e.numeric
                          /\ phi[e].class = e.class /\ phi[e].input = e.input
    BY DEF KeepsKeys
  <2>2. \A e \in {c, d} : /\ phi[e].role = e.role /\ phi[e].value = e.value
                          /\ IsNumber(phi[e]) = IsNumber(e)
    BY <2>1, KeysTell
  <2> QED BY <2>1, <2>2 DEF JoinsOne, DeclaredAlike
<1>8. \A k, l \in K : Joins(im(k), im(l)) <=> Joins(k, l)
  <2> TAKE k, l \in K
  <2>1. im(k) \in L /\ im(l) \in L BY <1>5
  <2>2. Joins(im(k), im(l)) <=> \A c \in im(k), d \in im(l) : JoinsOne(c, d)
    BY <2>1, JoinsIsForAll
  <2>3. Joins(k, l) <=> \A c \in k, d \in l : JoinsOne(c, d) BY JoinsIsForAll
  <2>4. (\A c \in im(k), d \in im(l) : JoinsOne(c, d)) <=> \A c \in k, d \in l : JoinsOne(phi[c], phi[d])
    BY DEF ImageOf
  <2> QED BY <1>6, <1>7, <2>2, <2>3, <2>4
<1> DEFINE With(k) == k \cup UNION {h \in K : Joins(k, h)}
           Within(k) == k \cup UNION {h \in L : Joins(k, h)}
           Roots == {k \in K : ~ \E h \in K : Joins(h, k)}
           Tops == {k \in L : ~ \E h \in L : Joins(h, k)}
<1>9. ControlGroups(C) = {With(k) : k \in Roots}
  BY Zenon DEF ControlGroups, OneNumberHoweverWritten
<1>10. ControlGroups(D) = {Within(k) : k \in Tops}
  BY Zenon DEF ControlGroups, OneNumberHoweverWritten
<1> HIDE DEF K, L
<1>11. \A k \in K : im(With(k)) = Within(im(k))
  <2> TAKE k \in K
  <2>1. {h \in L : Joins(im(k), h)} = {im(h) : h \in {h \in K : Joins(k, h)}}
    <3> HIDE DEF im
    <3> QED BY <1>5, <1>8
  <2>2. \A S, T : im(S \cup UNION T) = im(S) \cup UNION {im(t) : t \in T}
    BY DEF ImageOf
  <2> HIDE DEF im
  <2> QED BY <2>1, <2>2
<1>12. Tops = {im(k) : k \in Roots}
  <2> HIDE DEF im
  <2> QED BY <1>5, <1>8
<1> HIDE DEF With, Within, Roots, Tops, im
<1>13. \A k \in Roots : k \in K BY DEF Roots
<1>14. {Within(k) : k \in Tops} = {im(G) : G \in {With(k) : k \in Roots}}
  <2>1. \A t \in Tops : \E k \in Roots : Within(t) = im(With(k)) BY <1>11, <1>12, <1>13
  <2>2. \A k \in Roots : \E t \in Tops : Within(t) = im(With(k)) BY <1>11, <1>12, <1>13
  <2> QED BY <2>1, <2>2
<1> QED BY <1>9, <1>10, <1>14 DEF im, Images

(***************************************************************************)
(* A reading, told by the graph and the contract alone.                    *)
(***************************************************************************)

JudgedAt(g, k, t) == Judged(g, k, t.node, t.input)
LabelsAt(g, t) == DownstreamLabels(g, t.node)
HasRole(g, k, t) == RoleFor(t.input, JudgedAt(g, k, t).verdict, LabelsAt(g, t)) # None
IsAdmitted(g, k, t) == Offered(JudgedAt(g, k, t), LabelsAt(g, t)) /\ HasRole(g, k, t)
IsHeld(g, k, t) ==
  \/ JudgedAt(g, k, t).verdict.exposure = "uncertain"
  \/ Offered(JudgedAt(g, k, t), LabelsAt(g, t)) /\ ~HasRole(g, k, t)

CandidateBy(g, t, judged, labels, numeric) ==
  [node |-> t.node, input |-> t.input, value |-> Inputs(g, t.node)[t.input],
   class |-> Class(g, t.node), verdict |-> judged.verdict,
   role |-> RoleFor(t.input, judged.verdict, labels),
   nearest |-> NearestLabel(labels), labels |-> labels,
   title |-> g[t.node].title, options |-> judged.options, numeric |-> numeric]

NumericAt(g, k, t) ==
  DeclaredNumber(k, Class(g, t.node), t.input, Inputs(g, t.node), JudgedAt(g, k, t).verdict)
CandidateAt(g, k, t) ==
  CandidateBy(g, t, JudgedAt(g, k, t), LabelsAt(g, t), NumericAt(g, k, t))

AdmittedIn(g, k) == {t \in LiteralInputs(g) : IsAdmitted(g, k, t)}
CandidatesOf(g, k) == {CandidateAt(g, k, t) : t \in AdmittedIn(g, k)}

(***************************************************************************)
(* What judges an input does not know the nodes' numbers.                  *)
(***************************************************************************)

LEMMA ContractAlike ==
  ASSUME NEW g, NEW h, NEW pi, Carries(g, h, pi), NEW k, NEW x \in DOMAIN g, NEW name,
         HeldAbove(name, Inputs(h, pi[x])) = HeldAbove(name, Inputs(g, x))
  PROVE  ChosenShapeContract(k, Class(h, pi[x]), name, Inputs(h, pi[x]))
           = ChosenShapeContract(k, Class(g, x), name, Inputs(g, x))
<1>1. Class(h, pi[x]) = Class(g, x) BY DEF Carries
<1> QED BY Zenon, <1>1 DEF ChosenShapeContract

LEMMA WiredPromptAlike ==
  ASSUME NEW g, IsGraph(g), NEW h, NEW pi, Carries(g, h, pi), NEW x \in DOMAIN g, NEW name, NEW value
  PROVE  WiredPrompt(h, pi[x], name, value) = WiredPrompt(g, x, name, value)
<1> DEFINE Image(e) == [node |-> pi[e.node], name |-> e.name]
<1>1. DOMAIN Inputs(h, pi[x]) = DOMAIN Inputs(g, x) BY DEF Carries
<1>2. Consumers(h, pi[x]) = {Image(e) : e \in Consumers(g, x)} BY ConsumersCarried
<1>3. \A e : Image(e).name = e.name OBVIOUS
<1> HIDE DEF Image
<1>4. (\E c \in Consumers(h, pi[x]) : Classify(c.name, value).prompt)
        <=> \E c \in Consumers(g, x) : Classify(c.name, value).prompt
  BY <1>2, <1>3
<1> QED BY <1>1, <1>4 DEF WiredPrompt

LEMMA SettledAlike ==
  ASSUME NEW g, IsGraph(g), NEW h, NEW pi, Carries(g, h, pi), NEW x \in DOMAIN g,
         NEW asked, NEW name, NEW value, NEW shaped, NEW named, NEW options
  PROVE  Settled(h, asked, pi[x], name, value, shaped, named, options)
           = Settled(g, asked, x, name, value, shaped, named, options)
<1>1. Class(h, pi[x]) = Class(g, x) BY DEF Carries
<1>2. WiredPrompt(h, pi[x], name, value) = WiredPrompt(g, x, name, value) BY WiredPromptAlike
<1>3. RulesWithoutAList(h, asked, pi[x], name, value) = RulesWithoutAList(g, asked, x, name, value)
  BY Zenon, <1>1, <1>2 DEF RulesWithoutAList
<1>4. WithoutAList(h, asked, pi[x], name, value) = WithoutAList(g, asked, x, name, value)
  BY Zenon, <1>3 DEF WithoutAList
<1> QED BY Zenon, <1>1, <1>4 DEF Settled

LEMMA JudgedAlike ==
  ASSUME NEW g, IsGraph(g), NEW h, NEW pi, Carries(g, h, pi), NEW k, NEW x \in DOMAIN g, NEW name,
         HeldAbove(name, Inputs(h, pi[x])) = HeldAbove(name, Inputs(g, x)),
         Inputs(h, pi[x])[name] = Inputs(g, x)[name]
  PROVE  Judged(h, k, pi[x], name) = Judged(g, k, x, name)
<1> DEFINE asked == ChosenShapeContract(k, Class(g, x), name, Inputs(g, x))
           again == ChosenShapeContract(k, Class(h, pi[x]), name, Inputs(h, pi[x]))
           value == Inputs(g, x)[name]
           shaped == StructuralChoice(ShapesFor(asked, Class(g, x), name), value)
           named == Classify(name, value)
           options == OptionsFor(asked, Class(g, x), name)
<1>1. Class(h, pi[x]) = Class(g, x) BY DEF Carries
<1>2. again = asked BY ContractAlike
<1>3. Judged(g, k, x, name) = Settled(g, asked, x, name, value, shaped, named, options)
  BY Zenon DEF Judged, JudgedUnder
<1>4. Judged(h, k, pi[x], name)
        = Settled(h, again, pi[x], name, Inputs(h, pi[x])[name],
                  StructuralChoice(ShapesFor(again, Class(h, pi[x]), name), Inputs(h, pi[x])[name]),
                  Classify(name, Inputs(h, pi[x])[name]), OptionsFor(again, Class(h, pi[x]), name))
  BY Zenon DEF Judged, JudgedUnder
<1> HIDE DEF asked, again
<1>5. Judged(h, k, pi[x], name) = Settled(h, asked, pi[x], name, value, shaped, named, options)
  BY Zenon, <1>1, <1>2, <1>4
<1> HIDE DEF value, shaped, named, options
<1>6. Settled(h, asked, pi[x], name, value, shaped, named, options)
        = Settled(g, asked, x, name, value, shaped, named, options)
  BY SettledAlike
<1> QED BY <1>3, <1>5, <1>6

ReviewIn(g, k) ==
  (\E t \in LiteralInputs(g) : IsHeld(g, k, t)) \/ NoneKept(g, CandidatesOf(g, k))
IdsIn(g, k) == IF ReviewIn(g, k) THEN {} ELSE IdsOf(g, CandidatesOf(g, k))

LEMMA Literals ==
  ASSUME NEW g, NEW t \in LiteralInputs(g)
  PROVE  /\ t = [node |-> t.node, input |-> t.input]
         /\ t.node \in DOMAIN g /\ t.input \in DOMAIN Inputs(g, t.node)
         /\ IsLiteral(Inputs(g, t.node)[t.input])
BY DEF LiteralInputs

LEMMA CandidatesAt ==
  ASSUME NEW g, NEW k, NEW t
  PROVE  LET c == CandidateAt(g, k, t)
         IN  /\ c.node = t.node /\ c.input = t.input
             /\ c.value = Inputs(g, t.node)[t.input] /\ c.class = Class(g, t.node)
             /\ c.verdict = JudgedAt(g, k, t).verdict /\ c.options = JudgedAt(g, k, t).options
             /\ c.role = RoleFor(t.input, JudgedAt(g, k, t).verdict, LabelsAt(g, t))
             /\ c.numeric = NumericAt(g, k, t)
             /\ Target(c) = [node |-> t.node, input |-> t.input]
BY DEF CandidateAt, CandidateBy, Target

LEMMA OfItsTarget ==
  ASSUME NEW g, NEW k, NEW c \in CandidatesOf(g, k)
  PROVE  /\ Target(c) \in LiteralInputs(g) /\ IsAdmitted(g, k, Target(c))
         /\ c = CandidateAt(g, k, Target(c))
<1>1. PICK t \in LiteralInputs(g) : IsAdmitted(g, k, t) /\ c = CandidateAt(g, k, t)
  BY DEF CandidatesOf, AdmittedIn
<1>2. Target(c) = t BY <1>1, Literals, CandidatesAt
<1> QED BY <1>1, <1>2

\* Every input is judged in one graph as it is in the other.
AlikeReadings(g, h, pi, k) ==
  /\ IsGraph(g) /\ Carries(g, h, pi)
  /\ \A t \in LiteralInputs(g) :
       /\ MovedBy(pi, t) \in LiteralInputs(h)
       /\ IsAdmitted(h, k, MovedBy(pi, t)) <=> IsAdmitted(g, k, t)
       /\ IsHeld(h, k, MovedBy(pi, t)) <=> IsHeld(g, k, t)
       /\ IsAdmitted(g, k, t)
            => CandidateAt(h, k, MovedBy(pi, t)).role = CandidateAt(g, k, t).role
  /\ \A s \in LiteralInputs(h) : \E t \in LiteralInputs(g) : s = MovedBy(pi, t)

Again(g, h, pi, k) == [c \in CandidatesOf(g, k) |-> CandidateAt(h, k, MovedBy(pi, Target(c)))]

LEMMA ReadAgain ==
  ASSUME NEW g, NEW h, NEW pi, NEW k, AlikeReadings(g, h, pi, k), IsFiniteSet(CandidatesOf(g, k))
  PROVE  /\ Matches(g, h, pi, CandidatesOf(g, k), Again(g, h, pi, k))
         /\ ImageOf(Again(g, h, pi, k), CandidatesOf(g, k)) = CandidatesOf(h, k)
<1> DEFINE C == CandidatesOf(g, k)
           phi == Again(g, h, pi, k)
<1>1. \A c \in C : /\ Target(c) \in LiteralInputs(g) /\ IsAdmitted(g, k, Target(c))
                   /\ c = CandidateAt(g, k, Target(c))
                   /\ c.node \in DOMAIN g
  <2> TAKE c \in C
  <2>1. Target(c) \in LiteralInputs(g) /\ IsAdmitted(g, k, Target(c)) /\ c = CandidateAt(g, k, Target(c))
    BY OfItsTarget
  <2>2. Target(c).node = c.node BY DEF Target
  <2> QED BY <2>1, <2>2, Literals
<1>2. \A c \in C : phi[c] = CandidateAt(h, k, MovedBy(pi, Target(c))) BY DEF Again
<1>3. \A c \in C : /\ phi[c].node = pi[c.node] /\ phi[c].input = c.input
                   /\ phi[c].role = c.role
  <2> TAKE c \in C
  <2>1. phi[c].node = MovedBy(pi, Target(c)).node /\ phi[c].input = MovedBy(pi, Target(c)).input
    BY <1>2, CandidatesAt
  <2>2. MovedBy(pi, Target(c)).node = pi[c.node] /\ MovedBy(pi, Target(c)).input = c.input
    BY DEF MovedBy, Target
  <2>3. phi[c].role = c.role BY <1>1, <1>2 DEF AlikeReadings
  <2> QED BY <2>1, <2>2, <2>3
<1>4. \A c, d \in C : phi[c] = phi[d] => c = d
  <2> TAKE c, d \in C
  <2> HAVE phi[c] = phi[d]
  <2>1. pi[c.node] = pi[d.node] /\ c.input = d.input BY <1>3
  <2>2. c.node = d.node BY <1>1, <2>1, NodesCarried DEF AlikeReadings
  <2>3. Target(c) = Target(d) BY <2>1, <2>2 DEF Target
  <2> QED BY <1>1, <2>3
<1>5. Matches(g, h, pi, C, phi) BY <1>1, <1>3, <1>4 DEF Matches, AlikeReadings
<1>6. \A c \in C : phi[c] \in CandidatesOf(h, k)
  <2> TAKE c \in C
  <2>1. MovedBy(pi, Target(c)) \in LiteralInputs(h) /\ IsAdmitted(h, k, MovedBy(pi, Target(c)))
    BY <1>1 DEF AlikeReadings
  <2> QED BY <1>2, <2>1 DEF CandidatesOf, AdmittedIn
<1>7. \A d \in CandidatesOf(h, k) : \E c \in C : d = phi[c]
  <2> TAKE d \in CandidatesOf(h, k)
  <2>1. PICK s \in LiteralInputs(h) : IsAdmitted(h, k, s) /\ d = CandidateAt(h, k, s)
    BY DEF CandidatesOf, AdmittedIn
  <2>2. PICK t \in LiteralInputs(g) : s = MovedBy(pi, t) BY DEF AlikeReadings
  <2>3. IsAdmitted(g, k, t) BY <2>1, <2>2 DEF AlikeReadings
  <2>4. CandidateAt(g, k, t) \in C BY <2>3 DEF CandidatesOf, AdmittedIn
  <2>5. Target(CandidateAt(g, k, t)) = t BY Literals, CandidatesAt
  <2> QED BY <1>2, <2>1, <2>2, <2>4, <2>5
<1>8. ImageOf(phi, C) = CandidatesOf(h, k) BY <1>6, <1>7 DEF ImageOf
<1> QED BY <1>5, <1>8

\* Grouped alike, they make the same ids.
LEMMA IdsAgain ==
  ASSUME NEW g, NEW h, NEW pi, NEW k, AlikeReadings(g, h, pi, k), IsFiniteSet(CandidatesOf(g, k)),
         ControlGroups(CandidatesOf(h, k))
           = Images(Again(g, h, pi, k), ControlGroups(CandidatesOf(g, k)))
  PROVE  /\ ReviewIn(h, k) <=> ReviewIn(g, k)
         /\ IdsIn(h, k) = {<<p[1], {MovedBy(pi, t) : t \in p[2]}>> : p \in IdsIn(g, k)}
<1> DEFINE C == CandidatesOf(g, k)
           D == CandidatesOf(h, k)
<1>1. Matches(g, h, pi, C, Again(g, h, pi, k)) BY ReadAgain
<1>2. /\ NoneKept(h, D) <=> NoneKept(g, C)
      /\ IdsOf(h, D) = {<<p[1], {MovedBy(pi, t) : t \in p[2]}>> : p \in IdsOf(g, C)}
  <2> HIDE DEF C, D
  <2>1. ControlGroups(D) = Images(Again(g, h, pi, k), ControlGroups(C)) BY DEF C, D
  <2> QED BY <1>1, <2>1, IdsMatch
<1>3. (\E s \in LiteralInputs(h) : IsHeld(h, k, s)) <=> \E t \in LiteralInputs(g) : IsHeld(g, k, t)
  BY DEF AlikeReadings
<1>4. ReviewIn(h, k) <=> ReviewIn(g, k) BY <1>2, <1>3 DEF ReviewIn
<1> QED BY <1>2, <1>4 DEF IdsIn

(***************************************************************************)
(* Under other numbers.                                                    *)
(***************************************************************************)

LEMMA HeldAboveAlike ==
  ASSUME NEW name, NEW i, NEW j, DOMAIN i = DOMAIN j,
         \A p \in DOMAIN i : p \in {SubSeq(name, 1, q - 1) : q \in Dots(name)} =>
           /\ IsLiteral(i[p]) <=> IsLiteral(j[p])
           /\ IsLiteral(i[p]) => i[p] = j[p]
  PROVE  HeldAbove(name, i) = HeldAbove(name, j)
<1> DEFINE above == {SubSeq(name, 1, q - 1) : q \in Dots(name)} \cap DOMAIN i
<1>1. HeldAbove(name, i) = [parent \in {p \in above : IsLiteral(i[p])} |-> i[parent]]
  BY Zenon DEF HeldAbove
<1>2. HeldAbove(name, j) = [parent \in {p \in above : IsLiteral(j[p])} |-> j[parent]]
  BY Zenon DEF HeldAbove
<1>3. \A p \in above : /\ IsLiteral(i[p]) <=> IsLiteral(j[p])
                       /\ IsLiteral(i[p]) => i[p] = j[p]
  OBVIOUS
<1> HIDE DEF above
<1>4. {p \in above : IsLiteral(i[p])} = {p \in above : IsLiteral(j[p])} BY <1>3
<1> QED BY <1>1, <1>2, <1>3, <1>4

\* No literal changes.
SameLiterals(g, h, pi) ==
  \A x \in DOMAIN g : \A name \in DOMAIN Inputs(g, x) :
    /\ IsLiteral(Inputs(h, pi[x])[name]) <=> IsLiteral(Inputs(g, x)[name])
    /\ IsLiteral(Inputs(g, x)[name]) => Inputs(h, pi[x])[name] = Inputs(g, x)[name]

LEMMA LiteralsCarried ==
  ASSUME NEW g, NEW h, NEW pi, Carries(g, h, pi),
         \A x \in DOMAIN g : \A name \in DOMAIN Inputs(g, x) :
           IsLiteral(Inputs(h, pi[x])[name]) <=> IsLiteral(Inputs(g, x)[name])
  PROVE  /\ \A t \in LiteralInputs(g) : MovedBy(pi, t) \in LiteralInputs(h)
         /\ \A s \in LiteralInputs(h) : \E t \in LiteralInputs(g) : s = MovedBy(pi, t)
<1>1. \A f : \A t : t \in LiteralInputs(f) <=>
              \E x \in DOMAIN f : \E name \in DOMAIN Inputs(f, x) :
                t = [node |-> x, input |-> name] /\ IsLiteral(Inputs(f, x)[name])
  BY DEF LiteralInputs
<1>2. \A x \in DOMAIN g : pi[x] \in DOMAIN h /\ DOMAIN Inputs(h, pi[x]) = DOMAIN Inputs(g, x)
  BY NodesCarried DEF Carries
<1>3. ASSUME NEW t \in LiteralInputs(g) PROVE MovedBy(pi, t) \in LiteralInputs(h)
  <2>1. PICK x \in DOMAIN g : \E name \in DOMAIN Inputs(g, x) :
                t = [node |-> x, input |-> name] /\ IsLiteral(Inputs(g, x)[name])
    BY <1>1
  <2>2. PICK name \in DOMAIN Inputs(g, x) :
                t = [node |-> x, input |-> name] /\ IsLiteral(Inputs(g, x)[name])
    BY <2>1
  <2>3. MovedBy(pi, t) = [node |-> pi[x], input |-> name] BY <2>2 DEF MovedBy
  <2>4. IsLiteral(Inputs(h, pi[x])[name]) BY <2>2
  <2> QED BY <1>1, <1>2, <2>3, <2>4
<1>4. ASSUME NEW s \in LiteralInputs(h) PROVE \E t \in LiteralInputs(g) : s = MovedBy(pi, t)
  <2>1. PICK y \in DOMAIN h : \E name \in DOMAIN Inputs(h, y) :
                s = [node |-> y, input |-> name] /\ IsLiteral(Inputs(h, y)[name])
    BY <1>1
  <2>2. PICK name \in DOMAIN Inputs(h, y) :
                s = [node |-> y, input |-> name] /\ IsLiteral(Inputs(h, y)[name])
    BY <2>1
  <2>3. PICK x \in DOMAIN g : pi[x] = y BY NodesCarried
  <2>4. name \in DOMAIN Inputs(g, x) /\ IsLiteral(Inputs(g, x)[name]) BY <1>2, <2>2, <2>3
  <2>5. [node |-> x, input |-> name] \in LiteralInputs(g) BY <1>1, <2>4
  <2>6. s = MovedBy(pi, [node |-> x, input |-> name]) BY <2>2, <2>3 DEF MovedBy
  <2> QED BY <2>5, <2>6
<1> QED BY <1>3, <1>4

SameKeyed(d, c) ==
  /\ Key(d) = Key(c) /\ d.role = c.role
  /\ d.numeric = c.numeric /\ d.class = c.class /\ d.input = c.input

\* An input that holds the same, below the same, is read the same.
AlikeAt(g, h, pi, k, t) ==
  LET s == MovedBy(pi, t) IN
    /\ JudgedAt(h, k, s) = JudgedAt(g, k, t) /\ LabelsAt(h, s) = LabelsAt(g, t)
    /\ IsAdmitted(h, k, s) <=> IsAdmitted(g, k, t)
    /\ IsHeld(h, k, s) <=> IsHeld(g, k, t)
    /\ SameKeyed(CandidateAt(h, k, s), CandidateAt(g, k, t))

LEMMA ReadAlike ==
  ASSUME NEW g, IsGraph(g), NEW h, NEW pi, Carries(g, h, pi), NEW k, NEW t \in LiteralInputs(g),
         HeldAbove(t.input, Inputs(h, pi[t.node])) = HeldAbove(t.input, Inputs(g, t.node)),
         Inputs(h, pi[t.node])[t.input] = Inputs(g, t.node)[t.input]
  PROVE  AlikeAt(g, h, pi, k, t)
<1> DEFINE s == MovedBy(pi, t)
           c == CandidateAt(g, k, t)
           d == CandidateAt(h, k, s)
<1>1. s.node = pi[t.node] /\ s.input = t.input BY DEF MovedBy
<1>2. t.node \in DOMAIN g BY Literals
<1>3. JudgedAt(h, k, s) = JudgedAt(g, k, t) BY <1>1, <1>2, JudgedAlike DEF JudgedAt
<1>4. LabelsAt(h, s) = LabelsAt(g, t) BY <1>1, <1>2, LabelsCarried DEF LabelsAt
<1>5. NumericAt(h, k, s) = NumericAt(g, k, t)
  <2>1. Class(h, s.node) = Class(g, t.node) BY <1>1, <1>2 DEF Carries
  <2>2. ChosenShapeContract(k, Class(h, s.node), t.input, Inputs(h, s.node))
          = ChosenShapeContract(k, Class(g, t.node), t.input, Inputs(g, t.node))
    BY <1>1, <1>2, ContractAlike
  <2> HIDE DEF s
  <2> QED BY Zenon, <1>1, <1>3, <2>1, <2>2 DEF NumericAt, DeclaredNumber
<1>6. Inputs(h, s.node)[s.input] = Inputs(g, t.node)[t.input] BY <1>1
<1>0. Class(h, s.node) = Class(g, t.node) BY <1>1, <1>2 DEF Carries
<1> HIDE DEF s
<1>7. HasRole(h, k, s) <=> HasRole(g, k, t) BY <1>1, <1>3, <1>4 DEF HasRole
<1>8. /\ IsAdmitted(h, k, s) <=> IsAdmitted(g, k, t)
      /\ IsHeld(h, k, s) <=> IsHeld(g, k, t)
  BY <1>3, <1>4, <1>7 DEF IsAdmitted, IsHeld
<1>9. /\ d.role = RoleFor(s.input, JudgedAt(h, k, s).verdict, LabelsAt(h, s))
      /\ c.role = RoleFor(t.input, JudgedAt(g, k, t).verdict, LabelsAt(g, t))
      /\ d.verdict = JudgedAt(h, k, s).verdict /\ c.verdict = JudgedAt(g, k, t).verdict
      /\ d.options = JudgedAt(h, k, s).options /\ c.options = JudgedAt(g, k, t).options
      /\ d.numeric = NumericAt(h, k, s) /\ c.numeric = NumericAt(g, k, t)
      /\ d.value = Inputs(h, s.node)[s.input] /\ c.value = Inputs(g, t.node)[t.input]
      /\ d.class = Class(h, s.node) /\ c.class = Class(g, t.node)
      /\ d.input = s.input /\ c.input = t.input
  BY CandidatesAt
<1> HIDE DEF c, d
<1>10. /\ d.role = c.role /\ d.verdict = c.verdict /\ d.options = c.options
       /\ d.numeric = c.numeric /\ d.value = c.value
       /\ d.class = c.class /\ d.input = c.input
  BY <1>0, <1>1, <1>3, <1>4, <1>5, <1>6, <1>9
<1>11. Key(d) = Key(c) BY Zenon, <1>10 DEF Key, DeclarationKey
<1>12. SameKeyed(d, c) BY <1>10, <1>11 DEF SameKeyed
<1> QED BY <1>3, <1>4, <1>8, <1>12 DEF AlikeAt, c, d, s

\* Where no literal changes, the whole reading is the same.
LEMMA ReadingCarried ==
  ASSUME NEW g, IsGraph(g), NEW h, NEW pi, Carries(g, h, pi), NEW k, SameLiterals(g, h, pi),
         IsFiniteSet(CandidatesOf(g, k))
  PROVE  /\ ReviewIn(h, k) <=> ReviewIn(g, k)
         /\ IdsIn(h, k) = {<<p[1], {MovedBy(pi, t) : t \in p[2]}>> : p \in IdsIn(g, k)}
<1> DEFINE C == CandidatesOf(g, k)
           phi == Again(g, h, pi, k)
<1>1. \A t \in LiteralInputs(g) : AlikeAt(g, h, pi, k, t)
  <2> TAKE t \in LiteralInputs(g)
  <2> DEFINE i == Inputs(g, t.node)
             j == Inputs(h, pi[t.node])
  <2>1. t.node \in DOMAIN g /\ t.input \in DOMAIN i /\ IsLiteral(i[t.input]) BY Literals
  <2>2. DOMAIN j = DOMAIN i BY <2>1 DEF Carries
  <2>3. \A p \in DOMAIN i : /\ IsLiteral(j[p]) <=> IsLiteral(i[p])
                            /\ IsLiteral(i[p]) => j[p] = i[p]
    BY <2>1 DEF SameLiterals
  <2>4. j[t.input] = i[t.input] BY <2>1, <2>3
  <2> HIDE DEF i, j
  <2>5. \A p \in DOMAIN j : /\ IsLiteral(j[p]) <=> IsLiteral(i[p])
                            /\ IsLiteral(j[p]) => j[p] = i[p]
    BY <2>2, <2>3
  <2>6. HeldAbove(t.input, j) = HeldAbove(t.input, i)
    BY <2>2, <2>5, HeldAboveAlike
  <2> QED BY <2>4, <2>6, ReadAlike DEF i, j
<1>2. AlikeReadings(g, h, pi, k)
  <2>1. \A x \in DOMAIN g : \A name \in DOMAIN Inputs(g, x) :
           IsLiteral(Inputs(h, pi[x])[name]) <=> IsLiteral(Inputs(g, x)[name])
    BY DEF SameLiterals
  <2>2. /\ \A t \in LiteralInputs(g) : MovedBy(pi, t) \in LiteralInputs(h)
        /\ \A s \in LiteralInputs(h) : \E t \in LiteralInputs(g) : s = MovedBy(pi, t)
    BY <2>1, LiteralsCarried
  <2>3. \A t \in LiteralInputs(g) :
          /\ IsAdmitted(h, k, MovedBy(pi, t)) <=> IsAdmitted(g, k, t)
          /\ IsHeld(h, k, MovedBy(pi, t)) <=> IsHeld(g, k, t)
          /\ CandidateAt(h, k, MovedBy(pi, t)).role = CandidateAt(g, k, t).role
    BY <1>1 DEF AlikeAt, SameKeyed
  <2> QED BY <2>2, <2>3 DEF AlikeReadings
<1>3. KeepsKeys(C, phi)
  <2>1. \A c \in C : SameKeyed(phi[c], c)
    <3> TAKE c \in C
    <3>1. Target(c) \in LiteralInputs(g) /\ c = CandidateAt(g, k, Target(c)) BY OfItsTarget
    <3>2. phi[c] = CandidateAt(h, k, MovedBy(pi, Target(c))) BY DEF Again
    <3>3. SameKeyed(CandidateAt(h, k, MovedBy(pi, Target(c))), CandidateAt(g, k, Target(c)))
      BY <1>1, <3>1 DEF AlikeAt
    <3> QED BY <3>1, <3>2, <3>3
  <2>2. \A c, d \in C : phi[c] = phi[d] => c = d
    BY <1>2, ReadAgain DEF Matches
  <2> QED BY <2>1, <2>2 DEF KeepsKeys, SameKeyed
<1>4. ControlGroups(CandidatesOf(h, k)) = Images(phi, ControlGroups(C))
  <2>1. ImageOf(phi, C) = CandidatesOf(h, k) BY <1>2, ReadAgain
  <2>2. ControlGroups(ImageOf(phi, C)) = Images(phi, ControlGroups(C))
    BY <1>3, GroupsMatch
  <2> QED BY <2>1, <2>2
<1> QED BY <1>2, <1>4, IdsAgain

\* Two nodes that change their numbers change nothing else.
SwapOf(g, n, m) == [x \in DOMAIN g |-> Swapped(n, m, x)]

LEMMA SwappedTwice ==
  ASSUME NEW n, NEW m, NEW x
  PROVE  Swapped(n, m, Swapped(n, m, x)) = x
BY DEF Swapped

LEMMA RenumberedCarries ==
  ASSUME NEW g, IsGraph(g), NEW n \in DOMAIN g, NEW m \in DOMAIN g, NEW pi,
         pi = [x \in DOMAIN g |-> Swapped(n, m, x)]
  PROVE  Carries(g, Renumbered(g, n, m), pi) /\ SameLiterals(g, Renumbered(g, n, m), pi)
<1> DEFINE Wired(value) ==
             IF value.kind = "wire" THEN [value EXCEPT !.v.node = Swapped(n, m, value.v.node)]
             ELSE value
           Image(node) == [node EXCEPT !.in = [name \in DOMAIN node.in |-> Wired(node.in[name])]]
           h == Renumbered(g, n, m)
<1>1. h = [node \in DOMAIN g |-> Image(g[Swapped(n, m, node)])] BY DEF Renumbered
<1>2. \A x \in DOMAIN g : pi[x] \in DOMAIN g /\ pi[pi[x]] = x /\ pi[x] = Swapped(n, m, x)
  BY DEF Swapped
<1>3. pi \in Bijection(DOMAIN g, DOMAIN g)
  <2>1. pi \in [DOMAIN g -> DOMAIN g] BY <1>2
  <2>2. \A x, y \in DOMAIN g : pi[x] = pi[y] => x = y BY <1>2
  <2>3. \A y \in DOMAIN g : \E x \in DOMAIN g : pi[x] = y BY <1>2
  <2> QED BY <2>1, <2>2, <2>3 DEF Bijection, Injection, Surjection, IsInjective
<1>4. DOMAIN h = DOMAIN g /\ \A x \in DOMAIN g : h[pi[x]] = Image(g[x])
  <2> HIDE DEF Image, h
  <2>1. \A x \in DOMAIN g : Swapped(n, m, pi[x]) = x BY <1>2, SwappedTwice
  <2> QED BY <1>1, <1>2, <2>1
<1>5. \A x \in DOMAIN g :
        /\ Class(h, pi[x]) = Class(g, x)
        /\ DOMAIN Inputs(h, pi[x]) = DOMAIN Inputs(g, x)
        /\ \A name \in DOMAIN Inputs(g, x) : Inputs(h, pi[x])[name] = Wired(Inputs(g, x)[name])
  <2> TAKE x \in DOMAIN g
  <2>1. g[x] = [class |-> g[x].class, title |-> g[x].title, in |-> g[x].in]
    BY DEF IsGraph, IsNode
  <2> HIDE DEF Wired
  <2>2. Image(g[x]) = [class |-> g[x].class, title |-> g[x].title,
                       in |-> [name \in DOMAIN g[x].in |-> Wired(g[x].in[name])]]
    BY <2>1
  <2>3. h[pi[x]] = Image(g[x]) BY <1>4
  <2> HIDE DEF Image, h
  <2>4. /\ h[pi[x]].class = g[x].class
        /\ h[pi[x]].in = [name \in DOMAIN g[x].in |-> Wired(g[x].in[name])]
    BY <2>2, <2>3
  <2>5. \A name \in DOMAIN g[x].in : h[pi[x]].in[name] = Wired(g[x].in[name])
    BY <2>4
  <2>6. DOMAIN h[pi[x]].in = DOMAIN g[x].in BY <2>4
  <2> QED BY <2>4, <2>5, <2>6 DEF Class, Inputs
<1>6. \A x \in DOMAIN g : \A name \in DOMAIN Inputs(g, x) : IsValue(Inputs(g, x)[name])
  BY DEF IsGraph, IsNode, Inputs
<1>7. \A v : v.kind # "wire" => Wired(v) = v OBVIOUS
<1>8. \A v : IsValue(v) /\ v.kind = "wire" =>
         /\ Wired(v).kind = "wire"
         /\ Wired(v).v = [node |-> Swapped(n, m, v.v.node), slot |-> v.v.slot]
  BY DEF IsValue
<1> HIDE DEF Wired, Image, h
<1>9. \A y : Swapped(n, m, y) \in DOMAIN g <=> y \in DOMAIN g BY DEF Swapped
<1>10. \A x \in DOMAIN g : Wires(h, pi[x]) = Wires(g, x)
  <2> TAKE x \in DOMAIN g
  <2>1. \A name \in DOMAIN Inputs(g, x) :
          (Inputs(h, pi[x])[name].kind = "wire" /\ Inputs(h, pi[x])[name].v.node \in DOMAIN h)
            <=> (Inputs(g, x)[name].kind = "wire" /\ Inputs(g, x)[name].v.node \in DOMAIN g)
    <3> TAKE name \in DOMAIN Inputs(g, x)
    <3> DEFINE v == Inputs(g, x)[name]
    <3>1. Inputs(h, pi[x])[name] = Wired(v) /\ IsValue(v) BY <1>5, <1>6
    <3> HIDE DEF v
    <3>2. CASE v.kind # "wire"
      <4>1. Inputs(h, pi[x])[name] = v BY <1>7, <3>1, <3>2
      <4> QED BY <3>2, <4>1 DEF v
    <3>3. CASE v.kind = "wire"
      <4>1. Inputs(h, pi[x])[name].kind = "wire" BY <1>8, <3>1, <3>3
      <4>2. Inputs(h, pi[x])[name].v = [node |-> Swapped(n, m, v.v.node), slot |-> v.v.slot]
        BY <1>8, <3>1, <3>3
      <4>3. Inputs(h, pi[x])[name].v.node = Swapped(n, m, v.v.node) BY <4>2
      <4> QED BY <1>4, <1>9, <3>3, <4>1, <4>3 DEF v
    <3> QED BY <3>2, <3>3
  <2>2. DOMAIN Inputs(h, pi[x]) = DOMAIN Inputs(g, x) BY <1>5
  <2> QED BY <2>1, <2>2 DEF Wires
<1>11. \A x \in DOMAIN g : \A name \in Wires(g, x) :
         LET v == Inputs(g, x)[name].v
         IN  Inputs(h, pi[x])[name].v = [node |-> pi[v.node], slot |-> v.slot]
  <2> TAKE x \in DOMAIN g
  <2> TAKE name \in Wires(g, x)
  <2> DEFINE w == Inputs(g, x)[name]
  <2>1. name \in DOMAIN Inputs(g, x) /\ w.kind = "wire" /\ w.v.node \in DOMAIN g
    BY DEF Wires
  <2>2. Inputs(h, pi[x])[name] = Wired(w) /\ IsValue(w) BY <1>5, <1>6, <2>1
  <2> HIDE DEF w
  <2>3. Wired(w).v = [node |-> Swapped(n, m, w.v.node), slot |-> w.v.slot]
    BY <1>8, <2>1, <2>2
  <2>4. Swapped(n, m, w.v.node) = pi[w.v.node] BY <1>2, <2>1
  <2> QED BY <2>2, <2>3, <2>4 DEF w
<1>12. Carries(g, h, pi)
  BY <1>3, <1>4, <1>5, <1>10, <1>11 DEF Carries
<1>13. SameLiterals(g, h, pi)
  <2>1. \A v : IsLiteral(v) => v.kind # "wire" BY NoneAssumption DEF IsLiteral, FieldTypeOf
  <2>2. \A x \in DOMAIN g : \A name \in DOMAIN Inputs(g, x) :
          /\ IsLiteral(Inputs(h, pi[x])[name]) <=> IsLiteral(Inputs(g, x)[name])
          /\ IsLiteral(Inputs(g, x)[name]) => Inputs(h, pi[x])[name] = Inputs(g, x)[name]
    <3> TAKE x \in DOMAIN g
    <3> TAKE name \in DOMAIN Inputs(g, x)
    <3> DEFINE v == Inputs(g, x)[name]
    <3>1. Inputs(h, pi[x])[name] = Wired(v) /\ IsValue(v) BY <1>5, <1>6
    <3> HIDE DEF v
    <3>2. v.kind # "wire" => Inputs(h, pi[x])[name] = v BY <1>7, <3>1
    <3>3. v.kind = "wire" => ~IsLiteral(v) /\ ~IsLiteral(Inputs(h, pi[x])[name])
      BY <1>8, <2>1, <3>1
    <3> QED BY <2>1, <3>2, <3>3 DEF v
  <2> QED BY <2>2 DEF SameLiterals
<1> QED BY <1>12, <1>13 DEF h

\* So a workflow whose nodes are numbered otherwise keeps its ids.
LEMMA IdsOutliveRenumbering ==
  ASSUME NEW g, IsGraph(g), NEW n \in DOMAIN g, NEW m \in DOMAIN g, NEW k,
         IsFiniteSet(CandidatesOf(g, k))
  PROVE  /\ ReviewIn(Renumbered(g, n, m), k) <=> ReviewIn(g, k)
         /\ IdsIn(Renumbered(g, n, m), k)
              = {<<p[1], {MovedBy(SwapOf(g, n, m), t) : t \in p[2]}>> : p \in IdsIn(g, k)}
<1> DEFINE h == Renumbered(g, n, m)
           pi == SwapOf(g, n, m)
<1>1. Carries(g, h, pi) /\ SameLiterals(g, h, pi) BY RenumberedCarries DEF SwapOf
<1> HIDE DEF h, pi
<1> QED BY <1>1, ReadingCarried DEF h, pi

(***************************************************************************)
(* With a number in its other spelling.                                    *)
(***************************************************************************)

IsNumeral(x) == x.kind \in {"int", "float"}

\* The rules tell a number from a text, and no number from another.
LEMMA RulesForNumbers ==
  ASSUME NEW name, NEW x, NEW y, IsNumeral(x), IsNumeral(y), NEW i \in 1..16
  PROVE  RulesFor(name, x)[i].when <=> RulesFor(name, y)[i].when
<1>1. x.kind # "text" /\ y.kind # "text" BY DEF IsNumeral
<1>2. LooksOf(x) = {} /\ LooksOf(y) = {} BY <1>1 DEF LooksOf
<1>3. FieldTypeOf(x) # None /\ FieldTypeOf(y) # None
  BY NoneAssumption DEF IsNumeral, FieldTypeOf
<1>4. /\ ~LooksLikeAPath(x) /\ ~LooksLikeAPath(y)
      /\ ~LooksLikeAWebAddress(x) /\ ~LooksLikeAWebAddress(y)
  BY <1>1, NoTextNoLooks DEF Harmless
<1>5. ASSUME NEW z, z.kind # "text", LooksOf(z) = {}, FieldTypeOf(z) # None,
             ~LooksLikeAPath(z), ~LooksLikeAWebAddress(z)
      PROVE  /\ \A j \in {1, 2, 3, 4, 5, 6, 9, 10, 12} : ~RulesFor(name, z)[j].when
             /\ RulesFor(name, z)[7].when <=> Tokens(name) \in BookkeepingInputNames
             /\ RulesFor(name, z)[8].when <=> Words(name) \cap LockedAnyWords # {}
             /\ RulesFor(name, z)[11].when <=> NamesAModelArchitecture(name)
             /\ RulesFor(name, z)[13].when <=> SanitizeRole(name) = << >>
             /\ RulesFor(name, z)[14].when
             /\ RulesFor(name, z)[15].when <=> /\ Words(name) \cap SafeStringWords # {}
                                               /\ SanitizeRole(name) # << >>
             /\ RulesFor(name, z)[16].when
  <2>1. ~RulesFor(name, z)[1].when /\ ~RulesFor(name, z)[2].when /\ ~RulesFor(name, z)[3].when
    BY <1>5 DEF RulesFor
  <2>2. ~RulesFor(name, z)[4].when /\ ~RulesFor(name, z)[5].when /\ ~RulesFor(name, z)[6].when
    BY <1>5 DEF RulesFor
  <2>3. ~RulesFor(name, z)[9].when /\ ~RulesFor(name, z)[10].when /\ ~RulesFor(name, z)[12].when
    BY <1>5 DEF RulesFor
  <2>4. /\ RulesFor(name, z)[7].when <=> Tokens(name) \in BookkeepingInputNames
        /\ RulesFor(name, z)[8].when <=> Words(name) \cap LockedAnyWords # {}
        /\ RulesFor(name, z)[11].when <=> NamesAModelArchitecture(name)
    BY DEF RulesFor
  <2>5. /\ RulesFor(name, z)[13].when <=> SanitizeRole(name) = << >>
        /\ RulesFor(name, z)[14].when
    BY <1>5 DEF RulesFor
  <2>6. /\ RulesFor(name, z)[15].when <=> /\ Words(name) \cap SafeStringWords # {}
                                          /\ SanitizeRole(name) # << >>
        /\ RulesFor(name, z)[16].when
    BY DEF RulesFor
  <2> QED BY <2>1, <2>2, <2>3, <2>4, <2>5, <2>6
<1>6. i \in {1, 2, 3, 4, 5, 6, 9, 10, 12} \/ i \in {7, 8, 11, 13, 14, 15, 16} OBVIOUS
<1>7. CASE i \in {1, 2, 3, 4, 5, 6, 9, 10, 12} BY <1>1, <1>2, <1>3, <1>4, <1>5, <1>7
<1>8. CASE i \in {7, 8, 11, 13, 14, 15, 16} BY <1>1, <1>2, <1>3, <1>4, <1>5, <1>8
<1> QED BY <1>6, <1>7, <1>8

LEMMA NumbersClassified ==
  ASSUME NEW name, NEW x, IsNumeral(x)
  PROVE  LET verdict == Classify(name, x) IN
           /\ ~verdict.prompt
           /\ verdict.exposure = "expose" =>
                verdict = Exposed(FieldTypeOf(x), SanitizeRole(name)) /\ SanitizeRole(name) # << >>
           /\ verdict.exposure = "uncertain" => SanitizeRole(name) = << >>
<1> DEFINE rules == RulesFor(name, x)
           verdict == Classify(name, x)
<1>0. x.kind # "text" /\ FieldTypeOf(x) # None
  BY NoneAssumption DEF IsNumeral, FieldTypeOf
<1>1. PICK i \in 1..16 : Settles(i, rules, verdict) BY OneRule
<1>2. /\ rules[i].when /\ \A j \in 1..(i - 1) : ~rules[j].when
      /\ verdict = rules[i].then
  BY <1>1 DEF Settles
<1>3. rules[13].when <=> SanitizeRole(name) = << >> BY <1>0 DEF RulesFor
<1>4. /\ rules[14].when /\ ~rules[1].when /\ ~rules[2].when
      /\ ~rules[3].when /\ ~rules[12].when
  BY <1>0 DEF RulesFor
<1>5. i \notin {1, 2, 3, 12} /\ i <= 14
  <2>1. i > 14 => 14 \in 1..(i - 1) OBVIOUS
  <2> QED BY <1>2, <1>4, <2>1
<1>6. CASE i = 14
  <2>1. ~rules[13].when BY <1>2, <1>6
  <2> QED BY <1>2, <1>3, <1>6, <2>1, WhatTheRulesSay, VerdictFields
<1>7. CASE i = 13
  <2>1. rules[13].then = Uncertain BY DEF RulesFor
  <2> QED BY <1>2, <1>3, <1>7, <2>1, VerdictFields
<1>8. CASE i \in 4..11
  <2>1. \A j \in 4..11 : \E kind : rules[j].then = Locked(kind)
    <3>1. /\ rules[4].then = Locked("weights_file") /\ rules[5].then = Locked("url")
          /\ rules[6].then = Locked("filesystem_path")
          /\ rules[7].then = Locked("editor_bookkeeping")
          /\ rules[8].then = Locked("machine_setting")
          /\ rules[9].then = Locked("file_reference")
          /\ rules[10].then = Locked("url")
          /\ rules[11].then = Locked("model_architecture")
      BY DEF RulesFor
    <3> QED BY <3>1
  <2> QED BY <1>2, <1>8, <2>1, VerdictFields
<1> QED BY <1>5, <1>6, <1>7, <1>8

LEMMA ExposedAlike ==
  ASSUME NEW name, NEW x, NEW y, IsNumeral(x), IsNumeral(y),
         Classify(name, x).exposure = "expose"
  PROVE  Classify(name, y) = Exposed(FieldTypeOf(y), SanitizeRole(name))
<1> DEFINE rules == RulesFor(name, x)
           others == RulesFor(name, y)
<1>1. PICK i \in 1..16 : Settles(i, rules, Classify(name, x)) BY OneRule
<1>2. PICK j \in 1..16 : Settles(j, others, Classify(name, y)) BY OneRule
<1>3. \A m \in 1..16 : rules[m].when <=> others[m].when BY RulesForNumbers
<1>4. i = j
  <2> HIDE DEF rules, others
  <2>1. i < j => i \in 1..(j - 1) OBVIOUS
  <2>2. j < i => j \in 1..(i - 1) OBVIOUS
  <2> QED BY <1>1, <1>2, <1>3, <2>1, <2>2 DEF Settles
<1>5. Classify(name, x) = rules[i].then /\ Classify(name, y) = others[i].then
  BY <1>1, <1>2, <1>4 DEF Settles
<1>6. i \in {2, 12, 14, 15} BY <1>5, WhatTheRulesSay, VerdictFields
<1>7. x.kind # "text" BY DEF IsNumeral
<1>8. rules[14].when /\ ~rules[2].when /\ ~rules[12].when BY <1>7 DEF RulesFor
<1>9. i # 15 /\ i # 2 /\ i # 12
  <2>1. i = 15 => 14 \in 1..(i - 1) OBVIOUS
  <2> QED BY <1>1, <1>8, <2>1 DEF Settles
<1>10. i = 14 BY <1>6, <1>9
<1> QED BY <1>5, <1>10, WhatTheRulesSay

\* A number that nothing but its name and value exposes.
LEMMA NumbersUnlisted ==
  ASSUME NEW g, NEW asked, NEW node, NEW name, NEW x, IsNumeral(x)
  PROVE  WithoutAList(g, asked, node, name, x).exposure # "expose"
<1> DEFINE rules == RulesWithoutAList(g, asked, node, name, x)
           verdict == WithoutAList(g, asked, node, name, x)
<1>1. DOMAIN rules = 1..5 BY DEF RulesWithoutAList
<1>2. rules[5].when BY DEF RulesWithoutAList
<1>3. rules[3].when <=> WiredPrompt(g, node, name, x) BY DEF RulesWithoutAList
<1>4. /\ rules[1].then = Locked("computation") /\ rules[2].then = Locked("model_patch")
      /\ rules[4].then = Locked("declared_default") /\ rules[5].then = Uncertain
  BY DEF RulesWithoutAList
<1>5. \E i \in 1..5 : rules[i].when /\ verdict = rules[i].then
  <2> HIDE DEF rules
  <2>1. 5 \in Nat /\ \E k \in 1..5 : rules[k].when BY <1>2
  <2>2. verdict = FirstOf(rules) BY DEF WithoutAList, rules
  <2>3. \E i \in 1..5 : rules[i].when /\ FirstOf(rules) = rules[i].then
    BY Zenon, <1>1, <2>1, FirstApplies
  <2> QED BY Zenon, <2>2, <2>3
<1>6. ~WiredPrompt(g, node, name, x)
  <2>1. \A c : ~Classify(c.name, x).prompt BY NumbersClassified
  <2> QED BY <2>1 DEF WiredPrompt
<1> HIDE DEF rules
<1>7. PICK i \in 1..5 : rules[i].when /\ verdict = rules[i].then BY <1>5
<1>8. i # 3 BY <1>3, <1>6, <1>7
<1>9. i \in {1, 2, 4, 5} BY <1>8
<1> QED BY <1>4, <1>7, <1>9, VerdictFields

LEMMA NumbersAdmitted ==
  ASSUME NEW g, NEW k, NEW t, IsNumeral(Inputs(g, t.node)[t.input]), IsAdmitted(g, k, t)
  PROVE  LET x == Inputs(g, t.node)[t.input]
             asked == ChosenShapeContract(k, Class(g, t.node), t.input, Inputs(g, t.node))
         IN  /\ ShapesFor(asked, Class(g, t.node), t.input) = None
             /\ Classify(t.input, x).exposure = "expose"
             /\ SanitizeRole(t.input) # << >>
             /\ JudgedAt(g, k, t) = Plain(Exposed(FieldTypeOf(x), SanitizeRole(t.input)))
<1> DEFINE x == Inputs(g, t.node)[t.input]
           class == Class(g, t.node)
           asked == ChosenShapeContract(k, class, t.input, Inputs(g, t.node))
           shaped == StructuralChoice(ShapesFor(asked, class, t.input), x)
           named == Classify(t.input, x)
           options == OptionsFor(asked, class, t.input)
           judged == JudgedAt(g, k, t)
<1>1. judged = Settled(g, asked, t.node, t.input, x, shaped, named, options)
  BY Zenon DEF JudgedAt, Judged, JudgedUnder
<1>2. IsNumeral(x) /\ judged.verdict.exposure = "expose" /\ HasRole(g, k, t)
  BY DEF IsAdmitted, Offered
<1>3. shaped # None => shaped.exposure # "expose"
  BY VerdictFields DEF StructuralChoice
<1>4. shaped = None => ShapesFor(asked, class, t.input) = None
  BY NoneAssumption DEF StructuralChoice
<1> HIDE DEF x, asked, shaped, named, options, judged, class
<1>5. shaped = None BY <1>1, <1>2, <1>3 DEF Settled, Plain
<1>6. CASE named.exposure # "uncertain"
  <2>1. judged = Plain(named) BY <1>1, <1>5, <1>6 DEF Settled
  <2>2. named.exposure = "expose" BY <1>2, <2>1 DEF Plain
  <2>3. named = Exposed(FieldTypeOf(x), SanitizeRole(t.input)) /\ SanitizeRole(t.input) # << >>
    BY <1>2, <2>2, NumbersClassified DEF named
  <2> QED BY <1>4, <1>5, <2>1, <2>2, <2>3 DEF named, judged, x, asked, class
<1>7. CASE named.exposure = "uncertain"
  <2>1. SanitizeRole(t.input) = << >> BY <1>2, <1>7, NumbersClassified DEF named
  <2>2. options # None
    <3>1. options = None => judged = Plain(WithoutAList(g, asked, t.node, t.input, x))
      BY <1>1, <1>5, <1>7 DEF Settled
    <3>2. WithoutAList(g, asked, t.node, t.input, x).exposure # "expose" BY <1>2, NumbersUnlisted
    <3> QED BY <1>2, <3>1, <3>2 DEF Plain
  <2>3. judged = AskTheRuntime(options, class, t.input, x) BY <1>1, <1>5, <1>7, <2>2 DEF Settled, class
  <2>4. judged.verdict = Exposed("select", << >>)
    BY <1>2, <2>1, <2>3, VerdictFields DEF AskTheRuntime, Plain
  <2>5. judged.verdict.role = << >> /\ judged.verdict.media = None /\ ~judged.verdict.prompt
    BY <2>4 DEF Exposed, Verdict
  <2>6. RoleFor(t.input, judged.verdict, LabelsAt(g, t)) = None BY <2>5 DEF RoleFor
  <2> QED BY <1>2, <2>6 DEF HasRole, judged
<1> QED BY <1>6, <1>7

\* Two graphs that differ in how one number is written.
RespelledAt(g, h, t) ==
  /\ IsGraph(g) /\ DOMAIN h = DOMAIN g /\ t.node \in DOMAIN g
  /\ t = [node |-> t.node, input |-> t.input] /\ t.input \in DOMAIN Inputs(g, t.node)
  /\ \A x \in DOMAIN g :
       /\ Class(h, x) = Class(g, x) /\ h[x].title = g[x].title
       /\ DOMAIN Inputs(h, x) = DOMAIN Inputs(g, x)
       /\ \A name \in DOMAIN Inputs(g, x) :
            x # t.node \/ name # t.input => Inputs(h, x)[name] = Inputs(g, x)[name]
  /\ IsNumeral(Inputs(g, t.node)[t.input]) /\ IsNumeral(Inputs(h, t.node)[t.input])
  /\ Inputs(h, t.node)[t.input].v = Inputs(g, t.node)[t.input].v

Same(g) == [x \in DOMAIN g |-> x]

LEMMA RespelledIs ==
  ASSUME NEW g, IsGraph(g), NEW n \in DOMAIN g, NEW name \in DOMAIN Inputs(g, n),
         IsNumeral(Inputs(g, n)[name])
  PROVE  RespelledAt(g, [g EXCEPT ![n].in[name] = Respelled(@)], [node |-> n, input |-> name])
<1> DEFINE x == g[n].in[name]
           in2 == [g[n].in EXCEPT ![name] = Respelled(@)]
           h == [g EXCEPT ![n].in[name] = Respelled(@)]
           t == [node |-> n, input |-> name]
<1>1. IsNode(g[n]) /\ IsValue(x) BY DEF IsGraph, IsNode, Inputs
<1>2. IsNumeral(Respelled(x)) /\ Respelled(x).v = x.v
  <2>1. x = [kind |-> x.kind, v |-> x.v] BY <1>1 DEF IsValue
  <2> QED BY <2>1 DEF Respelled, IsNumeral
<1>3. h[n] = [g[n] EXCEPT !.in = in2] /\ DOMAIN h = DOMAIN g OBVIOUS
<1>4. \A k \in DOMAIN g : k # n => h[k] = g[k] OBVIOUS
<1>5. h[n] = [class |-> g[n].class, title |-> g[n].title, in |-> in2]
  BY <1>1, <1>3 DEF IsNode
<1>6. DOMAIN in2 = DOMAIN g[n].in /\ \A other \in DOMAIN g[n].in :
        in2[other] = IF other = name THEN Respelled(x) ELSE g[n].in[other]
  BY DEF Inputs
<1> HIDE DEF h, in2, x
<1>7. \A y \in DOMAIN g :
        /\ Class(h, y) = Class(g, y) /\ h[y].title = g[y].title
        /\ DOMAIN Inputs(h, y) = DOMAIN Inputs(g, y)
        /\ \A other \in DOMAIN Inputs(g, y) :
             y # n \/ other # name => Inputs(h, y)[other] = Inputs(g, y)[other]
  BY <1>4, <1>5, <1>6 DEF Class, Inputs
<1>8. Inputs(h, n)[name] = Respelled(x) /\ Inputs(g, n)[name] = x
  BY <1>5, <1>6 DEF Inputs, x
<1>9. t.node = n /\ t.input = name OBVIOUS
<1> HIDE DEF t
<1>10. t = [node |-> t.node, input |-> t.input] BY <1>9 DEF t
<1>11. RespelledAt(g, h, t)
  BY <1>2, <1>3, <1>7, <1>8, <1>9, <1>10 DEF RespelledAt
<1> QED BY <1>11 DEF h, t

LEMMA RespelledCarries ==
  ASSUME NEW g, NEW h, NEW t, RespelledAt(g, h, t)
  PROVE  /\ Carries(g, h, Same(g))
         /\ \A x \in DOMAIN g : Same(g)[x] = x
         /\ \A x \in DOMAIN g : \A name \in DOMAIN Inputs(g, x) :
              IsLiteral(Inputs(h, x)[name]) <=> IsLiteral(Inputs(g, x)[name])
<1> DEFINE pi == Same(g)
<1>1. \A x \in DOMAIN g : pi[x] = x BY DEF Same
<1>2. pi \in Bijection(DOMAIN g, DOMAIN h)
  BY DEF Same, RespelledAt, Bijection, Injection, Surjection, IsInjective
<1>3. /\ Inputs(g, t.node)[t.input].kind # "wire" /\ Inputs(h, t.node)[t.input].kind # "wire"
      /\ IsLiteral(Inputs(g, t.node)[t.input]) /\ IsLiteral(Inputs(h, t.node)[t.input])
  BY NoneAssumption DEF RespelledAt, IsNumeral, IsLiteral, FieldTypeOf
<1>4. \A x \in DOMAIN g : \A name \in DOMAIN Inputs(g, x) :
        \/ Inputs(h, x)[name] = Inputs(g, x)[name]
        \/ x = t.node /\ name = t.input
  BY DEF RespelledAt
<1>5. DOMAIN h = DOMAIN g /\ \A x \in DOMAIN g : DOMAIN Inputs(h, x) = DOMAIN Inputs(g, x)
  BY DEF RespelledAt
<1>6. \A x \in DOMAIN g : \A name \in DOMAIN Inputs(g, x) :
              IsLiteral(Inputs(h, x)[name]) <=> IsLiteral(Inputs(g, x)[name])
  BY <1>3, <1>4
<1>7. \A x \in DOMAIN g : Wires(h, x) = Wires(g, x)
  BY <1>3, <1>4, <1>5 DEF Wires
<1>8. \A x \in DOMAIN g : \A name \in Wires(g, x) : 
         /\ Inputs(h, x)[name] = Inputs(g, x)[name]
         /\ Inputs(g, x)[name].v.node \in DOMAIN g
         /\ name \in DOMAIN Inputs(g, x) /\ Inputs(g, x)[name].kind = "wire"
  BY <1>3, <1>4 DEF Wires
<1>9. \A x \in DOMAIN g : \A name \in Wires(g, x) :
         LET v == Inputs(g, x)[name].v
         IN  Inputs(h, pi[x])[name].v = [node |-> pi[v.node], slot |-> v.slot]
  <2> TAKE x \in DOMAIN g
  <2> TAKE name \in Wires(g, x)
  <2> DEFINE v == Inputs(g, x)[name].v
  <2>1. IsValue(Inputs(g, x)[name]) BY <1>8 DEF RespelledAt, IsGraph, IsNode, Inputs
  <2>2. v = [node |-> v.node, slot |-> v.slot] BY <1>8, <2>1 DEF IsValue
  <2>3. Inputs(h, pi[x])[name].v = v /\ pi[v.node] = v.node BY <1>1, <1>8
  <2> HIDE DEF v, pi
  <2> QED BY <2>2, <2>3 DEF v
<1>10. \A x \in DOMAIN g : Class(h, x) = Class(g, x) BY DEF RespelledAt
<1> HIDE DEF pi
<1>11. Carries(g, h, pi) BY <1>1, <1>2, <1>5, <1>7, <1>9, <1>10 DEF Carries
<1> QED BY <1>1, <1>6, <1>11 DEF pi

\* No other input is a path below the one that changes.
NothingBelow(h, t) ==
  \A name \in DOMAIN Inputs(h, t.node) : t.input \notin DOMAIN HeldAbove(name, Inputs(h, t.node))

LEMMA HeldAboveRespelled ==
  ASSUME NEW g, NEW h, NEW t, RespelledAt(g, h, t), NothingBelow(h, t),
         NEW x \in DOMAIN g, NEW name \in DOMAIN Inputs(g, x)
  PROVE  HeldAbove(name, Inputs(h, x)) = HeldAbove(name, Inputs(g, x))
<1> DEFINE i == Inputs(g, x)
           j == Inputs(h, x)
           above == {SubSeq(name, 1, q - 1) : q \in Dots(name)}
<1>1. DOMAIN j = DOMAIN i BY DEF RespelledAt
<1>2. \A p \in DOMAIN i : IsLiteral(j[p]) <=> IsLiteral(i[p])
  BY RespelledCarries
<1>3. \A p \in DOMAIN i : x = t.node /\ p = t.input => IsLiteral(j[p])
  BY NoneAssumption DEF RespelledAt, IsNumeral, IsLiteral, FieldTypeOf
<1>4. HeldAbove(name, j) = [parent \in {p \in above \cap DOMAIN j : IsLiteral(j[p])} |-> j[parent]]
  BY Zenon DEF HeldAbove
<1>5. \A p \in DOMAIN i : p \in above /\ IsLiteral(j[p]) => p \in DOMAIN HeldAbove(name, j)
  <2> HIDE DEF j, above, i
  <2> QED BY <1>1, <1>4
<1>6. \A p \in DOMAIN i : p \in above => ~(x = t.node /\ p = t.input)
  <2> SUFFICES ASSUME NEW p \in DOMAIN i, p \in above, x = t.node, p = t.input PROVE FALSE
    OBVIOUS
  <2>1. t.input \in DOMAIN HeldAbove(name, j) BY <1>3, <1>5
  <2>2. name \in DOMAIN j BY <1>1
  <2> QED BY <2>1, <2>2 DEF NothingBelow
<1>7. \A p \in DOMAIN i : ~(x = t.node /\ p = t.input) => j[p] = i[p] BY DEF RespelledAt
<1> HIDE DEF i, j, above
<1>8. \A p \in DOMAIN j : p \in above =>
         /\ IsLiteral(j[p]) <=> IsLiteral(i[p])
         /\ IsLiteral(j[p]) => j[p] = i[p]
  BY <1>1, <1>2, <1>6, <1>7
<1>9. HeldAbove(name, j) = HeldAbove(name, i) BY <1>1, <1>8, HeldAboveAlike DEF above
<1> QED BY <1>9 DEF i, j

\* What is made of the number in its one spelling, is made of it in the other.
LEMMA NumberReadAgain ==
  ASSUME NEW g, NEW h, NEW t, RespelledAt(g, h, t), NothingBelow(h, t), NEW k, IsAdmitted(h, k, t)
  PROVE  /\ IsAdmitted(g, k, t)
         /\ ~IsHeld(g, k, t) /\ ~IsHeld(h, k, t)
         /\ LET c == CandidateAt(g, k, t)
                d == CandidateAt(h, k, t)
            IN  /\ d.role = c.role /\ d.numeric = c.numeric /\ d.class = c.class
                /\ d.input = c.input /\ d.value.v = c.value.v
                /\ IsNumber(c) /\ IsNumber(d)
<1> DEFINE x == Inputs(g, t.node)[t.input]
           y == Inputs(h, t.node)[t.input]
           class == Class(g, t.node)
           asked == ChosenShapeContract(k, class, t.input, Inputs(g, t.node))
           again == ChosenShapeContract(k, Class(h, t.node), t.input, Inputs(h, t.node))
           role == SanitizeRole(t.input)
           shaped == StructuralChoice(ShapesFor(asked, class, t.input), x)
           named == Classify(t.input, x)
           options == OptionsFor(asked, class, t.input)
<1>1. t.node \in DOMAIN g /\ t.input \in DOMAIN Inputs(g, t.node) BY DEF RespelledAt
<1>2. Class(h, t.node) = class /\ IsNumeral(x) /\ IsNumeral(y) /\ y.v = x.v
  BY <1>1 DEF RespelledAt
<1>3. HeldAbove(t.input, Inputs(h, t.node)) = HeldAbove(t.input, Inputs(g, t.node))
  BY <1>1, HeldAboveRespelled
<1>4. again = asked BY Zenon, <1>2, <1>3 DEF ChosenShapeContract
<1>5. LabelsAt(h, t) = LabelsAt(g, t)
  <2>1. Carries(g, h, Same(g)) /\ Same(g)[t.node] = t.node BY <1>1, RespelledCarries
  <2>2. IsGraph(g) BY DEF RespelledAt
  <2> QED BY <1>1, <2>1, <2>2, LabelsCarried DEF LabelsAt
<1>6. /\ ShapesFor(again, Class(h, t.node), t.input) = None
      /\ Classify(t.input, y).exposure = "expose" /\ role # << >>
      /\ JudgedAt(h, k, t) = Plain(Exposed(FieldTypeOf(y), role))
  BY <1>2, NumbersAdmitted
<1>7. Classify(t.input, x) = Exposed(FieldTypeOf(x), role) BY <1>2, <1>6, ExposedAlike
<1>8. JudgedAt(g, k, t) = Plain(Exposed(FieldTypeOf(x), role))
  <2>1. JudgedAt(g, k, t) = Settled(g, asked, t.node, t.input, x, shaped, named, options)
    BY Zenon DEF JudgedAt, Judged, JudgedUnder
  <2>2. ShapesFor(asked, class, t.input) = None BY <1>2, <1>4, <1>6
  <2> HIDE DEF asked, class, x, options, named
  <2>3. shaped = None BY <2>2 DEF StructuralChoice
  <2> HIDE DEF shaped
  <2>4. named.exposure # "uncertain" BY <1>7, VerdictFields DEF named
  <2>5. JudgedAt(g, k, t) = Plain(named) BY <2>1, <2>3, <2>4 DEF Settled
  <2> QED BY <1>7, <2>5 DEF named
<1>9. \A type : /\ Exposed(type, role).role = role /\ Exposed(type, role).media = None
                /\ Exposed(type, role).prompt = FALSE /\ Exposed(type, role).exposure = "expose"
                /\ Exposed(type, role).type = type
  BY DEF Exposed, Verdict
<1>10. \A type, labels : RoleFor(t.input, Exposed(type, role), labels) = role
  BY <1>6, <1>9 DEF RoleFor
<1>11. role # None /\ IsAdmitted(h, k, t)
  BY <1>6, <1>10 DEF IsAdmitted, HasRole, Plain
<1>12. IsAdmitted(g, k, t) BY <1>8, <1>9, <1>10, <1>11 DEF IsAdmitted, HasRole, Offered, Plain
<1>13. ~IsHeld(g, k, t) /\ ~IsHeld(h, k, t)
  BY <1>11, <1>12 DEF IsAdmitted, IsHeld, Offered
<1> DEFINE c == CandidateAt(g, k, t)
           d == CandidateAt(h, k, t)
<1>14. /\ c.role = role /\ d.role = role
       /\ c.verdict = Exposed(FieldTypeOf(x), role) /\ d.verdict = Exposed(FieldTypeOf(y), role)
       /\ c.value = x /\ d.value = y /\ c.class = class /\ d.class = class
       /\ c.input = t.input /\ d.input = t.input
       /\ c.numeric = NumericAt(g, k, t) /\ d.numeric = NumericAt(h, k, t)
  <2> HIDE DEF x, y, class, role
  <2> QED BY <1>2, <1>6, <1>8, <1>10, CandidatesAt DEF Plain, x, y, class
<1>15. /\ FieldTypeOf(x) \in NumericFieldTypes /\ FieldTypeOf(y) \in NumericFieldTypes
  BY <1>2 DEF IsNumeral, FieldTypeOf, NumericFieldTypes
<1>16. NumericAt(g, k, t) = NumericFor(asked, class, t.input)
  <2> HIDE DEF x
  <2>1. JudgedAt(g, k, t).verdict.type \in NumericFieldTypes BY <1>8, <1>9, <1>15 DEF Plain
  <2> QED BY <2>1 DEF NumericAt, DeclaredNumber
<1>17. NumericAt(h, k, t) = NumericFor(again, Class(h, t.node), t.input)
  <2> HIDE DEF y
  <2>1. JudgedAt(h, k, t).verdict.type \in NumericFieldTypes BY <1>6, <1>9, <1>15 DEF Plain
  <2> QED BY <2>1 DEF NumericAt, DeclaredNumber
<1>18. NumericAt(h, k, t) = NumericAt(g, k, t) BY <1>2, <1>4, <1>16, <1>17
<1>19. IsNumber(c) /\ IsNumber(d) BY <1>9, <1>14, <1>15 DEF IsNumber
<1> HIDE DEF c, d
<1>20. /\ d.role = c.role /\ d.numeric = c.numeric /\ d.class = c.class
       /\ d.input = c.input /\ d.value.v = c.value.v
  BY <1>2, <1>14, <1>18
<1> QED BY <1>12, <1>13, <1>19, <1>20 DEF c, d

\* What a number among the candidates is.
NumbersFit(C) ==
  \A c \in C : IsNumber(c) => /\ c.options = << >> /\ c.verdict.type = FieldTypeOf(c.value)
                              /\ IsNumeral(c.value) /\ IsValue(c.value)

LEMMA NumbersFitIn ==
  ASSUME NEW g, IsGraph(g), NEW k
  PROVE  NumbersFit(CandidatesOf(g, k))
<1> SUFFICES ASSUME NEW c \in CandidatesOf(g, k), IsNumber(c)
             PROVE  /\ c.options = << >> /\ c.verdict.type = FieldTypeOf(c.value)
                    /\ IsNumeral(c.value) /\ IsValue(c.value)
  BY DEF NumbersFit
<1> DEFINE t == Target(c)
           x == Inputs(g, t.node)[t.input]
<1>1. t \in LiteralInputs(g) /\ IsAdmitted(g, k, t) /\ c = CandidateAt(g, k, t) BY OfItsTarget
<1>2. /\ c.verdict = JudgedAt(g, k, t).verdict /\ c.options = JudgedAt(g, k, t).options
      /\ c.value = x
  <2> HIDE DEF t
  <2> QED BY <1>1, CandidatesAt
<1>3. t.node \in DOMAIN g /\ t.input \in DOMAIN Inputs(g, t.node) BY <1>1, Literals
<1>4. JudgedAt(g, k, t).verdict.exposure = "expose" BY <1>1 DEF IsAdmitted, Offered
<1>5. /\ Fits(JudgedAt(g, k, t).verdict, x)
      /\ JudgedAt(g, k, t).options # << >> => JudgedAt(g, k, t).verdict.type = "select"
  BY <1>4, JudgedFits DEF JudgedAt
<1> HIDE DEF t
<1>6. c.verdict.type \in {"integer", "float"} BY DEF IsNumber, NumericFieldTypes
<1>7. c.verdict.type = FieldTypeOf(x) BY <1>2, <1>5, <1>6 DEF Fits, NumericFieldTypes
<1>8. IsNumeral(x) BY <1>6, <1>7, NoneAssumption DEF FieldTypeOf, IsNumeral
<1>9. IsValue(x) BY <1>3 DEF IsGraph, IsNode, Inputs
<1> QED BY <1>2, <1>5, <1>6, <1>7, <1>8, <1>9

\* The numbers of one role that are one number, however written.
OneNumber(C, role, v) == {d \in C : IsNumber(d) /\ d.role = role /\ d.value.v = v}

LEMMA OneKeyEach ==
  ASSUME NEW C, NumbersFit(C), NEW role, NEW v,
         NEW c \in OneNumber(C, role, v), NEW e \in OneNumber(C, role, v),
         DeclaredAlike(c, e), c.value.kind = e.value.kind
  PROVE  Key(c) = Key(e)
<1>0. c \in C /\ e \in C /\ IsNumber(c) /\ IsNumber(e) /\ c.role = e.role /\ c.value.v = e.value.v
  BY DEF OneNumber
<1>1. c.value = e.value BY <1>0 DEF IsValue, NumbersFit
<1>2. c.verdict.type = e.verdict.type BY <1>0, <1>1 DEF NumbersFit
<1>3. c.options = << >> /\ e.options = << >> BY <1>0 DEF NumbersFit
<1>4. DeclarationKey(c) = DeclarationKey(e) BY <1>2 DEF DeclarationKey, DeclaredAlike
<1> QED BY <1>0, <1>1, <1>2, <1>3, <1>4 DEF Key

LEMMA JoinsWithin ==
  ASSUME NEW C, NEW K \in KeyGroups(C), NEW L \in KeyGroups(C), Joins(K, L), NEW role, NEW v
  PROVE  /\ K \subseteq OneNumber(C, role, v) <=> L \subseteq OneNumber(C, role, v)
         /\ K \cap OneNumber(C, role, v) = {} <=> L \cap OneNumber(C, role, v) = {}
<1> DEFINE S == OneNumber(C, role, v)
<1>1. K \subseteq C /\ L \subseteq C /\ K # {} /\ L # {} BY KeyGroupsOf
<1>2. \A c \in K, d \in L : IsNumber(c) /\ IsNumber(d) /\ c.role = d.role /\ c.value.v = d.value.v
  BY JoinsTells, JoinsTellsMore
<1>3. \A c \in K, d \in L : c \in S <=> d \in S BY <1>1, <1>2 DEF OneNumber
<1> HIDE DEF S
<1>4. K \subseteq S <=> L \subseteq S BY <1>1, <1>3
<1>5. K \cap S = {} <=> L \cap S = {} BY <1>1, <1>3
<1> QED BY <1>4, <1>5 DEF S

LEMMA KeyGroupsApart ==
  ASSUME NEW C, NEW role, NEW v
  PROVE  LET S == OneNumber(C, role, v) IN
           /\ \A K \in KeyGroups(C) : K \subseteq S \/ K \cap S = {}
           /\ KeyGroups(C \ S) = {K \in KeyGroups(C) : K \cap S = {}}
<1> DEFINE S == OneNumber(C, role, v)
           R == C \ S
<1>1. \A c, d \in C : Key(c) = Key(d) => (c \in S <=> d \in S)
  BY KeysTell DEF OneNumber
<1>2. S \subseteq C BY DEF OneNumber
<1> HIDE DEF S
<1>3. \A K \in KeyGroups(C) : K \subseteq S \/ K \cap S = {}
  BY <1>1, KeyGroupsOf
<1>4. \A c \in R : {d \in R : Key(d) = Key(c)} = {d \in C : Key(d) = Key(c)}
  BY <1>1
<1>5. \A K \in KeyGroups(R) : K \in KeyGroups(C) /\ K \cap S = {}
  <2> TAKE K \in KeyGroups(R)
  <2>1. PICK c \in R : K = {d \in R : Key(d) = Key(c)} BY DEF KeyGroups
  <2>2. K = {d \in C : Key(d) = Key(c)} BY <1>4, <2>1
  <2>3. K \in KeyGroups(C) BY <2>2 DEF KeyGroups
  <2> QED BY <2>1, <2>3
<1>6. \A K \in KeyGroups(C) : K \cap S = {} => K \in KeyGroups(R)
  <2> TAKE K \in KeyGroups(C)
  <2> HAVE K \cap S = {}
  <2>1. PICK c \in C : K = {d \in C : Key(d) = Key(c)} BY DEF KeyGroups
  <2>2. c \in R BY <2>1
  <2>3. K = {d \in R : Key(d) = Key(c)} BY <1>4, <2>1, <2>2
  <2> QED BY <2>2, <2>3 DEF KeyGroups
<1> QED BY <1>3, <1>5, <1>6 DEF S

\* Told alike by the runtime, they are one control, and the other groups are
\* what they would be without them.
LEMMA OneGroup ==
  ASSUME NEW C, NumbersFit(C), NEW role, NEW v, OneNumber(C, role, v) # {},
         \A c, d \in OneNumber(C, role, v) : DeclaredAlike(c, d)
  PROVE  ControlGroups(C)
           = {OneNumber(C, role, v)} \cup ControlGroups(C \ OneNumber(C, role, v))
<1> DEFINE S == OneNumber(C, role, v)
           all == KeyGroups(C)
           rest == KeyGroups(C \ S)
           With(K) == K \cup UNION {L \in all : Joins(K, L)}
           Without(K) == K \cup UNION {L \in rest : Joins(K, L)}
<1>1. /\ \A K \in all : K \subseteq S \/ K \cap S = {}
      /\ rest = {K \in all : K \cap S = {}}
  BY KeyGroupsApart
<1>2. \A K, L \in all : Joins(K, L) => (K \cap S = {} <=> L \cap S = {})
  BY JoinsWithin
<1>3. \A X : X \in ControlGroups(C) <=> \E K \in all : (\A L \in all : ~Joins(L, K)) /\ X = With(K)
  BY DEF ControlGroups, OneNumberHoweverWritten
<1>4. \A X : X \in ControlGroups(C \ S)
               <=> \E K \in rest : (\A L \in rest : ~Joins(L, K)) /\ X = Without(K)
  BY DEF ControlGroups, OneNumberHoweverWritten
<1>5. \A K \in rest : /\ With(K) = Without(K)
                      /\ (\A L \in all : ~Joins(L, K)) <=> (\A L \in rest : ~Joins(L, K))
  <2> HIDE DEF all, rest, S
  <2> TAKE K \in rest
  <2>1. K \in all /\ K \cap S = {} /\ rest \subseteq all BY <1>1
  <2>2. \A L \in all : Joins(K, L) => L \in rest BY <1>1, <1>2, <2>1
  <2>3. \A L \in all : Joins(L, K) => L \in rest BY <1>1, <1>2, <2>1
  <2> QED BY <2>1, <2>2, <2>3
<1>6. \A c \in S : \E K \in all : c \in K /\ K \subseteq S
  <2> TAKE c \in S
  <2> DEFINE K == {d \in C : Key(d) = Key(c)}
  <2>1. c \in C /\ c \in K BY DEF OneNumber
  <2>2. K \in all BY <2>1 DEF KeyGroups
  <2>3. c \in S OBVIOUS
  <2> HIDE DEF K, S
  <2>4. K \subseteq S BY <1>1, <2>1, <2>2, <2>3
  <2> QED BY <2>1, <2>2, <2>4
<1>7. \A c \in S : c \in C /\ IsNumber(c) /\ IsNumeral(c.value) /\ c.role = role /\ c.value.v = v
  BY DEF OneNumber, NumbersFit
<1>8. \A c, d \in S : c.value.kind = d.value.kind => Key(c) = Key(d)
  BY OneKeyEach
<1>9. \A K, L \in all : \A c \in K, d \in L :
         K \subseteq S /\ L \subseteq S /\ c.value.kind = d.value.kind => K = L
  <2> TAKE K, L \in all
  <2> TAKE c \in K, d \in L
  <2> HAVE K \subseteq S /\ L \subseteq S /\ c.value.kind = d.value.kind
  <2>1. Key(c) = Key(d) BY <1>8
  <2>2. K = {e \in C : Key(e) = Key(c)} /\ L = {e \in C : Key(e) = Key(d)} BY DEF KeyGroups
  <2> QED BY <2>1, <2>2
<1>10. \A K, L \in all : K \subseteq S /\ L \subseteq S =>
         (Joins(K, L) <=> (\A c \in K : c.value.kind = "int") /\ \A d \in L : d.value.kind = "float")
  <2> TAKE K, L \in all
  <2> HAVE K \subseteq S /\ L \subseteq S
  <2>1. Joins(K, L) <=> \A c \in K, d \in L : JoinsOne(c, d) BY JoinsIsForAll
  <2>2. K # {} /\ L # {} BY KeyGroupsOf
  <2>3. \A c \in K, d \in L : JoinsOne(c, d) <=> c.value.kind = "int" /\ d.value.kind = "float"
    <3> TAKE c \in K, d \in L
    <3>1. c \in S /\ d \in S OBVIOUS
    <3>2. DeclaredAlike(c, d) BY <3>1
    <3> HIDE DEF S
    <3> QED BY <1>7, <3>1, <3>2 DEF JoinsOne
  <2> QED BY <2>1, <2>2, <2>3
<1>11. \A K \in all : K # {} /\ \A c, d \in K : c.value.kind = d.value.kind
  BY KeyGroupsOf, KeysTell
<1>12. S # {} OBVIOUS
<1> HIDE DEF S, all, rest
<1>13. ASSUME NEW K \in all, K \subseteq S, \A L \in all : ~Joins(L, K)
       PROVE  With(K) = S
  <2>1. With(K) \subseteq S
    <3>1. \A L \in all : Joins(K, L) => L \subseteq S BY <1>1, <1>2, <1>11, <1>13
    <3> QED BY <1>13, <3>1
  <2>2. ASSUME NEW c \in S PROVE c \in With(K)
    <3>1. PICK L \in all : c \in L /\ L \subseteq S BY <1>6
    <3>2. PICK d \in K : TRUE BY <1>11
    <3>3. c.value.kind \in {"int", "float"} /\ d.value.kind \in {"int", "float"} /\ d \in S
      BY <1>7, <1>13, <2>2, <3>2 DEF IsNumeral
    <3>4. CASE c.value.kind = d.value.kind BY <1>9, <1>13, <3>1, <3>2, <3>4
    <3>5. CASE c.value.kind = "float" /\ d.value.kind = "int"
      <4>1. Joins(K, L) BY <1>10, <1>11, <1>13, <3>1, <3>2, <3>5
      <4> QED BY <3>1, <4>1
    <3>6. CASE c.value.kind = "int" /\ d.value.kind = "float"
      <4>1. Joins(L, K) BY <1>10, <1>11, <1>13, <3>1, <3>2, <3>6
      <4> QED BY <1>13, <4>1
    <3> QED BY <3>3, <3>4, <3>5, <3>6
  <2> QED BY <2>1, <2>2
<1>14. \E K \in all : K \subseteq S /\ \A L \in all : ~Joins(L, K)
  <2>1. PICK c \in S : TRUE BY <1>12
  <2>2. PICK K \in all : c \in K /\ K \subseteq S BY <1>6
  <2>3. CASE \A L \in all : ~Joins(L, K) BY <2>2, <2>3
  <2>4. CASE \E L \in all : Joins(L, K)
    <3>1. PICK L \in all : Joins(L, K) BY <2>4
    <3>2. L \subseteq S BY <1>1, <1>2, <1>11, <2>2, <3>1
    <3>3. \A d \in L : d.value.kind = "int" BY <1>10, <2>2, <3>1, <3>2
    <3>4. PICK d \in L : TRUE BY <1>11
    <3>5. ASSUME NEW M \in all, Joins(M, L) PROVE FALSE
      <4>1. M \subseteq S BY <1>1, <1>2, <1>11, <3>2, <3>5
      <4>2. d.value.kind = "float" BY <1>10, <3>2, <3>4, <3>5, <4>1
      <4> QED BY <3>3, <3>4, <4>2
    <3> QED BY <3>2, <3>5
  <2> QED BY <2>3, <2>4
<1> HIDE DEF With, Without
<1>15. ASSUME NEW X \in ControlGroups(C) PROVE X = S \/ X \in ControlGroups(C \ S)
  <2>1. PICK K \in all : (\A L \in all : ~Joins(L, K)) /\ X = With(K) BY <1>3
  <2>2. CASE K \subseteq S BY <1>13, <2>1, <2>2
  <2>3. CASE K \cap S = {}
    <3>1. K \in rest BY <1>1, <2>3
    <3>2. X = Without(K) /\ \A L \in rest : ~Joins(L, K) BY <1>5, <2>1, <3>1
    <3> QED BY <1>4, <3>1, <3>2
  <2> QED BY <1>1, <2>2, <2>3
<1>16. S \in ControlGroups(C) BY <1>3, <1>13, <1>14
<1>17. ASSUME NEW X \in ControlGroups(C \ S) PROVE X \in ControlGroups(C)
  <2>1. PICK K \in rest : (\A L \in rest : ~Joins(L, K)) /\ X = Without(K) BY <1>4
  <2>2. K \in all /\ X = With(K) /\ \A L \in all : ~Joins(L, K) BY <1>1, <1>5, <2>1
  <2> QED BY <1>3, <2>2
<1>18. ControlGroups(C) = {S} \cup ControlGroups(C \ S) BY <1>15, <1>16, <1>17
<1> QED BY <1>18 DEF S

\* OneControlEitherWay, of the graph and the contract alone.
OneControlIn(h, k, t) ==
  \E d \in CandidatesOf(h, k) :
    /\ NothingBelow(h, t) /\ Target(d) = t
    /\ \A x, y \in OneNumber(CandidatesOf(h, k), d.role, d.value.v) : DeclaredAlike(x, y)

LEMMA RespelledReadings ==
  ASSUME NEW g, NEW h, NEW t, RespelledAt(g, h, t), NothingBelow(h, t), NEW k, IsAdmitted(h, k, t)
  PROVE  /\ AlikeReadings(g, h, Same(g), k)
         /\ \A c \in CandidatesOf(g, k) : Target(c) # t => Again(g, h, Same(g), k)[c] = c
<1> DEFINE pi == Same(g)
<1>1. /\ Carries(g, h, pi) /\ \A x \in DOMAIN g : pi[x] = x
      /\ \A x \in DOMAIN g : \A name \in DOMAIN Inputs(g, x) :
           IsLiteral(Inputs(h, x)[name]) <=> IsLiteral(Inputs(g, x)[name])
  BY RespelledCarries
<1>2. IsGraph(g) BY DEF RespelledAt
<1> HIDE DEF pi
<1>3. /\ \A s \in LiteralInputs(g) : MovedBy(pi, s) \in LiteralInputs(h)
      /\ \A s \in LiteralInputs(h) : \E r \in LiteralInputs(g) : s = MovedBy(pi, r)
  BY <1>1, LiteralsCarried
<1>4. \A s \in LiteralInputs(g) : MovedBy(pi, s) = s
  BY <1>1, Literals DEF MovedBy
<1>5. ASSUME NEW s \in LiteralInputs(g), s # t
      PROVE  /\ AlikeAt(g, h, pi, k, s)
             /\ CandidateAt(h, k, s) = CandidateAt(g, k, s)
  <2>1. s.node \in DOMAIN g /\ s.input \in DOMAIN Inputs(g, s.node)
        /\ s = [node |-> s.node, input |-> s.input]
    BY Literals
  <2>2. s.node # t.node \/ s.input # t.input BY <1>5, <2>1 DEF RespelledAt
  <2>3. Inputs(h, s.node)[s.input] = Inputs(g, s.node)[s.input]
    BY <2>1, <2>2 DEF RespelledAt
  <2>4. HeldAbove(s.input, Inputs(h, s.node)) = HeldAbove(s.input, Inputs(g, s.node))
    BY <2>1, HeldAboveRespelled
  <2>5. pi[s.node] = s.node BY <1>1, <2>1
  <2>6. AlikeAt(g, h, pi, k, s) BY <1>1, <1>2, <2>3, <2>4, <2>5, ReadAlike
  <2>7. /\ JudgedAt(h, k, s) = JudgedAt(g, k, s) /\ LabelsAt(h, s) = LabelsAt(g, s)
        /\ SameKeyed(CandidateAt(h, k, s), CandidateAt(g, k, s))
    BY <1>4, <2>6 DEF AlikeAt
  <2>8. NumericAt(h, k, s) = NumericAt(g, k, s) BY <2>7, CandidatesAt DEF SameKeyed
  <2>9. Class(h, s.node) = Class(g, s.node) /\ h[s.node].title = g[s.node].title
    BY <2>1 DEF RespelledAt
  <2>10. CandidateAt(h, k, s) = CandidateAt(g, k, s)
    BY Zenon, <2>3, <2>7, <2>8, <2>9 DEF CandidateAt, CandidateBy
  <2> QED BY <2>6, <2>10
<1>6. /\ IsAdmitted(g, k, t) /\ ~IsHeld(g, k, t) /\ ~IsHeld(h, k, t)
      /\ CandidateAt(h, k, t).role = CandidateAt(g, k, t).role
  BY NumberReadAgain
<1>7. ASSUME NEW s \in LiteralInputs(g)
      PROVE  /\ IsAdmitted(h, k, MovedBy(pi, s)) <=> IsAdmitted(g, k, s)
             /\ IsHeld(h, k, MovedBy(pi, s)) <=> IsHeld(g, k, s)
             /\ CandidateAt(h, k, MovedBy(pi, s)).role = CandidateAt(g, k, s).role
  <2>1. CASE s = t BY <1>4, <1>6, <2>1
  <2>2. CASE s # t BY <1>5, <2>2 DEF AlikeAt, SameKeyed
  <2> QED BY <2>1, <2>2
<1>8. AlikeReadings(g, h, pi, k) BY <1>1, <1>2, <1>3, <1>7 DEF AlikeReadings
<1>9. ASSUME NEW c \in CandidatesOf(g, k), Target(c) # t PROVE Again(g, h, pi, k)[c] = c
  <2>1. Target(c) \in LiteralInputs(g) /\ c = CandidateAt(g, k, Target(c)) BY OfItsTarget
  <2>2. CandidateAt(h, k, Target(c)) = c BY <1>5, <1>9, <2>1
  <2> QED BY <1>4, <2>1, <2>2 DEF Again
<1> QED BY <1>8, <1>9 DEF pi

LEMMA IdsOutliveRespelling ==
  ASSUME NEW g, NEW h, NEW t, RespelledAt(g, h, t), IsGraph(h), NEW k,
         IsFiniteSet(CandidatesOf(g, k)), OneControlIn(h, k, t)
  PROVE  /\ ReviewIn(h, k) <=> ReviewIn(g, k)
         /\ IdsIn(h, k) = {<<p[1], {MovedBy(Same(g), s) : s \in p[2]}>> : p \in IdsIn(g, k)}
<1> DEFINE pi == Same(g)
           C == CandidatesOf(g, k)
           D == CandidatesOf(h, k)
           phi == Again(g, h, pi, k)
<1>1. PICK d0 \in D :
        /\ NothingBelow(h, t) /\ Target(d0) = t
        /\ \A x, y \in OneNumber(D, d0.role, d0.value.v) : DeclaredAlike(x, y)
  BY DEF OneControlIn
<1>2. IsAdmitted(h, k, t) /\ d0 = CandidateAt(h, k, t) BY <1>1, OfItsTarget
<1>3. AlikeReadings(g, h, pi, k) /\ \A c \in C : Target(c) # t => phi[c] = c
  BY <1>1, <1>2, RespelledReadings
<1> DEFINE c0 == CandidateAt(g, k, t)
           role == d0.role
           v == d0.value.v
<1>4. IsAdmitted(g, k, t) /\ /\ d0.role = c0.role /\ d0.numeric = c0.numeric
                             /\ d0.class = c0.class /\ d0.input = c0.input
                             /\ d0.value.v = c0.value.v /\ IsNumber(c0) /\ IsNumber(d0)
  BY <1>1, <1>2, NumberReadAgain
<1>5. t \in LiteralInputs(g)
  <2>1. t.node \in DOMAIN g /\ t.input \in DOMAIN Inputs(g, t.node)
        /\ t = [node |-> t.node, input |-> t.input] /\ IsNumeral(Inputs(g, t.node)[t.input])
    BY DEF RespelledAt
  <2>2. IsLiteral(Inputs(g, t.node)[t.input])
    BY <2>1, NoneAssumption DEF IsNumeral, IsLiteral, FieldTypeOf
  <2> QED BY <2>1, <2>2 DEF LiteralInputs
<1>6. c0 \in C /\ Target(c0) = t
  BY <1>4, <1>5, CandidatesAt, Literals DEF CandidatesOf, AdmittedIn
<1>7. \A c \in C : Target(c) = t => c = c0 BY OfItsTarget
<1>8. phi[c0] = d0
  <2>1. MovedBy(pi, t) = t
    BY <1>5, Literals, RespelledCarries DEF MovedBy
  <2> QED BY <1>2, <1>6, <2>1 DEF Again
<1>9. ImageOf(phi, C) = D /\ \A c, d \in C : phi[c] = phi[d] => c = d
  BY <1>3, ReadAgain DEF Matches
<1>10. NumbersFit(C) /\ NumbersFit(D)
  BY NumbersFitIn DEF RespelledAt
<1> HIDE DEF c0, phi, C, D, pi
<1>11. \A c \in C : \/ phi[c] = c
                    \/ c = c0 /\ phi[c] = d0
  BY <1>3, <1>7, <1>8
<1>12. \A c \in C : /\ phi[c].role = c.role /\ phi[c].numeric = c.numeric
                    /\ phi[c].class = c.class /\ phi[c].input = c.input
                    /\ phi[c].value.v = c.value.v
                    /\ IsNumber(phi[c]) <=> IsNumber(c)
  BY <1>4, <1>11
<1> DEFINE S == OneNumber(C, role, v)
           T == OneNumber(D, role, v)
<1>13. \A c \in C : phi[c] \in T <=> c \in S
  <2> TAKE c \in C
  <2>1. phi[c] \in D BY <1>9 DEF ImageOf
  <2> HIDE DEF role, v
  <2> QED BY <1>12, <2>1 DEF OneNumber
<1>14. c0 \in S BY <1>4, <1>6 DEF OneNumber
<1>15. d0 \in T BY <1>1, <1>4 DEF OneNumber
<1>16. \A d \in D : \E c \in C : d = phi[c] BY <1>9 DEF ImageOf
<1>17. S \subseteq C /\ T \subseteq D BY DEF OneNumber
<1>18. \A x, y \in S : DeclaredAlike(x, y)
  <2> TAKE x, y \in S
  <2>1. phi[x] \in T /\ phi[y] \in T BY <1>13, <1>17
  <2>2. DeclaredAlike(phi[x], phi[y]) BY <1>1, <2>1
  <2>3. x \in C /\ y \in C BY <1>17
  <2> HIDE DEF S, T
  <2> QED BY <1>12, <2>2, <2>3 DEF DeclaredAlike
<1>19. ControlGroups(C) = {S} \cup ControlGroups(C \ S)
  BY <1>10, <1>14, <1>18, OneGroup
<1>20. ControlGroups(D) = {T} \cup ControlGroups(D \ T)
  BY <1>1, <1>10, <1>15, OneGroup
<1> HIDE DEF S, T
<1>21. D \ T = C \ S
  <2>1. ASSUME NEW d \in D \ T PROVE d \in C \ S
    <3>1. PICK c \in C : d = phi[c] BY <1>16
    <3>2. c \notin S BY <1>13, <2>1, <3>1
    <3> QED BY <1>11, <1>14, <3>1, <3>2
  <2>2. ASSUME NEW c \in C \ S PROVE c \in D \ T
    <3>1. phi[c] = c BY <1>11, <1>14
    <3>2. phi[c] \in D BY <1>9 DEF ImageOf
    <3> QED BY <1>13, <3>1, <3>2
  <2> QED BY <2>1, <2>2
<1>22. ImageOf(phi, S) = T
  <2>1. \A c \in S : phi[c] \in T BY <1>13, <1>17
  <2>2. \A d \in T : \E c \in S : d = phi[c] BY <1>13, <1>16, <1>17
  <2> QED BY <2>1, <2>2 DEF ImageOf
<1>23. \A G \in ControlGroups(C \ S) : ImageOf(phi, G) = G
  <2> TAKE G \in ControlGroups(C \ S)
  <2>1. G \subseteq C \ S BY GroupsOfCandidates
  <2>2. \A c \in G : phi[c] = c BY <1>11, <1>14, <2>1
  <2> QED BY <2>2 DEF ImageOf
<1>24. Images(phi, ControlGroups(C)) = {T} \cup ControlGroups(C \ S)
  <2>1. \A G \in ControlGroups(C) : ImageOf(phi, G) \in {T} \cup ControlGroups(C \ S)
    BY <1>19, <1>22, <1>23
  <2>2. \A H \in {T} \cup ControlGroups(C \ S) : \E G \in ControlGroups(C) : H = ImageOf(phi, G)
    BY <1>19, <1>22, <1>23
  <2> QED BY <2>1, <2>2 DEF Images
<1>25. ControlGroups(D) = Images(phi, ControlGroups(C)) BY <1>20, <1>21, <1>24
<1> QED BY <1>3, <1>25, IdsAgain DEF C, D, phi, pi

(***************************************************************************)
(* The reading, as far as it has come, is what the graph and the contract  *)
(* alone make of it.                                                       *)
(***************************************************************************)

SoFar == LiteralInputs(graph) \ todo
IsForReview(c) == c.section = "needs_review"

CandidatesSoFar ==
  candidates = {CandidateAt(graph, contract, t) :
                  t \in {t \in SoFar : IsAdmitted(graph, contract, t)}}
HeldSoFar ==
  ~Done => ((\E c \in controls : IsForReview(c)) <=> \E t \in SoFar : IsHeld(graph, contract, t))
PlanIsOfTheGraph ==
  Done => /\ plan.review \in BOOLEAN /\ (plan.review <=> ReviewIn(graph, contract))
          /\ {<<f.draft.id, f.draft.targets>> : f \in plan.fields} = IdsIn(graph, contract)

\* The plan before is that of a graph this one is an export of.
ExportOf(old, g, how) ==
  \/ \E n, m \in DOMAIN old :
       how = [kind |-> "renumbered", n |-> n, m |-> m] /\ g = Renumbered(old, n, m)
  \/ \E n \in DOMAIN old : \E name \in DOMAIN Inputs(old, n) :
       /\ how = [kind |-> "respelled", node |-> n, input |-> name]
       /\ IsNumeral(Inputs(old, n)[name])
       /\ g = [old EXCEPT ![n].in[name] = Respelled(@)]
PlanWas(old, k, was) ==
  /\ was.review \in BOOLEAN /\ (was.review <=> ReviewIn(old, k))
  /\ {<<f.draft.id, f.draft.targets>> : f \in was.fields} = IdsIn(old, k)
BeforeIsOfAnExport ==
  before # None =>
    \E old : /\ IsGraph(old) /\ IsFiniteSet(CandidatesOf(old, contract))
             /\ PlanWas(old, contract, before.plan) /\ ExportOf(old, graph, before.how)

ReadingInv == CandidatesSoFar /\ HeldSoFar /\ PlanIsOfTheGraph /\ BeforeIsOfAnExport

LEMMA UncertainIsNoMedia ==
  ASSUME NEW g, NEW k, NEW t, JudgedAt(g, k, t).verdict.exposure = "uncertain"
  PROVE  JudgedAt(g, k, t).verdict.media = None
<1> DEFINE x == Inputs(g, t.node)[t.input]
           class == Class(g, t.node)
           asked == ChosenShapeContract(k, class, t.input, Inputs(g, t.node))
           shaped == StructuralChoice(ShapesFor(asked, class, t.input), x)
           named == Classify(t.input, x)
           options == OptionsFor(asked, class, t.input)
           judged == JudgedAt(g, k, t)
<1>1. judged = Settled(g, asked, t.node, t.input, x, shaped, named, options)
  BY Zenon DEF JudgedAt, Judged, JudgedUnder
<1>2. Uncertain.media = None /\ \A kind : Locked(kind).media = None
  BY DEF Uncertain, Locked, Verdict
<1>3. shaped # None => shaped.media = None BY <1>2 DEF StructuralChoice
<1> HIDE DEF x, asked, class, shaped, named, options, judged
<1>4. CASE shaped # None
  <2>1. judged = Plain(shaped) BY <1>1, <1>4 DEF Settled
  <2> QED BY <1>3, <1>4, <2>1 DEF Plain, judged
<1>5. CASE shaped = None /\ named.exposure # "uncertain"
  <2>1. judged = Plain(named) BY <1>1, <1>5 DEF Settled
  <2> QED BY <1>5, <2>1 DEF Plain, judged
<1>6. CASE shaped = None /\ named.exposure = "uncertain" /\ options # None
  <2>1. judged = AskTheRuntime(options, class, t.input, x) BY <1>1, <1>6 DEF Settled, class
  <2>2. judged.verdict.media = None
    <3>1. \A role : Exposed("select", role).media = None BY VerdictFields
    <3> QED BY <1>2, <2>1, <3>1 DEF AskTheRuntime, Plain
  <2> QED BY <2>2 DEF judged
<1>7. CASE shaped = None /\ named.exposure = "uncertain" /\ options = None
  <2> DEFINE verdict == WithoutAList(g, asked, t.node, t.input, x)
             rules == RulesWithoutAList(g, asked, t.node, t.input, x)
  <2>1. judged = Plain(verdict) BY <1>1, <1>7 DEF Settled
  <2>2. DOMAIN rules = 1..5 BY DEF RulesWithoutAList
  <2>3. rules[5].when BY DEF RulesWithoutAList
  <2>4. /\ rules[1].then = Locked("computation") /\ rules[2].then = Locked("model_patch")
        /\ rules[3].then = ExposedPrompt(t.input)
        /\ rules[4].then = Locked("declared_default") /\ rules[5].then = Uncertain
    BY DEF RulesWithoutAList
  <2>5. verdict = FirstOf(rules) BY DEF WithoutAList
  <2> HIDE DEF rules, verdict
  <2>6. 5 \in Nat /\ \E i \in 1..5 : rules[i].when BY <2>3
  <2>7. \E i \in 1..5 : FirstOf(rules) = rules[i].then BY Zenon, <2>2, <2>6, FirstApplies
  <2>8. verdict.media = None BY <1>2, <2>4, <2>5, <2>7, VerdictFields
  <2> QED BY <2>1, <2>8 DEF Plain, judged
<1> QED BY <1>4, <1>5, <1>6, <1>7

LEMMA ConsiderReads ==
  ASSUME IInv, ReadingInv, Consider
  PROVE  ReadingInv'
<1>1. PICK t \in todo : Decided(t, Judged(graph, contract, t.node, t.input),
                                DownstreamLabels(graph, t.node))
  BY DEF Consider
<1> DEFINE judged == JudgedAt(graph, contract, t)
           labels == LabelsAt(graph, t)
           admitted == IsAdmitted(graph, contract, t)
           held == IsHeld(graph, contract, t)
           c0 == CandidateAt(graph, contract, t)
<1>2. Decided(t, judged, labels) BY <1>1 DEF JudgedAt, LabelsAt
<1>3. t \in LiteralInputs(graph) /\ t = [node |-> t.node, input |-> t.input]
  BY Literals DEF IInv, AllIsReadFirst
<1>4. /\ UNCHANGED <<graph, contract, plan, before>> /\ todo' = todo \ {t}
  BY <1>2 DEF Decided, Lock, Hold, SetAside, HasNoRole, Admit, Decide
<1>5. ~Done /\ ~Done' BY <1>4 DEF IInv, AllIsReadFirst, Done
<1>6. SoFar' = SoFar \cup {t} BY <1>3, <1>4 DEF SoFar
<1>7. Candidate(t, judged, labels) = c0
  BY Zenon DEF Candidate, CandidateAt, CandidateBy, NumericAt
<1>8. /\ admitted <=> Offered(judged, labels) /\ RoleFor(t.input, judged.verdict, labels) # None
      /\ held <=> \/ judged.verdict.exposure = "uncertain"
                  \/ Offered(judged, labels) /\ RoleFor(t.input, judged.verdict, labels) = None
  BY DEF IsAdmitted, IsHeld, HasRole
<1>9. judged.verdict.exposure = "uncertain" => judged.verdict.media = None
  BY UncertainIsNoMedia
<1>10. Offered(judged, labels) =>
         /\ judged.verdict.exposure = "expose"
         /\ judged.verdict.media # None => ~IsTechnicalMedia(judged.verdict, labels)
  BY DEF Offered
<1>11. \/ /\ ~admitted /\ ~held /\ candidates' = candidates
          /\ \E kind : controls' = controls \cup {Control(t, "locked", kind, None)}
       \/ /\ ~admitted /\ ~held /\ candidates' = candidates
          /\ \E kind : controls' = controls \cup {Control(t, "technical", kind, None)}
       \/ /\ ~admitted /\ held /\ candidates' = candidates
          /\ \E kind : controls' = controls \cup {Control(t, "needs_review", kind, None)}
       \/ /\ admitted /\ ~held /\ candidates' = candidates \cup {c0} /\ controls' = controls
  <2> HIDE DEF judged, labels, admitted, held, c0
  <2>1. CASE Lock(t, judged) BY <1>8, <1>10, <2>1 DEF Lock, Decide
  <2>2. CASE Hold(t, judged) BY <1>8, <1>10, <2>2 DEF Hold, Decide
  <2>3. CASE SetAside(t, judged, labels) BY <1>8, <1>9, <1>10, <2>3 DEF SetAside, Decide
  <2>4. CASE HasNoRole(t, judged, labels) BY <1>8, <1>10, <2>4 DEF HasNoRole, Decide
  <2>5. CASE Admit(t, judged, labels) BY <1>7, <1>8, <1>10, <2>5 DEF Admit
  <2> QED BY <1>2, <2>1, <2>2, <2>3, <2>4, <2>5 DEF Decided
<1>12. CandidatesSoFar'
  <2>1. candidates = {CandidateAt(graph, contract, s) :
                        s \in {s \in SoFar : IsAdmitted(graph, contract, s)}}
    BY DEF ReadingInv, CandidatesSoFar
  <2>2. candidates' = IF admitted THEN candidates \cup {c0} ELSE candidates BY <1>11
  <2>3. {s \in SoFar' : IsAdmitted(graph, contract, s)}
          = {s \in SoFar : IsAdmitted(graph, contract, s)} \cup (IF admitted THEN {t} ELSE {})
    BY <1>6
  <2>4. candidates' = {CandidateAt(graph, contract, s) :
                         s \in {s \in SoFar' : IsAdmitted(graph, contract, s)}}
    <3> DEFINE At(s) == CandidateAt(graph, contract, s)
               A == {s \in SoFar : IsAdmitted(graph, contract, s)}
               B == {s \in SoFar' : IsAdmitted(graph, contract, s)}
    <3>1. candidates = {At(s) : s \in A} /\ c0 = At(t)
          /\ B = A \cup (IF admitted THEN {t} ELSE {})
      BY <2>1, <2>3
    <3> HIDE DEF At, A, B, admitted, c0
    <3>2. candidates' = {At(s) : s \in B} BY <2>2, <3>1
    <3> QED BY <3>2 DEF At, B
  <2> QED BY <1>4, <2>4 DEF CandidatesSoFar
<1>13. HeldSoFar'
  <2>1. (\E c \in controls : IsForReview(c)) <=> \E s \in SoFar : IsHeld(graph, contract, s)
    BY <1>5 DEF ReadingInv, HeldSoFar
  <2>2. \A section, kind : Control(t, section, kind, None).section = section BY DEF Control
  <2>3. (\E c \in controls' : IsForReview(c)) <=> (held \/ \E c \in controls : IsForReview(c))
    <3> HIDE DEF held, admitted
    <3> QED BY <1>11, <2>2 DEF IsForReview
  <2>4. (\E s \in SoFar' : IsHeld(graph, contract, s))
          <=> (held \/ \E s \in SoFar : IsHeld(graph, contract, s))
    BY <1>6
  <2> QED BY <1>4, <2>1, <2>3, <2>4 DEF HeldSoFar
<1>14. PlanIsOfTheGraph' BY <1>5 DEF PlanIsOfTheGraph
<1>15. BeforeIsOfAnExport' BY <1>4 DEF ReadingInv, BeforeIsOfAnExport
<1> QED BY <1>12, <1>13, <1>14, <1>15 DEF ReadingInv

\* What is concluded of the candidates is their groups' ids.
LEMMA IdsFound ==
  ASSUME IInv
  PROVE  LET found == FieldsFrom(graph, candidates) IN
           /\ {<<f.draft.id, f.draft.targets>> : f \in found.fields} = IdsOf(graph, candidates)
           /\ RejectedControls(found.rejected) # {} <=> NoneKept(graph, candidates)
           /\ \A x \in FieldControls(found.fields) : ~IsForReview(x)
           /\ \A x \in RejectedControls(found.rejected) : IsForReview(x)
<1> DEFINE all == ControlGroups(candidates)
           depths == Depths(graph, all)
           found == FieldsFrom(graph, candidates)
           kept == all \ Rejected(depths)
<1>1. PICK draft :
        /\ found.rejected = Rejected(depths) /\ Rejected(depths) \subseteq all
        /\ {f.draft : f \in found.fields} = {draft[g] : g \in kept}
        /\ \A g \in kept :
             /\ FieldOf(draft[g], g)
             /\ draft[g].id = [role |-> FirstMember(g).role, mark |-> MarkGiven(depths, g)]
  BY WhatIsFound
<1>2. \A g \in all : RoleOf(g) = FirstMember(g).role
  <2> TAKE g \in all
  <2>1. FirstMember(g) \in g /\ \A c, d \in g : c.role = d.role
    BY FirstOfAGroup, GroupsOfCandidates
  <2> QED BY <2>1 DEF RoleOf
<1>3. \A g \in kept : draft[g].targets = {Target(c) : c \in g} BY <1>1, PartsOfAField
<1> DEFINE Id(g) == <<[role |-> RoleOf(g), mark |-> MarkIn(graph, depths, g)], {Target(c) : c \in g}>>
<1>4. \A g \in kept : <<draft[g].id, draft[g].targets>> = Id(g)
  BY <1>1, <1>2, <1>3 DEF MarkGiven, MarkIn
<1>5. IdsOf(graph, candidates) = {Id(g) : g \in kept} BY Zenon DEF IdsOf
<1>6. {<<f.draft.id, f.draft.targets>> : f \in found.fields} = {Id(g) : g \in kept}
  <2> HIDE DEF Id, kept, found
  <2>1. \A f \in found.fields : \E g \in kept : f.draft = draft[g] BY <1>1
  <2>2. \A g \in kept : \E f \in found.fields : f.draft = draft[g] BY <1>1
  <2>3. \A f \in found.fields : \E g \in kept : <<f.draft.id, f.draft.targets>> = Id(g)
    BY <1>4, <2>1
  <2>4. \A g \in kept : \E f \in found.fields : <<f.draft.id, f.draft.targets>> = Id(g)
    BY <1>4, <2>2
  <2> QED BY <2>3, <2>4
<1>7. RejectedControls(found.rejected) # {} <=> NoneKept(graph, candidates)
  <2>1. \A g \in all : g # {} BY GroupsOfCandidates
  <2>2. RejectedControls(found.rejected)
          = {Control(Target(c), "needs_review", None, None) : c \in UNION Rejected(depths)}
    BY <1>1 DEF RejectedControls
  <2>3. (UNION Rejected(depths)) # {} <=> Rejected(depths) # {} 
    <3> HIDE DEF all, depths
    <3> QED BY <1>1, <2>1
  <2>4. NoneKept(graph, candidates) <=> Rejected(depths) # {} BY DEF NoneKept
  <2> HIDE DEF depths
  <2> QED BY <2>2, <2>3, <2>4
<1>8. /\ \A x \in FieldControls(found.fields) : InAField(x)
      /\ \A x \in RejectedControls(found.rejected) : x.section = "needs_review"
  BY GroupsAnswer
<1> HIDE DEF Id, found
<1>9. /\ \A x \in FieldControls(found.fields) : ~IsForReview(x)
      /\ \A x \in RejectedControls(found.rejected) : IsForReview(x)
  BY <1>8 DEF InAField, IsForReview
<1> QED BY <1>5, <1>6, <1>7, <1>9 DEF found

LEMMA ConcludeReads ==
  ASSUME IInv, ReadingInv, Conclude
  PROVE  ReadingInv'
<1> DEFINE found == FieldsFrom(graph, candidates)
           inFields == FieldControls(found.fields)
           rejected == RejectedControls(found.rejected)
           held == {c \in controls' : c.section = "needs_review"}
<1>1. /\ UNCHANGED <<graph, contract, todo, candidates, before>> /\ todo = {} /\ ~Done
      /\ controls' = controls \cup inFields \cup rejected
      /\ plan' = [read |-> TRUE, review |-> held # {},
                  fields |-> IF held = {} THEN found.fields ELSE {}]
  BY DEF Conclude, Planned, Done
<1>2. /\ {<<f.draft.id, f.draft.targets>> : f \in found.fields} = IdsOf(graph, candidates)
      /\ rejected # {} <=> NoneKept(graph, candidates)
      /\ \A x \in inFields : ~IsForReview(x)
      /\ \A x \in rejected : IsForReview(x)
  BY IdsFound
<1>3. candidates = CandidatesOf(graph, contract)
  BY <1>1 DEF ReadingInv, CandidatesSoFar, SoFar, CandidatesOf, AdmittedIn
<1>4. (\E c \in controls : IsForReview(c))
        <=> \E t \in LiteralInputs(graph) : IsHeld(graph, contract, t)
  BY <1>1 DEF ReadingInv, HeldSoFar, SoFar
<1> HIDE DEF found, inFields, rejected
<1>5. held # {} <=> (\E c \in controls : IsForReview(c)) \/ rejected # {}
  BY <1>1, <1>2 DEF IsForReview
<1>6. held # {} <=> ReviewIn(graph, contract) BY <1>2, <1>3, <1>4, <1>5 DEF ReviewIn
<1> HIDE DEF held
<1>7. {<<f.draft.id, f.draft.targets>> : f \in plan'.fields} = IdsIn(graph, contract)
  <2>1. CASE held = {}
    <3>1. plan'.fields = found.fields BY <1>1, <2>1
    <3>2. IdsIn(graph, contract) = IdsOf(graph, candidates) BY <1>3, <1>6, <2>1 DEF IdsIn
    <3> QED BY <1>2, <3>1, <3>2
  <2>2. CASE held # {}
    <3>1. plan'.fields = {} BY <1>1, <2>2
    <3>2. IdsIn(graph, contract) = {} BY <1>6, <2>2 DEF IdsIn
    <3> QED BY <3>1, <3>2
  <2> QED BY <2>1, <2>2
<1>8. plan'.review \in BOOLEAN /\ (plan'.review <=> ReviewIn(graph, contract))
  BY <1>1, <1>6
<1>9. PlanIsOfTheGraph' BY <1>1, <1>7, <1>8 DEF PlanIsOfTheGraph
<1>10. CandidatesSoFar' BY <1>1 DEF ReadingInv, CandidatesSoFar, SoFar
<1>11. HeldSoFar' BY <1>1 DEF HeldSoFar, Done
<1>12. BeforeIsOfAnExport' BY <1>1 DEF ReadingInv, BeforeIsOfAnExport
<1> QED BY <1>9, <1>10, <1>11, <1>12 DEF ReadingInv

LEMMA RereadReads ==
  ASSUME IInv, ReadingInv, NEW g, NEW how, Reread(g, how), ExportOf(graph, g, how)
  PROVE  ReadingInv'
<1>1. /\ Done /\ ~Done' /\ graph' = g /\ todo' = LiteralInputs(g) /\ candidates' = {}
      /\ controls' = {} /\ before' = [plan |-> plan, how |-> how] /\ contract' = contract
  BY DEF Reread, Unread, Done
<1>2. SoFar' = {} BY <1>1 DEF SoFar
<1>3. CandidatesSoFar' BY <1>1, <1>2 DEF CandidatesSoFar
<1>4. HeldSoFar' BY <1>1, <1>2 DEF HeldSoFar
<1>5. PlanIsOfTheGraph' BY <1>1 DEF PlanIsOfTheGraph
<1>6. candidates = CandidatesOf(graph, contract)
  BY <1>1 DEF IInv, AllIsReadFirst, ReadingInv, CandidatesSoFar, SoFar, CandidatesOf, AdmittedIn
<1>7. IsFiniteSet(CandidatesOf(graph, contract)) BY <1>6 DEF IInv, CandidatesAreJudged
<1>8. PlanWas(graph, contract, plan) BY <1>1 DEF ReadingInv, PlanIsOfTheGraph, PlanWas
<1>9. before'.plan = plan /\ before'.how = how BY <1>1
<1>10. IsGraph(graph) BY DEF IInv
<1>11. \E old : /\ IsGraph(old) /\ IsFiniteSet(CandidatesOf(old, contract'))
                /\ PlanWas(old, contract', before'.plan) /\ ExportOf(old, graph', before'.how)
  BY <1>1, <1>7, <1>8, <1>9, <1>10
<1>12. BeforeIsOfAnExport' BY <1>11 DEF BeforeIsOfAnExport
<1> QED BY <1>3, <1>4, <1>5, <1>12 DEF ReadingInv

LEMMA StepsRead ==
  ASSUME IInv, ReadingInv, [Next]_vars
  PROVE  ReadingInv'
<1>1. CASE Consider BY <1>1, ConsiderReads
<1>2. CASE Conclude BY <1>2, ConcludeReads
<1>3. CASE \E n, m \in DOMAIN graph : Renumber(n, m)
  <2>1. PICK n \in DOMAIN graph, m \in DOMAIN graph : Renumber(n, m) BY <1>3
  <2> DEFINE g == Renumbered(graph, n, m)
             how == [kind |-> "renumbered", n |-> n, m |-> m]
  <2>2. Reread(g, how) BY <2>1 DEF Renumber
  <2>3. ExportOf(graph, g, how) BY DEF ExportOf
  <2> HIDE DEF g, how
  <2> QED BY <2>2, <2>3, RereadReads
<1>4. CASE \E n \in DOMAIN graph : \E name \in DOMAIN Inputs(graph, n) : Respell(n, name)
  <2>1. PICK n \in DOMAIN graph : \E name \in DOMAIN Inputs(graph, n) : Respell(n, name)
    BY <1>4
  <2>2. PICK name \in DOMAIN Inputs(graph, n) : Respell(n, name) BY <2>1
  <2> DEFINE g == [graph EXCEPT ![n].in[name] = Respelled(@)]
             how == [kind |-> "respelled", node |-> n, input |-> name]
  <2>3. Reread(g, how) /\ IsNumeral(Inputs(graph, n)[name]) BY <2>2 DEF Respell, IsNumeral
  <2>4. ExportOf(graph, g, how) BY <2>3 DEF ExportOf
  <2> HIDE DEF g, how
  <2> QED BY <2>3, <2>4, RereadReads
<1>5. CASE UNCHANGED vars
  BY <1>5 DEF vars, ReadingInv, CandidatesSoFar, HeldSoFar, PlanIsOfTheGraph,
              BeforeIsOfAnExport, SoFar, Done
<1> QED BY <1>1, <1>2, <1>3, <1>4, <1>5 DEF Next

LEMMA InitReads ==
  ASSUME Init
  PROVE  ReadingInv
<1>1. ~Done /\ SoFar = {} BY DEF Init, Unread, Done, SoFar
<1> QED BY <1>1 DEF Init, ReadingInv, CandidatesSoFar, HeldSoFar, PlanIsOfTheGraph,
                    BeforeIsOfAnExport

(***************************************************************************)
(* The ids of one plan and of the next.                                    *)
(***************************************************************************)

\* What an id is bound to are inputs of the graph.
LEMMA IdsTargets ==
  ASSUME NEW g, NEW k, NEW p \in IdsIn(g, k), NEW t \in p[2]
  PROVE  t \in LiteralInputs(g)
<1> DEFINE C == CandidatesOf(g, k)
           depths == Depths(g, ControlGroups(C))
<1>1. p \in IdsOf(g, C) BY DEF IdsIn
<1>2. \E G \in ControlGroups(C) : p[2] = {Target(c) : c \in G}
  <2>1. IdsOf(g, C) = {<<[role |-> RoleOf(G), mark |-> MarkIn(g, depths, G)],
                         {Target(c) : c \in G}>> : G \in ControlGroups(C) \ Rejected(depths)}
    BY Zenon DEF IdsOf
  <2> HIDE DEF C, depths
  <2> QED BY <1>1, <2>1
<1>3. PICK G \in ControlGroups(C) : p[2] = {Target(c) : c \in G} BY <1>2
<1>4. G \subseteq C BY GroupsOfCandidates
<1>5. PICK c \in G : t = Target(c) BY <1>3
<1> QED BY <1>4, <1>5, OfItsTarget

LEMMA IdsOutlive ==
  ASSUME IInv, ReadingInv
  PROVE  IdsOutliveReexport
<1> SUFFICES ASSUME Done, before # None,
                    before.how.kind = "respelled" => OneControlEitherWay(before.how)
             PROVE  /\ plan.review = before.plan.review
                    /\ {<<f.id, f.targets>> : f \in Fields}
                         = {<<f.draft.id, {Moved(t, before.how) : t \in f.draft.targets}>> :
                              f \in before.plan.fields}
  BY DEF IdsOutliveReexport
<1> DEFINE was == before.plan
           how == before.how
<1>1. /\ plan.review \in BOOLEAN /\ (plan.review <=> ReviewIn(graph, contract))
      /\ {<<f.draft.id, f.draft.targets>> : f \in plan.fields} = IdsIn(graph, contract)
  BY DEF ReadingInv, PlanIsOfTheGraph
<1>2. candidates = CandidatesOf(graph, contract)
  BY DEF IInv, AllIsReadFirst, ReadingInv, CandidatesSoFar, SoFar, CandidatesOf, AdmittedIn
<1>3. PICK old : /\ IsGraph(old) /\ IsFiniteSet(CandidatesOf(old, contract))
                 /\ PlanWas(old, contract, was) /\ ExportOf(old, graph, how)
  BY DEF ReadingInv, BeforeIsOfAnExport
<1>4. /\ was.review \in BOOLEAN /\ (was.review <=> ReviewIn(old, contract))
      /\ {<<f.draft.id, f.draft.targets>> : f \in was.fields} = IdsIn(old, contract)
  BY <1>3 DEF PlanWas
<1> DEFINE AsBefore(pi) ==
             /\ ReviewIn(graph, contract) <=> ReviewIn(old, contract)
             /\ IdsIn(graph, contract)
                  = {<<p[1], {MovedBy(pi, t) : t \in p[2]}>> : p \in IdsIn(old, contract)}
             /\ \A t \in LiteralInputs(old) : Moved(t, how) = MovedBy(pi, t)
<1>5. ASSUME NEW n \in DOMAIN old, NEW m \in DOMAIN old,
             how = [kind |-> "renumbered", n |-> n, m |-> m], graph = Renumbered(old, n, m)
      PROVE  \E pi : AsBefore(pi)
  <2> DEFINE pi == SwapOf(old, n, m)
  <2>1. \A t \in LiteralInputs(old) : Moved(t, how) = MovedBy(pi, t)
    <3> TAKE t \in LiteralInputs(old)
    <3>1. t.node \in DOMAIN old /\ t = [node |-> t.node, input |-> t.input] BY Literals
    <3>2. Moved(t, how) = [t EXCEPT !.node = Swapped(n, m, @)] BY <1>5 DEF Moved
    <3>3. Moved(t, how) = [node |-> Swapped(n, m, t.node), input |-> t.input] BY <3>1, <3>2
    <3> QED BY <3>1, <3>3 DEF MovedBy, SwapOf
  <2>2. /\ ReviewIn(Renumbered(old, n, m), contract) <=> ReviewIn(old, contract)
        /\ IdsIn(Renumbered(old, n, m), contract)
             = {<<p[1], {MovedBy(pi, t) : t \in p[2]}>> : p \in IdsIn(old, contract)}
    BY <1>3, IdsOutliveRenumbering
  <2> HIDE DEF pi
  <2>3. AsBefore(pi) BY <1>5, <2>1, <2>2
  <2> HIDE DEF AsBefore
  <2> QED BY <2>3
<1>6. ASSUME NEW n \in DOMAIN old, NEW name \in DOMAIN Inputs(old, n),
             how = [kind |-> "respelled", node |-> n, input |-> name],
             IsNumeral(Inputs(old, n)[name]), graph = [old EXCEPT ![n].in[name] = Respelled(@)]
      PROVE  \E pi : AsBefore(pi)
  <2> DEFINE t0 == [node |-> n, input |-> name]
             pi == Same(old)
  <2>1. RespelledAt(old, graph, t0) BY <1>3, <1>6, RespelledIs
  <2>2. OneControlIn(graph, contract, t0)
    <3>1. OneControlEitherWay(how) /\ how.node = n /\ how.input = name BY <1>6
    <3>2. PICK c \in candidates :
            /\ \A other \in DOMAIN Inputs(graph, n) : name \notin DOMAIN HeldAbove(other, Inputs(graph, n))
            /\ Target(c) = t0
            /\ LET same == {d \in candidates : d.role = c.role /\ IsNumber(d) /\ d.value.v = c.value.v}
               IN  \A d, e \in same : DeclaredAlike(d, e)
      BY <3>1 DEF OneControlEitherWay
    <3>3. NothingBelow(graph, t0) BY <3>2 DEF NothingBelow
    <3>4. \A x, y \in OneNumber(candidates, c.role, c.value.v) : DeclaredAlike(x, y)
      BY <3>2 DEF OneNumber
    <3> HIDE DEF t0
    <3> QED BY <1>2, <3>2, <3>3, <3>4 DEF OneControlIn
  <2>3. IsGraph(graph) BY DEF IInv
  <2>4. \A t \in LiteralInputs(old) : Moved(t, how) = MovedBy(pi, t)
    <3> TAKE t \in LiteralInputs(old)
    <3>1. t.node \in DOMAIN old /\ t = [node |-> t.node, input |-> t.input] BY Literals
    <3>2. Moved(t, how) = t BY <1>6 DEF Moved
    <3>3. pi[t.node] = t.node BY <3>1 DEF Same
    <3> HIDE DEF pi
    <3> QED BY <3>1, <3>2, <3>3 DEF MovedBy
  <2>5. /\ ReviewIn(graph, contract) <=> ReviewIn(old, contract)
        /\ IdsIn(graph, contract)
             = {<<p[1], {MovedBy(pi, t) : t \in p[2]}>> : p \in IdsIn(old, contract)}
    <3> HIDE DEF t0
    <3> QED BY <1>3, <2>1, <2>2, <2>3, IdsOutliveRespelling
  <2> HIDE DEF pi
  <2>6. AsBefore(pi) BY <2>4, <2>5
  <2> HIDE DEF AsBefore
  <2> QED BY <2>6
<1>7. \E pi : AsBefore(pi)
  <2> HIDE DEF AsBefore
  <2> QED BY <1>3, <1>5, <1>6 DEF ExportOf
<1>8. PICK pi : AsBefore(pi) BY <1>7
<1>9. plan.review = was.review BY <1>1, <1>4, <1>8
<1>10. \A p \in IdsIn(old, contract) :
         {MovedBy(pi, t) : t \in p[2]} = {Moved(t, how) : t \in p[2]}
  BY <1>8, IdsTargets
<1>11. {<<f.id, f.targets>> : f \in Fields} = IdsIn(graph, contract)
  <2>1. {<<f.id, f.targets>> : f \in Fields} = {<<f.draft.id, f.draft.targets>> : f \in plan.fields}
    BY DEF Fields
  <2> QED BY <1>1, <2>1
<1> DEFINE To(p) == <<p[1], {Moved(t, how) : t \in p[2]}>>
           Of(f) == <<f.draft.id, f.draft.targets>>
<1>12. IdsIn(graph, contract) = {To(p) : p \in IdsIn(old, contract)} BY <1>8, <1>10
<1>13. \A f : To(Of(f)) = <<f.draft.id, {Moved(t, how) : t \in f.draft.targets}>> OBVIOUS
<1>14. IdsIn(old, contract) = {Of(f) : f \in was.fields} BY <1>4
<1>15. IdsIn(graph, contract) = {To(Of(f)) : f \in was.fields}
  <2> HIDE DEF To, Of
  <2> QED BY <1>12, <1>14
<1>16. {To(Of(f)) : f \in was.fields}
         = {<<f.draft.id, {Moved(t, how) : t \in f.draft.targets}>> : f \in was.fields}
  OBVIOUS
<1> QED BY <1>9, <1>11, <1>15, <1>16

\* The ids of a workflow, and what each is bound to, outlive its being
\* exported again, whatever the graph, its runtime and the numbers its nodes
\* are given; and, where OneControlEitherWay, a number's other spelling.
THEOREM IdsAreStable == Spec => []IdsOutliveReexport
<1>1. Spec => []ReadingInv
  BY InitReads, StepsRead, ReadingIsOfTheGraph, PTL DEF Spec
<1> QED BY <1>1, IdsOutlive, ReadingIsOfTheGraph, PTL

(***************************************************************************)
(* Lists.                                                                  *)
(***************************************************************************)

\* Of finitely many numbers none exceeds the greatest.
LEMMA FiniteSetsHaveATop ==
  ASSUME NEW S \in SUBSET Int, IsFiniteSet(S)
  PROVE  \E top \in Int : \A x \in S : x <= top
<1> DEFINE Over(x) == {y \in S : y > x}
           T == {Cardinality(Over(x)) : x \in S}
<1>1. CASE S = {} BY <1>1
<1>2. CASE S # {}
  <2>1. \A x \in S : IsFiniteSet(Over(x)) /\ Cardinality(Over(x)) \in Nat
    BY FS_Subset, FS_CardinalityType
  <2>2. T \subseteq Nat /\ T # {} BY <1>2, <2>1
  <2> HIDE DEF T, Over
  <2>3. PICK n \in T : \A m \in T : n <= m BY <2>2, Least
  <2>4. PICK x \in S : n = Cardinality(Over(x)) BY <2>3 DEF T
  <2>5. ASSUME NEW y \in S, y > x PROVE FALSE
    <3>1. Over(y) \subseteq Over(x) /\ y \in Over(x) /\ y \notin Over(y)
      <4>1. \A z \in S : z \in Int /\ x \in Int /\ y \in Int OBVIOUS
      <4>2. \A z \in S : z > y => z > x BY <2>5, <4>1
      <4>3. ~(y > y) BY <4>1
      <4> QED BY <2>5, <4>2, <4>3 DEF Over
    <3>2. Cardinality(Over(y)) \in T BY DEF T
    <3>3. Cardinality(Over(x)) <= Cardinality(Over(y)) BY <2>3, <2>4, <3>2
    <3>4. /\ Cardinality(Over(y)) <= Cardinality(Over(x))
          /\ Cardinality(Over(x)) = Cardinality(Over(y)) => Over(x) = Over(y)
      BY <2>1, <3>1, FS_Subset
    <3> QED BY <2>1, <3>1, <3>3, <3>4
  <2>6. \A y \in S : y <= x BY <2>5
  <2> QED BY <2>6
<1> QED BY <1>1, <1>2

\* Finitely many elements in a sequence of them, each once.
LEMMA SetsAsSequences ==
  ASSUME NEW S, IsFiniteSet(S)
  PROVE  /\ SetToSeq(S) \in [1..Cardinality(S) -> S]
         /\ Cardinality(S) \in Nat
         /\ IsInjective(SetToSeq(S))
<1>1. Cardinality(S) \in Nat /\ ExistsBijection(1..Cardinality(S), S) BY FS_CardinalityType
<1>2. PICK f \in Bijection(1..Cardinality(S), S) : TRUE BY <1>1 DEF ExistsBijection
<1>3. f \in [1..Cardinality(S) -> S] /\ IsInjective(f) BY <1>2 DEF Bijection, Injection
<1> QED BY <1>1, <1>3 DEF SetToSeq

\* A list without its repeats holds nothing twice, and nothing new.
LEMMA FirstsAreKept ==
  ASSUME NEW n \in Nat, NEW list, DOMAIN list = 1..n
  PROVE  LET w == WithoutRepeats(list)
         IN  /\ \A k \in DOMAIN w : \E i \in DOMAIN list : w[k] = list[i]
             /\ \A k, l \in DOMAIN w : w[k] = w[l] => k = l
             /\ n # 0 => DOMAIN w # {}
             /\ \E m \in Nat : DOMAIN w = 1..m
<1> DEFINE firsts == {i \in DOMAIN list : \A j \in 1..(i - 1) : list[j] # list[i]}
           UpTo(i) == {j \in firsts : j <= i}
           Rank(i) == Cardinality(UpTo(i))
           At(k) == CHOOSE i \in firsts : Rank(i) = k
           size == Cardinality(firsts)
           w == WithoutRepeats(list)
<1>1. w = [k \in 1..size |-> list[At(k)]] BY Zenon DEF WithoutRepeats
<1>2. firsts \subseteq 1..n /\ IsFiniteSet(firsts) /\ size \in Nat
  <2>1. IsFiniteSet(1..n) BY FS_Interval
  <2> QED BY <2>1, FS_Subset, FS_CardinalityType
<1>3. \A i \in firsts : IsFiniteSet(UpTo(i)) /\ Rank(i) \in 1..size
  <2> TAKE i \in firsts
  <2>1. UpTo(i) \subseteq firsts /\ i \in UpTo(i) BY <1>2
  <2> HIDE DEF UpTo, firsts
  <2>2. IsFiniteSet(UpTo(i)) /\ Rank(i) <= size BY <1>2, <2>1, FS_Subset
  <2>3. Rank(i) \in Nat /\ Rank(i) # 0 BY <2>1, <2>2, FS_CardinalityType, FS_EmptySet
  <2> QED BY <1>2, <2>2, <2>3
<1>4. ASSUME NEW i \in firsts, NEW j \in firsts, i < j
      PROVE  Rank(i) # Rank(j)
  <2>1. UpTo(i) \subseteq UpTo(j) /\ j \in UpTo(j) /\ j \notin UpTo(i) BY <1>2, <1>4
  <2>2. IsFiniteSet(UpTo(j)) BY <1>3
  <2> HIDE DEF UpTo, firsts
  <2> QED BY <2>1, <2>2, FS_Subset
<1>5. \A i, j \in firsts : Rank(i) = Rank(j) => i = j
  <2> TAKE i, j \in firsts
  <2>1. i < j \/ j < i \/ i = j BY <1>2
  <2> QED BY <1>4, <2>1
<1>6. \A k \in 1..size : At(k) \in firsts /\ Rank(At(k)) = k
  <2> DEFINE rank == [i \in firsts |-> Rank(i)]
  <2>1. rank \in Injection(firsts, 1..size)
    <3> HIDE DEF firsts, Rank, size
    <3>1. rank \in [firsts -> 1..size] BY <1>3
    <3>2. IsInjective(rank) BY <1>5 DEF IsInjective
    <3> QED BY <3>1, <3>2 DEF Injection
  <2>2. IsFiniteSet(1..size) /\ Cardinality(1..size) = size BY <1>2, FS_Interval
  <2>3. rank \in Surjection(firsts, 1..size)
    <3> HIDE DEF rank, firsts
    <3> QED BY <2>1, <2>2, FS_Injection
  <2>4. \A k \in 1..size : \E i \in firsts : Rank(i) = k
    <3> HIDE DEF firsts, Rank, size
    <3> QED BY <2>3 DEF Surjection
  <2> HIDE DEF firsts, Rank, size
  <2> QED BY <2>4
<1>7. \A i, j \in firsts : list[i] = list[j] => i = j
  <2> TAKE i, j \in firsts
  <2>1. i \in 1..n /\ j \in 1..n BY <1>2
  <2>2. i < j => list[i] # list[j] BY <2>1
  <2>3. j < i => list[i] # list[j] BY <2>1
  <2> QED BY <2>1, <2>2, <2>3
<1>8. n # 0 => 1 \in firsts OBVIOUS
<1>9. n # 0 => size # 0
  <2> HIDE DEF firsts
  <2> QED BY <1>2, <1>8, FS_EmptySet
<1>10. \A i \in firsts : i \in DOMAIN list OBVIOUS
<1> HIDE DEF firsts, At, size, Rank, w
<1>11. DOMAIN w = 1..size /\ \A k \in 1..size : w[k] = list[At(k)] BY <1>1
<1>12. \A k \in DOMAIN w : \E i \in DOMAIN list : w[k] = list[i] BY <1>6, <1>10, <1>11
<1>13. \A k, l \in DOMAIN w : w[k] = w[l] => k = l
  <2> TAKE k, l \in DOMAIN w
  <2> HAVE w[k] = w[l]
  <2>1. At(k) = At(l) BY <1>6, <1>7, <1>11
  <2> QED BY <1>6, <1>11, <2>1
<1>14. n # 0 => DOMAIN w # {} BY <1>2, <1>9, <1>11
<1> QED BY <1>2, <1>11, <1>12, <1>13, <1>14 DEF w

(***************************************************************************)
(* What kind of value a field holds.                                       *)
(***************************************************************************)

\* Options a loader takes: values, no two of which are equal.
AreChoices(options) ==
  /\ \E m \in Nat : DOMAIN options = 1..m
  /\ DOMAIN options # {}
  /\ \A i \in DOMAIN options : IsOptionValue(options[i])
  /\ \A i, j \in DOMAIN options : i # j => ~PythonEqual(options[i], options[j])

LEMMA OptionsAreChoices ==
  ASSUME NEW list, OptionsOf(list) # None
  PROVE  AreChoices(OptionsOf(list))
<1> DEFINE w == WithoutRepeats(list)
<1>1. /\ list \in Seq(ToSet(list)) /\ list # << >>
      /\ \A i \in DOMAIN list : IsOptionValue(list[i])
      /\ \A i, j \in DOMAIN list : list[i] # list[j] => ~PythonEqual(list[i], list[j])
  BY DEF OptionsOf
<1>2. OptionsOf(list) = w BY DEF OptionsOf
<1>3. Len(list) \in Nat /\ DOMAIN list = 1..Len(list) /\ Len(list) # 0
  <2> DEFINE S == ToSet(list)
  <2> HIDE DEF S
  <2> QED BY <1>1 DEF S
<1>4. /\ \A k \in DOMAIN w : \E i \in DOMAIN list : w[k] = list[i]
      /\ \A k, l \in DOMAIN w : w[k] = w[l] => k = l
      /\ DOMAIN w # {} /\ \E m \in Nat : DOMAIN w = 1..m
  <2> HIDE DEF w
  <2> QED BY <1>3, FirstsAreKept DEF w
<1> HIDE DEF w
<1>5. \A k \in DOMAIN w : IsOptionValue(w[k]) BY <1>1, <1>4
<1>6. \A k, l \in DOMAIN w : k # l => ~PythonEqual(w[k], w[l]) BY <1>1, <1>4
<1> QED BY <1>2, <1>4, <1>5, <1>6 DEF AreChoices

\* What is read of an input is one of the four things declared of it.
LEMMA WhatIsRead ==
  ASSUME NEW entry, NEW name, Reading(entry, name) # None
  PROVE  \E spec :
           LET Found(table, found) ==
                 found # None /\ Reading(entry, name) = [table |-> table, found |-> found]
           IN  \/ Found("options", DeclaredOptions(spec))
               \/ Found("numeric", DeclaredNumeric(spec))
               \/ Found("shapes", DeclaredShapes(spec))
               \/ Found("string", DeclaredString(spec))
<1> DEFINE As(table, found) == IF found = None THEN None ELSE [table |-> table, found |-> found]
           Tables(spec) == << As("options", DeclaredOptions(spec)),
                              As("numeric", DeclaredNumeric(spec)),
                              As("shapes", DeclaredShapes(spec)),
                              As("string", DeclaredString(spec)) >>
           Read(spec) == FirstFound(Tables(spec))
           In(section) == IF section = None \/ name \notin DOMAIN section THEN None
                          ELSE Read(section[name])
           sections == <<In(entry.input.required), In(entry.input.optional)>>
           reading == Reading(entry, name)
<1>1. reading = FirstFound(sections) BY DEF Reading
<1> HIDE DEF Read
<1>2. \E spec : reading = Read(spec)
  <2>1. DOMAIN sections \subseteq Nat OBVIOUS
  <2>2. PICK i \in DOMAIN sections : reading = sections[i]
    <3> HIDE DEF sections
    <3> QED BY <1>1, <2>1, OneIsFound
  <2> QED BY <2>2
<1>3. PICK spec : reading = Read(spec) BY <1>2
<1>4. \E i \in 1..4 : reading = Tables(spec)[i]
  <2>1. DOMAIN Tables(spec) = 1..4 OBVIOUS
  <2> HIDE DEF Tables
  <2>2. 1..4 \subseteq Nat OBVIOUS
  <2> QED BY <1>3, <2>1, <2>2, OneIsFound DEF Read
<1> QED BY <1>4

LEMMA OptionsForAreChoices ==
  ASSUME NEW declared, NEW class, NEW name, OptionsFor(declared, class, name) # None
  PROVE  AreChoices(OptionsFor(declared, class, name))
<1> DEFINE reading == Reading(declared[class], name)
<1>1. /\ reading # None /\ reading.table = "options"
      /\ OptionsFor(declared, class, name) = reading.found
  BY DEF OptionsFor, For
<1>2. PICK spec : reading.found = DeclaredOptions(spec) /\ DeclaredOptions(spec) # None
  BY <1>1, WhatIsRead
<1> QED BY <1>1, <1>2, OptionsAreChoices DEF DeclaredOptions

LEMMA MoreOfTheRules ==
  ASSUME NEW name, NEW value, NEW rules, rules = RulesFor(name, value)
  PROVE  /\ rules[3].when => value.kind = "text"
         /\ rules[12].when => value.kind = "text"
         /\ rules[13].when => SanitizeRole(name) = << >>
         /\ \A i \in 4..11 : \E kind : rules[i].then = Locked(kind)
<1>1. rules[3].when => value.kind = "text" BY DEF RulesFor
<1>2. rules[12].when => value.kind = "text" BY DEF RulesFor
<1>3. rules[13].when => SanitizeRole(name) = << >> BY DEF RulesFor
<1>4. /\ rules[4].then = Locked("weights_file") /\ rules[5].then = Locked("url")
      /\ rules[6].then = Locked("filesystem_path")
      /\ rules[7].then = Locked("editor_bookkeeping")
      /\ rules[8].then = Locked("machine_setting")
      /\ rules[9].then = Locked("file_reference")
      /\ rules[10].then = Locked("url")
      /\ rules[11].then = Locked("model_architecture")
  BY DEF RulesFor
<1>5. \A i \in 4..11 : i \in {4, 5, 6, 7, 8, 9, 10, 11} OBVIOUS
<1> QED BY <1>1, <1>2, <1>3, <1>4, <1>5

\* The type of a field against the kind of its value.
KindFits(type, value) ==
  /\ type = "boolean" => value.kind = "bool"
  /\ type \in {"string", "multiline"} => value.kind = "text"

LEMMA NamedKinds ==
  ASSUME NEW name, NEW value
  PROVE  LET named == Classify(name, value)
         IN  /\ named.exposure = "expose" => KindFits(named.type, value)
             /\ named.prompt => value.kind = "text"
             /\ named.exposure = "uncertain" /\ IsLiteral(value)
                  => value.kind = "text" \/ SanitizeRole(name) = << >>
<1> DEFINE rules == RulesFor(name, value)
           named == Classify(name, value)
<1>1. PICK i \in 1..16 : Settles(i, rules, named) BY OneRule
<1>2. /\ rules[i].when /\ named = rules[i].then
      /\ \A j \in 1..(i - 1) : ~rules[j].when
  BY <1>1 DEF Settles
<1>3. /\ rules[1].when <=> FieldTypeOf(value) = None
      /\ rules[3].when => value.kind = "text"
      /\ rules[12].when => value.kind = "text"
      /\ rules[13].when => SanitizeRole(name) = << >>
      /\ rules[14].when <=> value.kind # "text"
  BY TheRules, MoreOfTheRules
<1>4. i \in {12, 15, 16} => value.kind = "text"
  <2>1. i \in {15, 16} => ~rules[14].when BY <1>2
  <2> QED BY <1>2, <1>3, <2>1
<1>5. /\ rules[2].then = ExposedMedia(name, MediaKind(name, value))
      /\ rules[12].then = ExposedPrompt(name)
      /\ rules[14].then = Exposed(FieldTypeOf(value), SanitizeRole(name))
      /\ rules[15].then = Exposed("string", SanitizeRole(name))
      /\ \A j \in 1..16 \ {2, 12, 14, 15} :
           rules[j].then = Uncertain \/ \E kind : rules[j].then = Locked(kind)
  BY WhatTheRulesSay
<1>6. \A j \in 4..11 : \E kind : rules[j].then = Locked(kind) BY MoreOfTheRules
<1> HIDE DEF rules
<1>7. ASSUME named.exposure = "expose" PROVE KindFits(named.type, value)
  <2>1. i \in {2, 12, 14, 15} BY <1>2, <1>5, <1>7, VerdictFields
  <2>2. CASE i = 2
    BY <1>2, <1>5, <2>2, VerdictFields, MediaKinds DEF KindFits, MediaTypes
  <2>3. CASE i \in {12, 15}
    BY <1>2, <1>4, <1>5, <2>3, VerdictFields DEF KindFits
  <2>4. CASE i = 14
    <3>1. value.kind # "text" /\ named.type = FieldTypeOf(value)
      BY <1>2, <1>3, <1>5, <2>4, VerdictFields
    <3> QED BY <3>1, NoneAssumption DEF FieldTypeOf, KindFits
  <2> QED BY <2>1, <2>2, <2>3, <2>4
<1>8. ASSUME named.prompt PROVE value.kind = "text"
  <2>1. i \in {2, 12, 14, 15} BY <1>2, <1>5, <1>8, VerdictFields
  <2>2. i = 12 BY <1>2, <1>5, <1>8, <2>1, VerdictFields
  <2> QED BY <1>4, <2>2
<1>9. ASSUME named.exposure = "uncertain", IsLiteral(value)
      PROVE  value.kind = "text" \/ SanitizeRole(name) = << >>
  <2>1. i \notin {2, 12, 14, 15} BY <1>2, <1>5, <1>9, VerdictFields
  <2>2. i \notin 4..11 BY <1>2, <1>6, <1>9, VerdictFields
  <2>3. i # 1 BY <1>2, <1>3, <1>9 DEF IsLiteral
  <2>4. i \in {3, 13, 16} BY <2>1, <2>2, <2>3
  <2>5. CASE i = 3 BY <1>2, <1>3, <2>5
  <2>6. CASE i = 13 BY <1>2, <1>3, <2>6
  <2>7. CASE i = 16 BY <1>4, <2>7
  <2> QED BY <2>4, <2>5, <2>6, <2>7
<1> QED BY <1>7, <1>8, <1>9

LEMMA UnlistedIsText ==
  ASSUME NEW g, NEW asked, NEW node, NEW name, NEW value,
         WithoutAList(g, asked, node, name, value).exposure = "expose"
  PROVE  value.kind = "text"
<1> DEFINE rules == RulesWithoutAList(g, asked, node, name, value)
           verdict == WithoutAList(g, asked, node, name, value)
<1>1. DOMAIN rules = 1..5 BY DEF RulesWithoutAList
<1>2. rules[5].when BY DEF RulesWithoutAList
<1>3. rules[3].when <=> WiredPrompt(g, node, name, value) BY DEF RulesWithoutAList
<1>4. /\ rules[1].then = Locked("computation") /\ rules[2].then = Locked("model_patch")
      /\ rules[3].then = ExposedPrompt(name)
      /\ rules[4].then = Locked("declared_default") /\ rules[5].then = Uncertain
  BY DEF RulesWithoutAList
<1>5. \E i \in 1..5 : rules[i].when /\ verdict = rules[i].then
  <2> HIDE DEF rules
  <2>1. 5 \in Nat /\ \E k \in 1..5 : rules[k].when BY <1>2
  <2>2. verdict = FirstOf(rules) BY DEF WithoutAList, rules
  <2>3. \E i \in 1..5 : rules[i].when /\ FirstOf(rules) = rules[i].then
    BY Zenon, <1>1, <2>1, FirstApplies
  <2> QED BY Zenon, <2>2, <2>3
<1>6. rules[3].when BY <1>4, <1>5, VerdictFields
<1> QED BY <1>3, <1>6, NamedKinds DEF WiredPrompt

\* A choice holds a text, unless nothing names it.
LEMMA JudgedKinds ==
  ASSUME NEW g, NEW declared, NEW node, NEW name, NEW judged,
         judged = Judged(g, declared, node, name),
         judged.verdict.exposure = "expose",
         IsLiteral(Inputs(g, node)[name])
  PROVE  LET value == Inputs(g, node)[name]
         IN  /\ KindFits(judged.verdict.type, value)
             /\ judged.verdict.type = "select" =>
                  /\ AreChoices(judged.options)
                  /\ \E i \in DOMAIN judged.options : PythonEqual(value, judged.options[i])
                  /\ value.kind = "text" \/ judged.verdict = Exposed("select", << >>)
<1> DEFINE value == Inputs(g, node)[name]
           class == Class(g, node)
           asked == ChosenShapeContract(declared, class, name, Inputs(g, node))
           shaped == StructuralChoice(ShapesFor(asked, class, name), value)
           named == Classify(name, value)
           options == OptionsFor(asked, class, name)
<1>1. judged = Settled(g, asked, node, name, value, shaped, named, options)
  BY DEF Judged, JudgedUnder
<1>3. shaped # None => shaped.exposure # "expose"
  BY VerdictFields DEF StructuralChoice
<1>5. shaped = None
  <2> HIDE DEF shaped, named, value, options, asked
  <2> QED BY <1>1, <1>3 DEF Settled, Plain
<1>a. /\ named.exposure = "expose" => KindFits(named.type, value) /\ named.type # "select"
      /\ named.exposure = "uncertain" => value.kind = "text" \/ SanitizeRole(name) = << >>
  BY NamedKinds, ExposedFits
<1>b. options # None => AreChoices(options) BY OptionsForAreChoices
<1> HIDE DEF shaped, asked, options, named
<1>6. CASE named.exposure # "uncertain"
  <2>1. judged = Plain(named) BY <1>1, <1>5, <1>6 DEF Settled
  <2> QED BY <1>a, <2>1 DEF Plain
<1>7. CASE named.exposure = "uncertain" /\ options # None
  <2>1. judged = AskTheRuntime(options, class, name, value)
    BY <1>1, <1>5, <1>7 DEF Settled
  <2>2. /\ judged.verdict = Exposed("select", SanitizeRole(name)) /\ judged.options = options
        /\ \E i \in DOMAIN options : PythonEqual(value, options[i])
    BY <2>1, VerdictFields DEF AskTheRuntime, Plain
  <2>3. judged.verdict.type = "select" BY <2>2, VerdictFields
  <2>4. KindFits(judged.verdict.type, value) BY <2>3 DEF KindFits
  <2> QED BY <1>7, <1>a, <1>b, <2>2, <2>4
<1>8. CASE named.exposure = "uncertain" /\ options = None
  <2>1. judged = Plain(WithoutAList(g, asked, node, name, value))
    BY <1>1, <1>5, <1>8 DEF Settled
  <2>2. judged.verdict.type = "multiline" BY <2>1, UnlistedFits DEF Plain
  <2>3. value.kind = "text" BY <2>1, UnlistedIsText DEF Plain
  <2> QED BY <2>2, <2>3 DEF KindFits
<1> QED BY <1>6, <1>7, <1>8

\* None is no function, and so no sequence and no record.
NoneIsNoFunction == \A x : x = [y \in DOMAIN x |-> x[y]] => x # None

LEMMA CandidatesKinds ==
  ASSUME IInv, ReadingInv, NEW c \in candidates
  PROVE  /\ IsLiteral(c.value) /\ KindFits(c.verdict.type, c.value)
         /\ c.verdict.type = "select" =>
              /\ c.value.kind = "text" /\ AreChoices(c.options)
              /\ \E i \in DOMAIN c.options : PythonEqual(c.value, c.options[i])
<1>1. c \in CandidatesOf(graph, contract)
  BY DEF ReadingInv, CandidatesSoFar, SoFar, CandidatesOf, AdmittedIn
<1>2. /\ Target(c) \in LiteralInputs(graph) /\ IsAdmitted(graph, contract, Target(c))
      /\ c = CandidateAt(graph, contract, Target(c))
  BY <1>1, OfItsTarget
<1> DEFINE t == Target(c)
           judged == Judged(graph, contract, t.node, t.input)
<1>3. /\ c.value = Inputs(graph, t.node)[t.input]
      /\ c.verdict = judged.verdict /\ c.options = judged.options
  BY <1>2, CandidatesAt DEF JudgedAt
<1>4. IsLiteral(c.value) BY <1>2, <1>3, Literals
<1>5. /\ judged.verdict.exposure = "expose"
      /\ RoleFor(t.input, judged.verdict, LabelsAt(graph, t)) # None
  BY <1>2 DEF IsAdmitted, HasRole, Offered, JudgedAt
<1>6. judged.verdict # Exposed("select", << >>)
  BY <1>5 DEF RoleFor, Exposed, Verdict
<1> HIDE DEF t
<1> QED BY <1>3, <1>4, <1>5, <1>6, JudgedKinds

(***************************************************************************)
(* The parts of a field.                                                   *)
(***************************************************************************)

\* A group of one spelling, or of the two of a number.
LEMMA OneSpellingOrTwo ==
  ASSUME NEW g, NEW c \in g, NEW d \in g,
         \A x \in g : x.value.kind \in {"int", "float"}, c.value.kind # d.value.kind
  PROVE  Cardinality({x.value.kind : x \in g}) = 2
<1> DEFINE kinds == {x.value.kind : x \in g}
<1>1. kinds = {"int"} \cup {"float"} OBVIOUS
<1> HIDE DEF kinds
<1>2. IsFiniteSet({"int"}) /\ Cardinality({"int"}) = 1 BY FS_Singleton
<1>3. "float" \notin {"int"} OBVIOUS
<1>4. Cardinality({"int"} \cup {"float"}) = Cardinality({"int"}) + 1 BY <1>2, <1>3, FS_AddElement
<1>5. Cardinality(kinds) = 2 BY <1>1, <1>2, <1>4
<1> QED BY <1>5 DEF kinds

\* What a field has of its group, whatever its mark, the workflow's dimensions
\* and its frame rate.
LEMMA MoreOfAField ==
  ASSUME NEW g, NEW f, FieldOf(f, g)
  PROVE  LET first == FirstMember(g)
             declared == ResolvedDeclaration(g)
             main == first.verdict.media # None
                     \/ (first.verdict.prompt /\ first.role = <<"prompt">>)
             blank == first.value.kind = "text" /\ main /\ "blank" \in LooksOf(first.value)
             two == Cardinality({c.value.kind : c \in g}) > 1
             respelt == [first.value EXCEPT !.kind = IF f.type = "float" THEN "float" ELSE "int"]
             bounds == IF declared = None THEN [min |-> None, max |-> None, step |-> None]
                       ELSE NumericBounds(declared, f.type, f.default)
         IN  /\ f.required = main
             /\ f.default = IF first.verdict.media # None \/ blank THEN None
                            ELSE IF two THEN respelt ELSE first.value
             /\ f.min = bounds.min /\ f.max = bounds.max /\ f.step = bounds.step
             /\ f.translatable => f.type \in {"string", "multiline"}
             /\ f.seed => f.type = "integer"
             /\ f.pair => f.type = "integer"
             /\ f.duration # None => f.type = "integer"
<1>0. PICK mark, dimensions, rate : f = Field(g, mark, dimensions, rate)
  BY Zenon DEF FieldOf
<1>1. f.required = (FirstMember(g).verdict.media # None
                    \/ (FirstMember(g).verdict.prompt /\ FirstMember(g).role = <<"prompt">>))
  BY Zenon, <1>0 DEF Field
<1>2. LET first == FirstMember(g)
          main == first.verdict.media # None
                  \/ (first.verdict.prompt /\ first.role = <<"prompt">>)
          blank == first.value.kind = "text" /\ main /\ "blank" \in LooksOf(first.value)
          two == Cardinality({c.value.kind : c \in g}) > 1
          respelt == [first.value EXCEPT !.kind = IF f.type = "float" THEN "float" ELSE "int"]
      IN  f.default = IF first.verdict.media # None \/ blank THEN None
                      ELSE IF two THEN respelt ELSE first.value
  BY DEF FieldOf, Field
<1>3. LET bounds == IF ResolvedDeclaration(g) = None
                    THEN [min |-> None, max |-> None, step |-> None]
                    ELSE NumericBounds(ResolvedDeclaration(g), f.type, f.default)
      IN  f.min = bounds.min /\ f.max = bounds.max /\ f.step = bounds.step
  BY DEF FieldOf, Field
<1>4. f.translatable = (FirstMember(g).verdict.prompt /\ f.type \in {"string", "multiline"})
  BY Zenon, <1>0 DEF Field
<1>5. f.seed = (FirstMember(g).role = SeedRole /\ f.type = "integer")
  BY Zenon, <1>0 DEF Field
<1>6. f.pair = (f.type = "integer" /\ FirstMember(g).role \in dimensions
                /\ Cardinality(dimensions) = 2)
  BY Zenon, <1>0 DEF Field
<1>7. f.duration # None => f.type = "integer"
  BY <1>0 DEF Field
<1> QED BY Zenon, <1>1, <1>2, <1>3, <1>4, <1>5, <1>6, <1>7

\* A field of no number is of one value, without bounds.
LEMMA AFieldOfNoNumber ==
  ASSUME IInv, NEW g \in ControlGroups(candidates), NEW f, FieldOf(f, g),
         f.type \notin NumericFieldTypes
  PROVE  /\ f.type = FirstMember(g).verdict.type
         /\ f.min = None /\ f.max = None /\ f.step = None
         /\ f.default \in {None, FirstMember(g).value}
<1> DEFINE first == FirstMember(g)
<1>1. g \subseteq candidates /\ first \in g BY GroupsOfCandidates, FirstOfAGroup
<1>2. \A c \in g : f.type = c.verdict.type /\ ~IsNumber(c)
  BY TypeOfAField DEF IsNumber
<1>3. \A c \in g : c.numeric = None BY <1>1, <1>2, NumbersAreNumbers
<1>4. ResolvedDeclaration(g) = None BY <1>3 DEF ResolvedDeclaration
<1>5. \A c \in g : c.value = first.value
  BY <1>1, <1>2, GroupsOfCandidates, KeysTell
<1>6. Cardinality({c.value.kind : c \in g}) = 1 BY <1>1, <1>5, SpellingsOfAGroup
<1>7. ~(Cardinality({c.value.kind : c \in g}) > 1) BY <1>6
<1>8. /\ f.default \in {None, first.value}
      /\ f.min = None /\ f.max = None /\ f.step = None
  <2> HIDE DEF first
  <2> QED BY <1>4, <1>7, MoreOfAField DEF first
<1> QED BY <1>1, <1>2, <1>8

\* Of finitely many bounds none is beyond all numbers.
LEMMA BoundsHaveATop ==
  ASSUME NEW S \in SUBSET DeclaredBounds, IsFiniteSet(S)
  PROVE  /\ \E top \in Int : \A b \in S \ {None} : b.v \in Int /\ b.v <= top
         /\ \E bottom \in Int : \A b \in S \ {None} : b.v \in Int /\ bottom <= b.v
<1> DEFINE given == S \ {None}
           V == [b \in given |-> b.v]
           W == [b \in given |-> -b.v]
           ups == {b.v : b \in given}
           downs == {-b.v : b \in given}
<1>1. \A b \in given : b.v \in Int BY DEF DeclaredBounds, FiniteNumbers
<1>2. IsFiniteSet(given) BY FS_Subset
<1> HIDE DEF given
<1>3. V \in Surjection(given, ups) /\ W \in Surjection(given, downs) BY DEF Surjection
<1>4. ups \subseteq Int /\ downs \subseteq Int BY <1>1
<1>5. IsFiniteSet(ups) /\ IsFiniteSet(downs)
  <2> HIDE DEF ups, downs, V, W
  <2> QED BY <1>2, <1>3, FS_Surjection
<1>6. PICK top \in Int : \A x \in ups : x <= top
  <2> HIDE DEF ups
  <2> QED BY <1>4, <1>5, FiniteSetsHaveATop
<1>7. PICK low \in Int : \A x \in downs : x <= low
  <2> HIDE DEF downs
  <2> QED BY <1>4, <1>5, FiniteSetsHaveATop
<1>8. \A b \in given : b.v <= top BY <1>6
<1>9. \A b \in given : -low <= b.v
  <2> TAKE b \in given
  <2>1. -b.v \in downs OBVIOUS
  <2>2. -b.v <= low BY <1>7, <2>1
  <2> QED BY <1>1, <2>2
<1>10. -low \in Int OBVIOUS
<1> QED BY <1>1, <1>8, <1>9, <1>10 DEF given

\* What is resolved of finitely many declarations is a declaration.
LEMMA ResolvedIsDeclared ==
  ASSUME IInv, NEW g \in ControlGroups(candidates), ResolvedDeclaration(g) # None
  PROVE  ResolvedDeclaration(g) \in NumericDeclarations
<1> DEFINE declared == {c.numeric : c \in g} \ {None}
           mins == {n.min : n \in declared}
           maxs == {n.max : n \in declared}
           steps == {n.step : n \in declared}
           type == (CHOOSE n \in declared : TRUE).type
           step == IF Cardinality(steps) = 1 THEN CHOOSE s \in steps : TRUE ELSE None
           r == ResolvedDeclaration(g)
<1>1. g \subseteq candidates /\ IsFiniteSet(g)
  BY GroupsOfCandidates, FS_Subset DEF IInv, CandidatesAreJudged
<1>2. declared \subseteq NumericDeclarations /\ declared # {}
  BY <1>1, NumbersAreNumbers DEF ResolvedDeclaration
<1>3. r = [type |-> type, min |-> Greatest(mins), max |-> Smallest(maxs), step |-> step]
  BY Zenon, <1>2 DEF ResolvedDeclaration, Greatest, Smallest
<1>4. IsFiniteSet(mins) /\ IsFiniteSet(maxs)
  <2> DEFINE numerics == {c.numeric : c \in g}
             Numeric == [c \in g |-> c.numeric]
             Lows == [n \in declared |-> n.min]
             Tops == [n \in declared |-> n.max]
  <2>1. Numeric \in Surjection(g, numerics) BY DEF Surjection
  <2>2. IsFiniteSet(numerics)
    <3> HIDE DEF numerics, Numeric
    <3> QED BY <1>1, <2>1, FS_Surjection
  <2>3. IsFiniteSet(declared) BY <2>2, FS_Subset
  <2> HIDE DEF declared
  <2>4. Lows \in Surjection(declared, mins) /\ Tops \in Surjection(declared, maxs)
    BY DEF Surjection
  <2> HIDE DEF mins, maxs, Lows, Tops
  <2> QED BY <2>3, <2>4, FS_Surjection
<1>5. mins \subseteq DeclaredBounds /\ maxs \subseteq DeclaredBounds /\ steps \subseteq DeclaredBounds
  BY <1>2 DEF NumericDeclarations
<1>6. type \in {"integer", "float"} BY <1>2 DEF NumericDeclarations
<1> HIDE DEF r, mins, maxs, type
<1>7. step \in DeclaredBounds
  <2>1. CASE Cardinality(steps) = 1
    <3>2. step = CHOOSE s \in steps : TRUE BY <2>1
    <3> HIDE DEF steps, step
    <3>1. steps # {} BY <2>1, FS_EmptySet
    <3> QED BY <1>5, <3>1, <3>2
  <2>2. CASE Cardinality(steps) # 1 BY <2>2 DEF DeclaredBounds
  <2> QED BY <2>1, <2>2
<1> HIDE DEF steps, step
<1>8. Greatest(mins) \in DeclaredBounds
  <2>1. PICK top \in Int : \A b \in mins \ {None} : b.v \in Int /\ b.v <= top
    BY <1>4, <1>5, BoundsHaveATop
  <2> QED BY <1>5, <2>1, GreatestOfTheLeast DEF DeclaredBounds
<1>9. Smallest(maxs) \in DeclaredBounds
  <2>1. PICK bottom \in Int : \A b \in maxs \ {None} : b.v \in Int /\ bottom <= b.v
    BY <1>4, <1>5, BoundsHaveATop
  <2> QED BY <1>5, <2>1, LeastOfTheGreatest DEF DeclaredBounds
<1> QED BY <1>3, <1>6, <1>7, <1>8, <1>9 DEF NumericDeclarations, r

(***************************************************************************)
(* What the loader asks of a field.                                        *)
(***************************************************************************)

\* A number's field: its default is of its type, its bounds of its type and
\* around the default.
LEMMA NumbersLoad ==
  ASSUME IInv, NEW g \in ControlGroups(candidates), NEW f, FieldOf(f, g),
         f.type \in NumericFieldTypes, ~SavedAsAFloat(f)
  PROVE  /\ f.default.kind \in {"int", "float"} /\ f.default.v \in Int
         /\ f.type = "integer" => f.default.kind = "int"
         /\ \A b \in {f.min, f.max, f.step} \ {None} :
              b \in FiniteNumbers /\ (f.type = "integer" => b.kind = "int")
         /\ f.step # None => f.step.v > 0
         /\ f.min # None /\ f.max # None => f.min.v <= f.max.v
         /\ f.min # None => f.min.v <= f.default.v
         /\ f.max # None => f.default.v <= f.max.v
<1> DEFINE first == FirstMember(g)
           two == Cardinality({c.value.kind : c \in g}) > 1
           respelt == [first.value EXCEPT !.kind = IF f.type = "float" THEN "float" ELSE "int"]
           declared == ResolvedDeclaration(g)
           range == NumericBounds(declared, f.type, f.default)
<1>1. g \subseteq candidates /\ first \in g BY GroupsOfCandidates, FirstOfAGroup
<1>2. \A c \in g : IsNumber(c) BY TypeOfAField DEF IsNumber
<1>3. \A c \in g : c.value.kind \in {"int", "float"} /\ c.value.v \in Int
  BY <1>1, <1>2, NumbersAreNumbers
<1>4. first.verdict.media = None /\ ~first.verdict.prompt BY <1>1, <1>2, NumbersAreNumbers
<1>5. f.default = IF two THEN respelt ELSE first.value
  <2>1. first.value.kind # "text" BY <1>1, <1>3
  <2> HIDE DEF two, respelt, first
  <2> QED BY <1>4, <2>1, MoreOfAField DEF two, respelt, first
<1>6. f.default.v \in Int BY ANumericField
<1>7. respelt.kind = IF f.type = "float" THEN "float" ELSE "int"
  BY <1>1, ACandidate DEF IsValue
<1> HIDE DEF respelt, two, first
<1>8. f.default.kind \in {"int", "float"} /\ (f.type = "integer" => f.default.kind = "int")
  <2>1. CASE two BY <1>5, <1>7, <2>1 DEF NumericFieldTypes
  <2>2. CASE ~two /\ f.type = "integer"
    <3>1. PICK c \in g : c.value.kind # "float"
      BY <2>2, MembersAreTheGroup DEF SavedAsAFloat
    <3>2. first.value.kind = c.value.kind
      <4>1. ASSUME first.value.kind # c.value.kind PROVE FALSE
        <5>1. Cardinality({x.value.kind : x \in g}) = 2
          BY <1>1, <1>3, <4>1, OneSpellingOrTwo
        <5> QED BY <2>2, <5>1 DEF two
      <4> QED BY <4>1
    <3> QED BY <1>1, <1>3, <1>5, <2>2, <3>1, <3>2
  <2>3. CASE ~two /\ f.type # "integer" BY <1>1, <1>3, <1>5, <2>3
  <2> QED BY <2>1, <2>2, <2>3
<1>9. CASE declared = None
  <2>1. f.min = None /\ f.max = None /\ f.step = None BY <1>9, MoreOfAField
  <2> QED BY <1>6, <1>8, <2>1
<1>10. CASE declared # None
  <2>1. declared \in NumericDeclarations BY <1>10, ResolvedIsDeclared
  <2>2. f.min = range.min /\ f.max = range.max /\ f.step = range.step
    BY <1>10, MoreOfAField
  <2>3. /\ declared.min \in DeclaredBounds /\ declared.max \in DeclaredBounds
        /\ declared.step \in DeclaredBounds
    BY <2>1 DEF NumericDeclarations
  <2> DEFINE Usable(b) == UsableBound(b, f.type)
  <2>4. \A b \in DeclaredBounds :
          /\ Usable(b) \in DeclaredBounds
          /\ Usable(b) # None => Usable(b) \in FiniteNumbers
          /\ Usable(b) # None /\ f.type = "integer" => Usable(b).kind = "int"
    BY DEF UsableBound, DeclaredBounds, FiniteNumbers
  <2> HIDE DEF declared
  <2>5. /\ f.min \in {None, Usable(declared.min)} /\ f.max \in {None, Usable(declared.max)}
        /\ f.step \in {None, Usable(declared.step)}
    BY <2>2 DEF NumericBounds
  <2>6. \A b \in {f.min, f.max, f.step} \ {None} :
          b \in FiniteNumbers /\ (f.type = "integer" => b.kind = "int")
    <3> HIDE DEF Usable
    <3> QED BY <2>3, <2>4, <2>5
  <2>7. \A b \in {f.min, f.max, f.step} \ {None} : b.v \in Int
    BY <2>6 DEF FiniteNumbers
  <2>8. f.step # None => f.step = Usable(declared.step) /\ ~(f.step.v <= 0)
    BY <2>2 DEF NumericBounds
  <2>9. f.min # None => ~(f.default.v < f.min.v) BY <2>2 DEF NumericBounds
  <2>10. f.max # None => ~(f.default.v > f.max.v) BY <2>2 DEF NumericBounds
  <2> HIDE DEF Usable, range
  <2>11. f.step # None => f.step.v > 0 BY <2>7, <2>8
  <2>12. f.min # None => f.min.v <= f.default.v BY <1>6, <2>7, <2>9
  <2>13. f.max # None => f.default.v <= f.max.v BY <1>6, <2>7, <2>10
  <2>14. f.min # None /\ f.max # None => f.min.v <= f.max.v BY <1>6, <2>7, <2>12, <2>13
  <2> QED BY <1>6, <1>8, <2>6, <2>11, <2>12, <2>13, <2>14
<1> QED BY <1>9, <1>10

\* The document of a field.
LEMMA DocumentOf ==
  ASSUME NEW f
  PROVE  LET d == FieldDocument(f)
         IN  /\ d.id = f.id /\ d.type = f.type /\ d.required = f.required
             /\ d.default = Spelt(f.default)
             /\ d.options = IF f.options = << >> THEN None
                            ELSE [i \in DOMAIN f.options |-> Spelt(f.options[i])]
             /\ d.min = f.min /\ d.max = f.max /\ d.step = f.step
             /\ d.bind = SetToSeq(f.targets) /\ d.bad = {}
             /\ d.translatable = f.translatable
             /\ d.hints \subseteq {"role", "pair", "duration"}
             /\ "role" \in d.hints => f.seed
             /\ "pair" \in d.hints => f.pair
             /\ "duration" \in d.hints => f.duration # None
<1> DEFINE d == FieldDocument(f)
<1>1. /\ d.id = f.id /\ d.type = f.type /\ d.required = f.required
      /\ d.default = Spelt(f.default)
      /\ d.options = IF f.options = << >> THEN None
                     ELSE [i \in DOMAIN f.options |-> Spelt(f.options[i])]
      /\ d.min = f.min /\ d.max = f.max /\ d.step = f.step
      /\ d.bind = SetToSeq(f.targets) /\ d.bad = {}
      /\ d.translatable = f.translatable
  BY Zenon DEF FieldDocument
<1>2. d.hints = (IF f.seed THEN {"role"} ELSE {}) \cup (IF f.pair THEN {"pair"} ELSE {})
                \cup (IF f.duration # None THEN {"duration"} ELSE {})
  BY Zenon DEF FieldDocument
<1> HIDE DEF d
<1>3. /\ d.hints \subseteq {"role", "pair", "duration"}
      /\ "role" \in d.hints => f.seed
      /\ "pair" \in d.hints => f.pair
      /\ "duration" \in d.hints => f.duration # None
  BY <1>2
<1> QED BY <1>1, <1>3 DEF d

\* A spelling keeps what is no text, and the kind of what is one.
LEMMA SpeltAlike ==
  ASSUME NEW x, IsValue(x)
  PROVE  /\ Spelt(x).kind = x.kind
         /\ x.kind # "text" => Spelt(x) = x
         /\ x # None /\ x.kind = "text" /\ x.v # << >> => Spelt(x).v = <<"english", x.v>>
BY DEF Spelt, IsValue

LEMMA TypesOfFields ==
  ASSUME IInv, NEW g \in ControlGroups(candidates), NEW f, FieldOf(f, g)
  PROVE  /\ FirstMember(g) \in candidates /\ FirstMember(g) \in g
         /\ f.type \in FieldTypes
         /\ f.type \notin NumericFieldTypes => f.type = FirstMember(g).verdict.type
         /\ f.options = FirstMember(g).options
         /\ f.options # << >> => f.type = "select"
         /\ f.type \in MediaTypes => f.default = None
<1> DEFINE first == FirstMember(g)
<1>1. g \subseteq candidates /\ first \in g BY GroupsOfCandidates, FirstOfAGroup
<1>2. Fits(first.verdict, first.value) /\ (first.options # << >> => first.verdict.type = "select")
  BY <1>1, CandidatesFit
<1>3. f.type \notin NumericFieldTypes => f.type = first.verdict.type
  BY AFieldOfNoNumber
<1>4. f.type \in NumericFieldTypes => IsNumber(first) BY <1>1, TypeOfAField DEF IsNumber
<1>5. f.options = first.options BY PartsOfAField
<1>6. f.type \in MediaTypes => f.default = None
  <2>1. f.type \in MediaTypes => first.verdict.media # None
    BY <1>2, <1>3, NoneAssumption DEF Fits, MediaTypes, NumericFieldTypes
  <2>2. first.verdict.media # None => f.default = None BY MoreOfAField
  <2> QED BY <2>1, <2>2
<1>7. f.type \in FieldTypes BY <1>2, <1>3 DEF Fits, FieldTypes, NumericFieldTypes
<1>8. f.options # << >> => f.type = "select"
  BY <1>2, <1>3, <1>4, <1>5 DEF IsNumber, NumericFieldTypes
<1> QED BY <1>1, <1>3, <1>5, <1>6, <1>7, <1>8

LEMMA KeysLoad ==
  ASSUME IInv, NEW g \in ControlGroups(candidates), NEW f, FieldOf(f, g)
  PROVE  Form!KeysFit(FieldDocument(f))
<1> DEFINE d == FieldDocument(f)
<1>1. /\ f.type \in FieldTypes
      /\ f.options # << >> => f.type = "select"
      /\ f.type \in MediaTypes => f.default = None
  BY TypesOfFields
<1>2. f.type \notin NumericFieldTypes => f.min = None /\ f.max = None /\ f.step = None
  BY AFieldOfNoNumber
<1>3. /\ f.translatable => f.type \in {"string", "multiline"}
      /\ f.seed => f.type = "integer"
      /\ f.pair => f.type = "integer"
      /\ f.duration # None => f.type = "integer"
  BY MoreOfAField
<1>4. /\ d.type = f.type /\ d.default = Spelt(f.default)
      /\ f.options = << >> => d.options = None
      /\ d.min = f.min /\ d.max = f.max /\ d.step = f.step
      /\ d.translatable = f.translatable
      /\ d.hints \subseteq {"role", "pair", "duration"}
      /\ "role" \in d.hints => f.seed
      /\ "pair" \in d.hints => f.pair
      /\ "duration" \in d.hints => f.duration # None
  BY DocumentOf
<1> HIDE DEF d
<1>5. ASSUME NEW key \in Form!KeysOf(d) PROVE key \in Form!TypeExtras(d.type)
  <2>1. \/ key \in d.hints
        \/ key \in {"min", "max", "step", "options"} /\ d[key] # None
        \/ key = "translatable" /\ d.translatable
    BY <1>5 DEF Form!KeysOf
  <2>2. CASE key \in d.hints
    BY <1>3, <1>4, <2>2 DEF Form!TypeExtras, Form!TextTypes
  <2>3. CASE key \in {"min", "max", "step"} /\ d[key] # None
    <3>1. f.type \in NumericFieldTypes BY <1>2, <1>4, <2>3
    <3> QED BY <1>4, <2>3, <3>1 DEF Form!TypeExtras, Form!TextTypes, NumericFieldTypes
  <2>4. CASE key = "options" /\ d[key] # None
    <3>1. f.type = "select" BY <1>1, <1>4, <2>4
    <3> QED BY <1>4, <2>4, <3>1 DEF Form!TypeExtras, Form!TextTypes
  <2>5. CASE key = "translatable" /\ d.translatable
    BY <1>3, <1>4, <2>5 DEF Form!TypeExtras, Form!TextTypes
  <2> QED BY <2>1, <2>2, <2>3, <2>4, <2>5
<1>6. d.type \in Form!MediaTypes => d.default = None
  BY <1>1, <1>4 DEF Form!MediaTypes, MediaTypes, Spelt
<1> QED BY <1>5, <1>6 DEF Form!KeysFit, d

\* The options of a choice, and the value it starts with, as they are spelt.
LEMMA ChoicesOfAField ==
  ASSUME IInv, ReadingInv, NEW g \in ControlGroups(candidates), NEW f, FieldOf(f, g),
         f.type = "select"
  PROVE  /\ AreChoices(f.options) /\ f.options # << >>
         /\ f.default # None =>
              /\ f.default.kind = "text" /\ IsValue(f.default)
              /\ \E i \in DOMAIN f.options : PythonEqual(f.default, f.options[i])
<1> DEFINE first == FirstMember(g)
<1>1. first \in candidates /\ f.type = first.verdict.type /\ f.options = first.options
  BY TypesOfFields DEF NumericFieldTypes
<1>2. f.default \in {None, first.value} BY AFieldOfNoNumber DEF NumericFieldTypes
<1>3. IsValue(first.value) BY <1>1, ACandidate
<1> HIDE DEF first
<1>4. /\ first.value.kind = "text" /\ AreChoices(first.options)
      /\ \E i \in DOMAIN first.options : PythonEqual(first.value, first.options[i])
  BY <1>1, CandidatesKinds
<1>5. f.options # << >> BY <1>1, <1>4 DEF AreChoices
<1> QED BY <1>1, <1>2, <1>3, <1>4, <1>5

LEMMA SpeltOptions ==
  ASSUME NEW x, NEW y, IsOptionValue(x), IsOptionValue(y), x # None, y # None,
         ~PythonEqual(x, y)
  PROVE  ~Form!Equal(Spelt(x), Spelt(y))
<1>1. /\ x = [kind |-> x.kind, v |-> x.v] /\ y = [kind |-> y.kind, v |-> y.v]
      /\ x.kind \in {"text", "int", "float"} /\ y.kind \in {"text", "int", "float"}
      /\ x.kind = "text" => x.v # << >>
      /\ y.kind = "text" => y.v # << >>
  BY DEF IsOptionValue
<1>2. x.kind = y.kind => x.v # y.v BY <1>1 DEF PythonEqual
<1>3. x.kind # "text" /\ y.kind # "text" => x.v # y.v
  BY <1>1, <1>2 DEF PythonEqual
<1>4. /\ Spelt(x).kind = x.kind /\ Spelt(y).kind = y.kind
      /\ Spelt(x).v = IF x.kind = "text" THEN <<"english", x.v>> ELSE x.v
      /\ Spelt(y).v = IF y.kind = "text" THEN <<"english", y.v>> ELSE y.v
  BY <1>1 DEF Spelt
<1>5. CASE x.kind = "text" /\ y.kind = "text"
  <2>1. <<"english", x.v>> # <<"english", y.v>> BY <1>2, <1>5
  <2> QED BY <1>4, <1>5, <2>1 DEF Form!Equal
<1>6. CASE x.kind # "text" /\ y.kind # "text"
  BY <1>3, <1>4, <1>6 DEF Form!Equal
<1>7. CASE x.kind # y.kind /\ "text" \in {x.kind, y.kind}
  BY <1>4, <1>7 DEF Form!Equal, Form!NumberKinds
<1> QED BY <1>5, <1>6, <1>7

LEMMA OptionsLoad ==
  ASSUME NoneIsNoFunction, IInv, ReadingInv,
         NEW g \in ControlGroups(candidates), NEW f, FieldOf(f, g)
  PROVE  Form!OptionsFit(FieldDocument(f))
<1> DEFINE d == FieldDocument(f)
           options == [i \in DOMAIN f.options |-> Spelt(f.options[i])]
<1> SUFFICES ASSUME d.type = "select"
             PROVE  /\ d.options # None /\ d.options # << >>
                    /\ \A i \in DOMAIN d.options :
                         /\ d.options[i].kind \in Form!NumberKinds \cup {"text"}
                         /\ Form!IsText(d.options[i]) => d.options[i].v # << >>
                         /\ \A j \in 1..(i - 1) : ~Form!Equal(d.options[i], d.options[j])
  BY DEF Form!OptionsFit
<1>1. d.type = f.type /\ (f.options # << >> => d.options = options) BY DocumentOf
<1>2. AreChoices(f.options) /\ f.options # << >> BY <1>1, ChoicesOfAField
<1>3. d.options = options BY <1>1, <1>2
<1> HIDE DEF d
<1>4. options # None BY DEF NoneIsNoFunction
<1>5. PICK m \in Nat : DOMAIN f.options = 1..m BY <1>2 DEF AreChoices
<1>6. /\ DOMAIN options = 1..m /\ 1..m # {}
      /\ \A i \in 1..m : options[i] = Spelt(f.options[i])
  BY <1>2, <1>5 DEF AreChoices
<1>7. \A i \in 1..m : IsOptionValue(f.options[i]) /\ f.options[i] # None
  <2>1. \A x : IsOptionValue(x) => x # None
    <3> TAKE x
    <3> HAVE IsOptionValue(x)
    <3>1. x = [kind |-> x.kind, v |-> x.v] BY DEF IsOptionValue
    <3>2. [kind |-> x.kind, v |-> x.v] # None BY DEF NoneIsNoFunction
    <3> QED BY Zenon, <3>1, <3>2
  <2> QED BY <1>2, <1>5, <2>1 DEF AreChoices
<1>8. \A i, j \in 1..m : i # j => ~PythonEqual(f.options[i], f.options[j])
  BY <1>2, <1>5 DEF AreChoices
<1> HIDE DEF options
<1>9. options # << >> BY <1>6
<1>10. ASSUME NEW i \in 1..m
       PROVE  /\ options[i].kind \in Form!NumberKinds \cup {"text"}
              /\ Form!IsText(options[i]) => options[i].v # << >>
              /\ \A j \in 1..(i - 1) : ~Form!Equal(options[i], options[j])
  <2> DEFINE x == f.options[i]
  <2>1. /\ IsOptionValue(x) /\ x # None /\ options[i] = Spelt(x) BY <1>6, <1>7
  <2>2. ASSUME NEW j \in 1..(i - 1) PROVE ~Form!Equal(options[i], options[j])
    <3>1. j \in 1..m /\ i # j OBVIOUS
    <3> HIDE DEF x
    <3> QED BY <1>6, <1>7, <1>8, <2>1, <3>1, SpeltOptions DEF x
  <2> HIDE DEF x
  <2>3. /\ options[i].kind = x.kind /\ x.kind \in {"text", "int", "float"}
        /\ x.kind = "text" => options[i].v = <<"english", x.v>>
    BY <2>1 DEF IsOptionValue, Spelt
  <2>4. x.kind = "text" => options[i].v # << >>
    <3>1. <<"english", x.v>> # << >>
      <4>1. Len(<<"english", x.v>>) = 2 /\ Len(<< >>) = 0 OBVIOUS
      <4> QED BY <4>1
    <3> QED BY Zenon, <2>3, <3>1
  <2> QED BY <2>2, <2>3, <2>4 DEF Form!NumberKinds, Form!IsText
<1> QED BY <1>3, <1>4, <1>6, <1>9, <1>10

LEMMA BoundsLoad ==
  ASSUME IInv, NEW g \in ControlGroups(candidates), NEW f, FieldOf(f, g), ~SavedAsAFloat(f)
  PROVE  Form!BoundsFit(FieldDocument(f))
<1> DEFINE d == FieldDocument(f)
<1>1. d.type = f.type /\ d.min = f.min /\ d.max = f.max /\ d.step = f.step BY DocumentOf
<1> HIDE DEF d
<1> SUFFICES ASSUME d.type \in Form!NumericTypes
             PROVE  /\ \A key \in {"min", "max", "step"} :
                         d[key] # None => /\ Form!IsNumber(d[key])
                                          /\ d.type = "integer" => d[key].kind = "int"
                    /\ d.step # None => d.step.v > 0
                    /\ d.min # None /\ d.max # None => d.min.v <= d.max.v
  BY DEF Form!BoundsFit, d
<1>2. f.type \in NumericFieldTypes BY <1>1 DEF Form!NumericTypes, NumericFieldTypes
<1>3. /\ \A b \in {f.min, f.max, f.step} \ {None} :
           b \in FiniteNumbers /\ (f.type = "integer" => b.kind = "int")
      /\ f.step # None => f.step.v > 0
      /\ f.min # None /\ f.max # None => f.min.v <= f.max.v
  BY <1>2, NumbersLoad
<1>4. \A key \in {"min", "max", "step"} : d[key] \in {f.min, f.max, f.step} BY <1>1
<1>5. \A b \in FiniteNumbers : Form!IsNumber(b)
  BY DEF FiniteNumbers, Form!IsNumber, Form!NumberKinds
<1> QED BY <1>1, <1>3, <1>4, <1>5

\* A text that is asked for and shown is not blank.
LEMMA DefaultTexts ==
  ASSUME IInv, NEW g \in ControlGroups(candidates), NEW f, FieldOf(f, g),
         f.type \notin NumericFieldTypes, f.default # None, f.default.kind = "text", f.required
  PROVE  ~Form!IsBlank(Spelt(f.default).v)
<1> DEFINE first == FirstMember(g)
           x == first.value
<1>1. first \in candidates /\ f.default = x BY TypesOfFields, AFieldOfNoNumber
<1>2. IsValue(x) BY <1>1, ACandidate
<1>3. "blank" \notin LooksOf(x)
  <2> DEFINE main == first.verdict.media # None
                     \/ (first.verdict.prompt /\ first.role = <<"prompt">>)
  <2>1. main BY MoreOfAField
  <2>2. ~(x.kind = "text" /\ main /\ "blank" \in LooksOf(x)) BY <1>1, MoreOfAField
  <2> HIDE DEF main, first
  <2> QED BY <1>1, <2>1, <2>2
<1> HIDE DEF first, x
<1>4. x.v # << >> BY <1>1, <1>3, BlankAssumption DEF LooksOf
<1>5. Spelt(x).v = <<"english", x.v>> BY <1>1, <1>2, <1>4, SpeltAlike
<1>6. \A v : 1 \in Form!Filled(<<"english", v>>)
  <2> TAKE v
  <2>1. Len(<<"english", v>>) = 2 /\ <<"english", v>>[1] = "english" OBVIOUS
  <2>2. "english" # "space" OBVIOUS
  <2> QED BY <2>1, <2>2 DEF Form!Filled
<1>7. 1 \in Form!Filled(Spelt(x).v) BY <1>5, <1>6
<1> QED BY <1>1, <1>7 DEF Form!IsBlank

LEMMA DefaultsLoad ==
  ASSUME IInv, ReadingInv, NEW g \in ControlGroups(candidates), NEW f, FieldOf(f, g),
         ~SavedAsAFloat(f)
  PROVE  Form!DefaultFits(FieldDocument(f))
<1> DEFINE d == FieldDocument(f)
           first == FirstMember(g)
<1>1. /\ d.type = f.type /\ d.default = Spelt(f.default) /\ d.required = f.required
      /\ d.min = f.min /\ d.max = f.max
      /\ f.options # << >> => d.options = [i \in DOMAIN f.options |-> Spelt(f.options[i])]
  BY DocumentOf
<1>2. first \in candidates /\ f.type \in FieldTypes BY TypesOfFields
<1> HIDE DEF d
<1>3. CASE f.default = None
  <2>1. d.default = None BY <1>1, <1>3 DEF Spelt
  <2> QED BY <2>1 DEF Form!DefaultFits, d
<1>4. CASE f.default # None /\ f.type \in NumericFieldTypes
  <2>1. /\ f.default.kind \in {"int", "float"}
        /\ f.type = "integer" => f.default.kind = "int"
        /\ f.min # None => f.min.v <= f.default.v
        /\ f.max # None => f.default.v <= f.max.v
    BY <1>4, NumbersLoad
  <2>2. d.default = f.default BY <1>1, <2>1 DEF Spelt
  <2>3. Form!WithinBounds(d, d.default) BY <1>1, <2>1, <2>2 DEF Form!WithinBounds
  <2>4. Form!IsNumber(d.default) /\ ~Form!IsText(d.default)
    BY <2>1, <2>2 DEF Form!IsNumber, Form!NumberKinds, Form!IsText
  <2>5. d.type \in {"integer", "float"} BY <1>1, <1>4 DEF NumericFieldTypes
  <2> QED BY <1>1, <2>1, <2>2, <2>3, <2>4, <2>5 DEF Form!DefaultFits, Form!TextTypes, d
<1>5. CASE f.default # None /\ f.type \notin NumericFieldTypes
  <2>1. f.default = first.value /\ f.type = first.verdict.type
    BY <1>5, AFieldOfNoNumber
  <2>2. IsValue(first.value) BY <1>2, ACandidate
  <2>3. IsLiteral(first.value) /\ KindFits(first.verdict.type, first.value)
    BY <1>2, CandidatesKinds
  <2> HIDE DEF first
  <2>4. f.default.kind \in {"bool", "int", "float", "text"}
    BY <2>1, <2>3 DEF IsLiteral, FieldTypeOf
  <2>5. d.default.kind = f.default.kind BY <1>1, <2>1, <2>2, SpeltAlike
  <2>6. d.required /\ Form!IsText(d.default) => ~Form!IsBlank(d.default.v)
    <3>1. f.required /\ f.default.kind = "text" => ~Form!IsBlank(Spelt(f.default).v)
      BY <1>5, DefaultTexts
    <3> QED BY <1>1, <2>5, <3>1 DEF Form!IsText
  <2>7. CASE f.type \in {"string", "multiline"}
    <3>1. Form!IsText(d.default) BY <2>1, <2>3, <2>5, <2>7 DEF KindFits, Form!IsText
    <3> QED BY <1>1, <2>4, <2>5, <2>6, <2>7, <3>1 DEF Form!DefaultFits, Form!TextTypes, d
  <2>8. CASE f.type = "boolean"
    <3>1. d.default.kind = "bool" BY <2>1, <2>3, <2>5, <2>8 DEF KindFits
    <3> QED BY <1>1, <2>6, <2>8, <3>1 DEF Form!DefaultFits, Form!TextTypes, d
  <2>9. CASE f.type = "select"
    <3>1. /\ f.options # << >> /\ f.default.kind = "text"
          /\ \E i \in DOMAIN f.options : PythonEqual(f.default, f.options[i])
      BY <1>5, <2>9, ChoicesOfAField
    <3>2. PICK i \in DOMAIN f.options : f.default = f.options[i]
      BY <3>1 DEF PythonEqual
    <3>3. DOMAIN d.options = DOMAIN f.options /\ d.options[i] = d.default BY <1>1, <3>1, <3>2
    <3>4. \E k \in DOMAIN d.options : Form!Equal(d.default, d.options[k])
      BY <3>3 DEF Form!Equal
    <3>5. d.default.kind = "text" BY <2>5, <3>1
    <3> QED BY <1>1, <2>6, <2>9, <3>4, <3>5 DEF Form!DefaultFits, Form!TextTypes, d
  <2>10. f.type \notin MediaTypes BY <1>5, TypesOfFields
  <2>11. f.type \in {"string", "multiline", "boolean", "select"}
    BY <1>2, <1>5, <2>10 DEF FieldTypes, MediaTypes, NumericFieldTypes
  <2> QED BY <2>7, <2>8, <2>9, <2>11
<1> QED BY <1>3, <1>4, <1>5

\* The inputs a field binds are there, and no wires.
LEMMA TargetsLoad ==
  ASSUME IInv, ReadingInv, NEW g \in ControlGroups(candidates), NEW f, FieldOf(f, g)
  PROVE  /\ f.targets # {} /\ IsFiniteSet(f.targets)
         /\ \A t \in f.targets : Form!Bindable(t, GraphInputs(graph))
<1>1. f.targets = {Target(c) : c \in g} BY PartsOfAField
<1>2. g \subseteq candidates /\ g # {} BY GroupsOfCandidates
<1>3. IsFiniteSet(f.targets)
  <2> DEFINE T == [c \in g |-> Target(c)]
  <2>1. IsFiniteSet(g) BY <1>2, FS_Subset DEF IInv, CandidatesAreJudged
  <2>2. T \in Surjection(g, f.targets) BY <1>1 DEF Surjection
  <2> HIDE DEF T
  <2> QED BY <2>1, <2>2, FS_Surjection
<1>4. ASSUME NEW c \in g PROVE Form!Bindable(Target(c), GraphInputs(graph))
  <2> DEFINE t == Target(c)
             all == UNION {[node : {n}, input : DOMAIN Inputs(graph, n)] : n \in DOMAIN graph}
  <2>1. /\ c.node \in DOMAIN graph /\ c.input \in DOMAIN Inputs(graph, c.node)
        /\ c.value = Inputs(graph, c.node)[c.input] /\ IsValue(c.value)
    BY <1>2, ACandidate
  <2>2. IsLiteral(c.value) BY <1>2, CandidatesKinds
  <2>3. t = [node |-> c.node, input |-> c.input] BY DEF Target
  <2>4. t \in [node : {c.node}, input : DOMAIN Inputs(graph, c.node)] BY <2>1, <2>3
  <2>5. t \in all BY <2>1, <2>4
  <2>6. t.node = c.node /\ t.input = c.input BY <2>3
  <2> HIDE DEF t
  <2>7. t \in DOMAIN GraphInputs(graph) /\ GraphInputs(graph)[t] = Spelt(c.value)
    BY <2>1, <2>5, <2>6 DEF GraphInputs
  <2>8. c.value.kind # "wire" BY <2>2 DEF IsLiteral, FieldTypeOf
  <2>9. Spelt(c.value).kind = c.value.kind BY <2>1, SpeltAlike
  <2> QED BY <2>7, <2>8, <2>9 DEF Form!Bindable, t
<1> QED BY <1>1, <1>2, <1>3, <1>4

LEMMA BindsLoad ==
  ASSUME IInv, ReadingInv, NEW g \in ControlGroups(candidates), NEW f, FieldOf(f, g)
  PROVE  Form!BindFits(FieldDocument(f), GraphInputs(graph))
<1> DEFINE d == FieldDocument(f)
           n == Cardinality(f.targets)
<1>1. d.bind = SetToSeq(f.targets) BY DocumentOf
<1>2. /\ f.targets # {} /\ IsFiniteSet(f.targets)
      /\ \A t \in f.targets : Form!Bindable(t, GraphInputs(graph))
  BY TargetsLoad
<1> HIDE DEF d
<1>3. d.bind \in [1..n -> f.targets] /\ n \in Nat /\ IsInjective(d.bind)
  BY <1>1, <1>2, SetsAsSequences
<1>4. n # 0 BY <1>2, FS_EmptySet
<1>5. d.bind # << >>
  <2>1. DOMAIN d.bind = 1..n /\ 1 \in 1..n BY <1>3, <1>4
  <2>2. DOMAIN << >> = {} OBVIOUS
  <2> QED BY <2>1, <2>2
<1>6. Form!IsInjective(d.bind) BY <1>3 DEF IsInjective, Form!IsInjective
<1>7. \A i \in DOMAIN d.bind : Form!Bindable(d.bind[i], GraphInputs(graph)) BY <1>2, <1>3
<1> QED BY <1>5, <1>6, <1>7 DEF Form!BindFits, d

\* What the loader asks of a field by itself.
LEMMA FieldLoads ==
  ASSUME NoneIsNoFunction, IInv, ReadingInv,
         NEW g \in ControlGroups(candidates), NEW f, FieldOf(f, g), ~SavedAsAFloat(f)
  PROVE  Form!FieldFits(FieldDocument(f), GraphInputs(graph))
<1> DEFINE d == FieldDocument(f)
<1>1. d.bad = {} BY DocumentOf
<1>2. Form!KeysFit(d) BY KeysLoad
<1>3. Form!OptionsFit(d) BY OptionsLoad
<1>4. Form!BoundsFit(d) BY BoundsLoad
<1>5. Form!DefaultFits(d) BY DefaultsLoad
<1>6. Form!BindFits(d, GraphInputs(graph)) BY BindsLoad
<1> HIDE DEF d
<1> QED BY <1>1, <1>2, <1>3, <1>4, <1>5, <1>6 DEF Form!FieldFits, d

\* Two fields have neither an input nor an id in common.
LEMMA OneFieldEach ==
  ASSUME IInv, ReadingInv, EveryInputIsAnswered, Done, NEW f \in Fields, NEW h \in Fields,
         f.id = h.id \/ f.targets \cap h.targets # {}
  PROVE  f = h
<1>1. PICK g \in ControlGroups(candidates) : IsTheFieldOf(f, g)
  BY DEF IInv, FieldsAreOfGroups, Fields
<1>2. PICK k \in ControlGroups(candidates) : IsTheFieldOf(h, k)
  BY DEF IInv, FieldsAreOfGroups, Fields
<1>3. FieldOf(f, g) /\ FieldOf(h, k) BY <1>1, <1>2 DEF IsTheFieldOf, FieldOf
<1>4. /\ \A c, d \in controls : Target(c) = Target(d) => c = d
      /\ f.targets = {Target(c) : c \in {c \in controls : InAField(c) /\ c.field = f.id}}
      /\ h.targets = {Target(c) : c \in {c \in controls : InAField(c) /\ c.field = h.id}}
  BY DEF EveryInputIsAnswered
<1>5. f.targets # {} BY <1>3, TargetsLoad
<1>6. f.id = h.id => f.targets = h.targets BY <1>4
<1>7. PICK t : t \in f.targets /\ t \in h.targets BY <1>5, <1>6
<1>8. f.id = h.id BY <1>4, <1>7
<1>9. g = k
  <2>1. f.targets = {Target(c) : c \in g} /\ h.targets = {Target(c) : c \in k}
    BY <1>3, PartsOfAField
  <2>2. PICK c \in g, d \in k : Target(c) = t /\ Target(d) = t BY <1>7, <2>1
  <2>3. c \in candidates /\ d \in candidates BY GroupsOfCandidates
  <2>4. c = d BY <2>2, <2>3, OneCandidateEach
  <2> QED BY <2>4, GroupsAreApart
<1> QED BY <1>1, <1>2, <1>8, <1>9 DEF IsTheFieldOf

LEMMA FiniteFields ==
  ASSUME IInv, ReadingInv, EveryInputIsAnswered, Done
  PROVE  IsFiniteSet(Fields)
<1> DEFINE all == ControlGroups(candidates)
           F == [f \in Fields |-> Members(f)]
<1>1. ASSUME NEW f \in Fields
      PROVE  Members(f) \in all /\ f.targets # {} /\ f.targets = {Target(c) : c \in Members(f)}
  <2>1. PICK g \in all : FieldOf(f, g) BY GroupsOfFields
  <2>2. Members(f) = g BY <2>1, MembersAreTheGroup
  <2> QED BY <2>1, <2>2, TargetsLoad, PartsOfAField
<1>2. \A f, h \in Fields : Members(f) = Members(h) => f = h
  <2> TAKE f, h \in Fields
  <2> HAVE Members(f) = Members(h)
  <2>1. f.targets = h.targets /\ f.targets # {} BY <1>1
  <2>2. f.targets \cap h.targets # {} BY <2>1
  <2> QED BY <2>2, OneFieldEach
<1> HIDE DEF all
<1>3. F \in [Fields -> all] BY <1>1
<1>4. \A f, h \in Fields : F[f] = F[h] => f = h BY <1>2
<1>5. F \in Injection(Fields, all) BY <1>3, <1>4 DEF Injection, IsInjective
<1>6. IsFiniteSet(all) BY FiniteGroups DEF all
<1> HIDE DEF F
<1> QED BY <1>5, <1>6, FS_Injection

LEMMA PlanLoads ==
  ASSUME NoneIsNoFunction, IInv, ReadingInv, EveryInputIsAnswered
  PROVE  PlansLoad
<1> SUFFICES ASSUME Done, \A f \in Fields : ~SavedAsAFloat(f)
             PROVE  Form!Loads(DefinitionDocument)
  BY DEF PlansLoad
<1> DEFINE doc == DefinitionDocument
           documents == {FieldDocument(f) : f \in Fields}
           n == Cardinality(documents)
<1>1. /\ doc.id = "generated" /\ doc.bad = {} /\ doc.graph = GraphInputs(graph)
      /\ doc.fields = SetToSeq(documents)
  BY DEF DefinitionDocument
<1>2. doc # None BY DEF DefinitionDocument, NoneIsNoFunction
<1>3. doc.graph # None BY <1>1 DEF GraphInputs, NoneIsNoFunction
<1>4. IsFiniteSet(documents)
  <2> DEFINE D == [f \in Fields |-> FieldDocument(f)]
  <2>1. D \in Surjection(Fields, documents) BY DEF Surjection
  <2> HIDE DEF D, documents
  <2> QED BY <2>1, FiniteFields, FS_Surjection
<1>5. /\ doc.fields \in [1..n -> documents] /\ n \in Nat
      /\ \A i, j \in 1..n : doc.fields[i] = doc.fields[j] => i = j
  <2> HIDE DEF documents, doc
  <2> QED BY <1>1, <1>4, SetsAsSequences DEF IsInjective
<1>6. ASSUME NEW f \in Fields
      PROVE  /\ Form!FieldFits(FieldDocument(f), GraphInputs(graph))
             /\ FieldDocument(f).id = f.id
             /\ Form!Targets(FieldDocument(f)) \subseteq f.targets
  <2>1. PICK g \in ControlGroups(candidates) : FieldOf(f, g) BY GroupsOfFields
  <2>2. Form!FieldFits(FieldDocument(f), GraphInputs(graph)) BY <2>1, FieldLoads
  <2> DEFINE d == FieldDocument(f)
  <2>3. d.id = f.id /\ d.bind = SetToSeq(f.targets) BY DocumentOf
  <2> HIDE DEF d
  <2>4. d.bind \in [1..Cardinality(f.targets) -> f.targets]
    BY <2>1, <2>3, TargetsLoad, SetsAsSequences
  <2>5. Form!Targets(d) \subseteq f.targets BY <2>4 DEF Form!Targets, Form!ToSet
  <2> QED BY <2>2, <2>3, <2>5 DEF d
<1> HIDE DEF doc
<1>7. ASSUME NEW i \in DOMAIN doc.fields
      PROVE  /\ Form!FieldFits(doc.fields[i], doc.graph)
             /\ \A j \in 1..(i - 1) :
                  /\ doc.fields[i].id # doc.fields[j].id
                  /\ Form!Targets(doc.fields[i]) \cap Form!Targets(doc.fields[j]) = {}
  <2>1. i \in 1..n BY <1>5
  <2>2. PICK f \in Fields : doc.fields[i] = FieldDocument(f) BY <1>5, <2>1
  <2>3. Form!FieldFits(doc.fields[i], doc.graph) BY <1>1, <1>6, <2>2
  <2>4. ASSUME NEW j \in 1..(i - 1)
        PROVE  /\ doc.fields[i].id # doc.fields[j].id
               /\ Form!Targets(doc.fields[i]) \cap Form!Targets(doc.fields[j]) = {}
    <3>1. j \in 1..n /\ i # j BY <1>5, <2>1
    <3>2. PICK h \in Fields : doc.fields[j] = FieldDocument(h) BY <1>5, <3>1
    <3>3. f # h BY <1>5, <2>1, <2>2, <3>1, <3>2
    <3>4. f.id # h.id /\ f.targets \cap h.targets = {} BY <3>3, OneFieldEach
    <3> HIDE DEF documents
    <3> QED BY <1>6, <2>2, <3>2, <3>4
  <2> QED BY <2>3, <2>4
<1>8. Form!FieldsFit(doc) BY <1>7 DEF Form!FieldsFit
<1> QED BY <1>1, <1>2, <1>3, <1>8 DEF Form!Loads, doc

\* A plan nothing speaks against makes a definition the loader takes, whatever
\* the graph and its runtime's contract, but for the one field SavedAsAFloat
\* names.  What None stands for, an absent key or file, is no list and no record.
THEOREM PlansAreLoaded ==
  ASSUME NoneIsNoFunction
  PROVE  Spec => []PlansLoad
<1>1. Spec => []ReadingInv
  BY InitReads, StepsRead, ReadingIsOfTheGraph, PTL DEF Spec
<1>2. IInv /\ ReadingInv /\ EveryInputIsAnswered => PlansLoad BY PlanLoads
<1> QED BY <1>1, <1>2, ReadingIsOfTheGraph, InputsAreAnswered, PTL

=============================================================================
