--------------------------- MODULE RuntimeContract ---------------------------
(***************************************************************************)
(* What the ComfyUI that will run a graph declares about its node classes, *)
(* read from /object_info.  A class's entry is [output, input], where      *)
(* input has the sections required and optional, each a function from      *)
(* input names to what is declared, [type, list, config].  A choice list   *)
(* is type "list" in the older form and type "COMBO" in the newer; the     *)
(* choices of a node shape are the options of its config, each with a key  *)
(* and the inputs it adds.  None stands for whatever cannot be read.       *)
(***************************************************************************)
EXTENDS InputSemantics

(* Values are compared as they are written, kind and all; Python's own     *)
(* equality also calls 1, 1.0 and True equal                               *)
PythonEqual(x, y) == \/ x = y
                     \/ /\ {x.kind, y.kind} \subseteq {"int", "float", "bool"}
                        /\ x.v = y.v

IsOptionValue(x) ==
  /\ x = [kind |-> x.kind, v |-> x.v]
  /\ x.kind \in {"text", "int", "float"}
  /\ x.kind = "text" => x.v # << >>

Config(spec, key) == IF key \in DOMAIN spec.config THEN spec.config[key] ELSE None

ChoiceList(spec) ==
  CASE spec.type = "list"  -> spec.list
    [] spec.type = "COMBO" -> Config(spec, "options")
    [] OTHER               -> None

(* Exact repeats are tidied away; equal values of two kinds refuse the lot *)
WithoutRepeats(list) ==
  LET firsts == {i \in DOMAIN list : \A j \in 1..(i - 1) : list[j] # list[i]}
      Rank(i) == Cardinality({j \in firsts : j <= i})
  IN  [k \in 1..Cardinality(firsts) |-> list[CHOOSE i \in firsts : Rank(i) = k]]

OptionsOf(list) ==
  IF \/ list = None \/ list = << >> \/ list \notin Seq(ToSet(list))
     \/ \E i \in DOMAIN list : ~IsOptionValue(list[i])
     \/ \E i, j \in DOMAIN list : list[i] # list[j] /\ PythonEqual(list[i], list[j])
  THEN None
  ELSE WithoutRepeats(list)

DeclaredOptions(spec) == OptionsOf(ChoiceList(spec))

(* A finite number: a NaN or an infinity is no integer here                *)
FiniteNumbers == [kind : {"int", "float"}, v : Int]
DeclaredBound(x) == IF x \in FiniteNumbers THEN x ELSE None

DeclaredBounds == FiniteNumbers \cup {None}
NumericDeclarations == [type : {"integer", "float"}, min : DeclaredBounds,
                        max : DeclaredBounds, step : DeclaredBounds]

ASSUME DeclarationAssumption == None \notin NumericDeclarations

DeclaredNumeric(spec) ==
  IF spec.type \notin {"INT", "FLOAT"} THEN None
  ELSE [type |-> IF spec.type = "INT" THEN "integer" ELSE "float",
        min  |-> DeclaredBound(Config(spec, "min")),
        max  |-> DeclaredBound(Config(spec, "max")),
        step |-> DeclaredBound(Config(spec, "step"))]

(* The shapes a node can take                                              *)
ShapesOf(list) ==
  IF list \in {None, << >>} \/ (\E i \in DOMAIN list : ~IsOptionValue(list[i].key))
  THEN None ELSE list

DeclaredShapes(spec) ==
  IF spec.type = "COMFY_DYNAMICCOMBO_V3" THEN ShapesOf(Config(spec, "options")) ELSE None

DeclaredString(spec) ==
  IF spec.type # "STRING" THEN None ELSE [default |-> Config(spec, "default")]

FirstFound(answers) ==
  LET found == {i \in DOMAIN answers : answers[i] # None}
  IN  IF found = {} THEN None ELSE answers[CHOOSE i \in found : \A j \in found : i <= j]

(* The first section that names an input speaks for it, if it can be read  *)
Reading(entry, name) ==
  LET As(table, found) == IF found = None THEN None ELSE [table |-> table, found |-> found]
      Read(spec) == FirstFound(<< As("options", DeclaredOptions(spec)),
                                  As("numeric", DeclaredNumeric(spec)),
                                  As("shapes", DeclaredShapes(spec)),
                                  As("string", DeclaredString(spec)) >>)
      In(section) == IF section = None \/ name \notin DOMAIN section THEN None
                     ELSE Read(section[name])
  IN  FirstFound(<<In(entry.input.required), In(entry.input.optional)>>)

(* The tables of a contract.  Without one nothing is declared.             *)
For(contract, class, name, table) ==
  LET In(reading) == IF reading # None /\ reading.table = table THEN reading.found ELSE None
  IN  IF contract = None \/ class \notin DOMAIN contract THEN None
      ELSE In(Reading(contract[class], name))

OptionsFor(contract, class, name) == For(contract, class, name, "options")
NumericFor(contract, class, name) == For(contract, class, name, "numeric")
ShapesFor(contract, class, name) == For(contract, class, name, "shapes")
StringFor(contract, class, name) == For(contract, class, name, "string")
OutputsFor(contract, class) ==
  IF contract = None \/ class \notin DOMAIN contract THEN None ELSE contract[class].output

Declares(contract, class, name) ==
  /\ contract # None /\ class \in DOMAIN contract
  /\ Reading(contract[class], name) # None

(* The contract of one input that a chosen shape adds to a node            *)
UnderShape(contract, class, shape, child, name) ==
  LET Under(section) == IF section = None \/ child \notin DOMAIN section THEN None
                        ELSE [n \in {name} |-> section[child]]
      Declaring(entry) == IF Reading(entry, name) = None THEN None
                          ELSE [c \in {class} |-> entry]
  IN  IF shape.inputs = None THEN None
      ELSE Declaring([output |-> OutputsFor(contract, class),
                      input |-> [required |-> Under(shape.inputs.required),
                                 optional |-> Under(shape.inputs.optional)]])

NamesFiles(options) ==
  \E i \in DOMAIN options : LooksLikeAFileName(options[i]) \/ LooksLikeAPath(options[i])

=============================================================================
