----------------------------- MODULE FormFields -----------------------------
(***************************************************************************)
(* Workflow definitions: which of them load, which values a field takes,   *)
(* and how the values of a submission are written into the graph.          *)
(*                                                                         *)
(* A value is [kind, v].  Numbers are counted in halves, so that a float   *)
(* that is whole, one that is not and an integer can be told apart and     *)
(* still compared.  A text's v is a sequence of characters.  A document is *)
(* what a definition file says, a graph its ComfyUI graph: a value for     *)
(* each input of a node, "wire" being the kind of a connected one.         *)
(***************************************************************************)
EXTENDS PromptTranslation, FiniteSets

CONSTANTS None,           \* an absent key, file or value
          WellFormedIds   \* the workflow ids the id pattern allows

NumberKinds == {"int", "float"}
TextTypes == {"string", "multiline"}
MediaTypes == {"image", "video"}
NumericTypes == {"integer", "float"}

IsValue(x) == x = [kind |-> x.kind, v |-> x.v]
IsNumber(x) == x.kind \in NumberKinds
IsText(x) == x.kind = "text"
IsBlank(text) == Filled(text) = {}

(* Equality as Python has it: a number equals a number of the other kind   *)
Equal(x, y) ==
  /\ x.kind = y.kind \/ {x.kind, y.kind} \subseteq NumberKinds \cup {"bool"}
  /\ x.v = y.v

(* Keys that belong to some types of field only                            *)
TypeExtras(type) ==
  CASE type \in TextTypes -> {"translatable"}
    [] type = "integer"   -> {"min", "max", "step", "role", "pair", "duration"}
    [] type = "float"     -> {"min", "max", "step"}
    [] type = "select"    -> {"options"}
    [] OTHER              -> {}

KeysOf(field) ==
  field.hints \cup {key \in {"min", "max", "step", "options"} : field[key] # None}
              \cup (IF field.translatable THEN {"translatable"} ELSE {})

KeysFit(field) ==
  /\ KeysOf(field) \subseteq TypeExtras(field.type)
  /\ field.type \in MediaTypes => field.default = None

OptionsFit(field) ==
  field.type = "select" =>
    /\ field.options # None
    /\ field.options # << >>
    /\ \A i \in DOMAIN field.options :
         LET option == field.options[i] IN
           /\ option.kind \in NumberKinds \cup {"text"}
           /\ IsText(option) => option.v # << >>
           /\ \A j \in 1..(i - 1) : ~Equal(option, field.options[j])

BoundsFit(field) ==
  field.type \in NumericTypes =>
    /\ \A key \in {"min", "max", "step"} :
         field[key] # None =>
           /\ IsNumber(field[key])
           /\ field.type = "integer" => field[key].kind = "int"
    /\ field.step # None => field.step.v > 0
    /\ field.min # None /\ field.max # None => field.min.v <= field.max.v

WithinBounds(field, x) ==
  /\ field.min # None => field.min.v <= x.v
  /\ field.max # None => x.v <= field.max.v

DefaultFits(field) ==
  LET x == field.default IN
    x # None =>
      /\ x.kind # "null"
      /\ field.required /\ IsText(x) => ~IsBlank(x.v)
      /\ CASE field.type \in TextTypes  -> IsText(x)
           [] field.type = "boolean"    -> x.kind = "bool"
           [] field.type = "select"     -> /\ x.kind \in NumberKinds \cup {"text"}
                                           /\ \E i \in DOMAIN field.options :
                                                Equal(x, field.options[i])
           [] field.type = "integer"    -> x.kind = "int" /\ WithinBounds(field, x)
           [] field.type = "float"      -> IsNumber(x) /\ WithinBounds(field, x)
           [] OTHER                     -> FALSE

(* A target is there and is not wired to another node's output             *)
Bindable(target, graph) ==
  target \in DOMAIN graph /\ graph[target].kind # "wire"

BindFits(field, graph) ==
  /\ field.bind # << >>
  /\ IsInjective(field.bind)
  /\ \A i \in DOMAIN field.bind : Bindable(field.bind[i], graph)

(* "bad" names the keys whose value has no meaning: a label, a section, a  *)
(* help text, a hint, a flag, a type that is not one                       *)
FieldFits(field, graph) ==
  /\ field.bad = {}
  /\ KeysFit(field)
  /\ OptionsFit(field)
  /\ BoundsFit(field)
  /\ DefaultFits(field)
  /\ BindFits(field, graph)

Targets(field) == ToSet(field.bind)

FieldsFit(doc) ==
  \A i \in DOMAIN doc.fields :
    LET field == doc.fields[i] IN
      /\ FieldFits(field, doc.graph)
      /\ \A j \in 1..(i - 1) :
           LET earlier == doc.fields[j] IN
             field.id # earlier.id /\ Targets(field) \cap Targets(earlier) = {}

(* A file that cannot be read as a definition at all is None               *)
Loads(doc) ==
  /\ doc # None
  /\ doc.bad = {}
  /\ doc.id \in WellFormedIds
  /\ doc.graph # None
  /\ FieldsFit(doc)

(* The id a file claims, whether or not it loads                           *)
Claims(doc, id) == doc # None /\ doc.id = id

-----------------------------------------------------------------------------
(* What a submission may carry                                             *)
FieldOf(doc, id) == CHOOSE f \in ToSet(doc.fields) : f.id = id
FieldIds(doc) == {f.id : f \in ToSet(doc.fields)}

AcceptsText(field, x) == IsText(x) /\ (field.required => ~IsBlank(x.v))

AcceptsNumber(field, x) ==
  /\ IsNumber(x)
  /\ field.type = "integer" => x.v % 2 = 0
  /\ WithinBounds(field, x)

AcceptsSelect(field, x) == x \in ToSet(field.options)

Accepts(field, x) ==
  CASE field.type \in TextTypes    -> AcceptsText(field, x)
    [] field.type \in NumericTypes -> AcceptsNumber(field, x)
    [] field.type = "boolean"      -> x.kind = "bool"
    [] field.type = "select"       -> AcceptsSelect(field, x)
    [] field.type \in MediaTypes   -> x.kind = "media"

(* The value as validation hands it on                                     *)
Checked(field, x) ==
  CASE field.type = "integer" -> [x EXCEPT !.kind = "int"]
    [] field.type = "float"   -> [x EXCEPT !.kind = "float"]
    [] OTHER                  -> x

NothingUnknown(doc, inputs) == DOMAIN inputs \subseteq FieldIds(doc)

NothingMissing(doc, inputs) ==
  \A field \in ToSet(doc.fields) : field.required => field.id \in DOMAIN inputs

InputsAccepted(doc, inputs) ==
  /\ NothingUnknown(doc, inputs)
  /\ NothingMissing(doc, inputs)
  /\ \A id \in DOMAIN inputs : Accepts(FieldOf(doc, id), inputs[id])

Validated(doc, inputs) == [id \in DOMAIN inputs |-> Checked(FieldOf(doc, id), inputs[id])]

(* Only the translatable fields of a workflow that leaves translation on   *)
Translates(doc, wanted) == wanted /\ doc.mode = "auto"

Translated(doc, values) ==
  [id \in DOMAIN values |->
    IF FieldOf(doc, id).translatable
    THEN [values[id] EXCEPT !.v = Effective(values[id].v)]
    ELSE values[id]]

(* The media fields that were given, by their place among the fields       *)
MediaFields(doc, values) ==
  {i \in DOMAIN doc.fields : /\ doc.fields[i].type \in MediaTypes
                            /\ doc.fields[i].id \in DOMAIN values}

(* The name ComfyUI gave a file stands for the reference                   *)
Resolved(x) == IF x.kind = "media" THEN [x EXCEPT !.kind = "file"] ELSE x

(* The values written into a copy of a graph, field after field: what the  *)
(* last field that names an input writes stays                             *)
BindValues(doc, graph, values) ==
  LET Writers(target) == {i \in DOMAIN doc.fields : /\ doc.fields[i].id \in DOMAIN values
                                                   /\ target \in Targets(doc.fields[i])}
      LastOf(places) == CHOOSE i \in places : \A j \in places : j <= i
  IN  [target \in DOMAIN graph |->
         IF Writers(target) = {} THEN graph[target]
         ELSE Resolved(values[doc.fields[LastOf(Writers(target))].id])]

=============================================================================
