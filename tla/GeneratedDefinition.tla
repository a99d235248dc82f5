------------------------- MODULE GeneratedDefinition -------------------------
(***************************************************************************)
(* The definition written from a plan, and the loader that has to take it. *)
(***************************************************************************)
EXTENDS WorkflowImport

Form == INSTANCE FormFields
          WITH Sources <- << >>, Preserve <- TRUE, WellFormedIds <- {"generated"}

(* The empty text is a blank one                                           *)
ASSUME BlankAssumption == << >> \in DOMAIN Looks /\ "blank" \in Looks[<< >>]

(* A text, as the loader's model spells it: a word, and what tells it from *)
(* the others                                                              *)
Spelt(x) ==
  IF x # None /\ x.kind = "text" /\ x.v # << >> THEN [x EXCEPT !.v = <<"english", x.v>>] ELSE x

GraphInputs(g) ==
  [t \in UNION {[node : {n}, input : DOMAIN Inputs(g, n)] : n \in DOMAIN g} |->
     Spelt(Inputs(g, t.node)[t.input])]

FieldDocument(f) ==
  [id |-> f.id, type |-> f.type, required |-> f.required, default |-> Spelt(f.default),
   options |-> IF f.options = << >> THEN None
               ELSE [i \in DOMAIN f.options |-> Spelt(f.options[i])],
   min |-> f.min, max |-> f.max, step |-> f.step, translatable |-> f.translatable,
   hints |-> (IF f.seed THEN {"role"} ELSE {}) \cup (IF f.pair THEN {"pair"} ELSE {})
             \cup (IF f.duration # None THEN {"duration"} ELSE {}),
   bind |-> SetToSeq(f.targets), bad |-> {}]

DefinitionDocument ==
  [id |-> "generated", mode |-> "auto", bad |-> {}, graph |-> GraphInputs(graph),
   fields |-> SetToSeq({FieldDocument(f) : f \in Fields})]

(* A whole number the runtime declares, saved as a float by itself: its    *)
(* default is the float, which an integer field refuses                    *)
SavedAsAFloat(f) ==
  f.type = "integer" /\ \A c \in Members(f) : c.value.kind = "float"

(* A plan nothing speaks against makes a definition the loader takes: its  *)
(* types, options, defaults, bounds, hints and bindings fit one another,   *)
(* whatever was joined, declared or left out on the way                    *)
(* (validate_definition).                                                  *)
PlansLoad ==
  Done /\ ~plan.review /\ ~(\E f \in Fields : SavedAsAFloat(f)) =>
    Form!Loads(DefinitionDocument)

=============================================================================
