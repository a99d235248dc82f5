--------------------------- MODULE InputSemantics ---------------------------
(***************************************************************************)
(* What an input of a graph is, judged from its name and its value alone:  *)
(* a setting to offer, a thing to lock, or something nobody can tell.      *)
(*                                                                         *)
(* A name is the sequence of its words, "." being the separator of a path. *)
(* A value is [kind, v]; numbers are counted in halves, so that a whole    *)
(* float, a fraction and an integer differ and still compare.  What the    *)
(* code finds in a text by its pattern (a suffix, a path's beginning) is   *)
(* the set of looks that Looks gives the text.                             *)
(***************************************************************************)
EXTENDS Integers, FiniteSets, Sequences, SequencesExt

CONSTANTS None,    \* an absent value, key or answer
          Looks    \* for each text, the patterns it matches

LookKinds == {"rooted", "separator", "file name", "weights", "image file",
              "video file", "address", "blank", "number"}

ASSUME LooksAssumption == \A text \in DOMAIN Looks : Looks[text] \subseteq LookKinds

LockedStringWords ==
  {"path", "paths", "dir", "dirs", "directory", "folder", "filename", "file", "filepath",
   "output", "save", "url", "endpoint", "checkpoint", "ckpt", "vae", "unet", "encoder",
   "tokenizer", "weights", "lora", "embedding", "embeddings"}
LockedAnyWords ==
  {"device", "provider", "backend", "cache", "debug", "verbose", "log", "logs", "host",
   "port", "token", "apikey", "bypass", "mute"}
ArchitecturePairWords == {"type", "version", "arch", "architecture", "family", "base"}
ArchitectureInputNames == {<<"arch">>, <<"architecture">>}
BookkeepingInputNames == {<<"upload">>, <<"control", "after", "generate">>}
PromptWords == {"text", "prompt", "positive", "negative", "instruction", "instructions",
                "caption", "description"}
SafeStringWords == {"sampler", "scheduler", "mode", "method", "interpolation", "crop",
                    "align", "direction"}
MediaWords == {"image", "images", "video", "videos", "picture"}
VideoWords == {"video", "videos"}
ImageWords == {"image", "images", "picture"}
MaskWords == {"mask", "matte", "alpha"}
FrameRateNames == {<<"fps">>, <<"frame", "rate">>, <<"framerate">>,
                   <<"frames", "per", "second">>}
FrameCountNames == {<<"length">>, <<"frames">>, <<"num", "frames">>, <<"frame", "count">>,
                    <<"video", "frames">>, <<"video", "length">>}
DimensionNames == {<<"width">>, <<"height">>}
SeedRole == <<"seed">>

Tokens(name) == SelectSeq(name, LAMBDA word : word # ".")
Words(name) == ToSet(Tokens(name))

(* The places of the separators, and what follows the last of them         *)
Dots(name) == {i \in DOMAIN name : name[i] = "."}
Leaf(name) ==
  LET last == CHOOSE i \in {0} \cup Dots(name) : \A j \in Dots(name) : j <= i
  IN  SubSeq(name, last + 1, Len(name))

(* The word for a control: its name, through the synonyms                  *)
SanitizeRole(name) ==
  IF Tokens(name) \in {<<"noise", "seed">>, <<"random", "seed">>, <<"rand", "seed">>}
  THEN SeedRole
  ELSE Tokens(name)

FieldTypeOf(value) ==
  CASE value.kind = "bool"  -> "boolean"
    [] value.kind = "int"   -> "integer"
    [] value.kind = "float" -> "float"
    [] value.kind = "text"  -> "string"
    [] OTHER                -> None

IsLiteral(value) == FieldTypeOf(value) # None

LooksOf(value) == IF value.kind = "text" THEN Looks[value.v] ELSE {}
LooksLikeAFileName(value) == "file name" \in LooksOf(value)
LooksLikeAPath(value) == \/ "rooted" \in LooksOf(value)
                         \/ {"separator", "file name"} \subseteq LooksOf(value)
LooksLikeAWebAddress(value) == "address" \in LooksOf(value)

NamesAModelArchitecture(name) ==
  LET words == ToSet(Leaf(name)) IN
    \/ "model" \in words /\ words \cap ArchitecturePairWords # {}
    \/ Leaf(name) \in ArchitectureInputNames

StructuralName(name) ==
  \/ Words(name) \cap (LockedStringWords \cup LockedAnyWords) # {}
  \/ NamesAModelArchitecture(name)

NameSaysMedia(name) == Words(name) \cap (MediaWords \cup MaskWords) # {}

CorroboratesMedia(value) == {"blank", "file name"} \cap LooksOf(value) # {}

(* A media kind takes the name and the value together                      *)
MediaKind(name, value) ==
  CASE Words(name) \cap VideoWords # {}      -> "video"
    [] Words(name) \cap VideoWords = {}
       /\ Words(name) \cap ImageWords # {}   -> "image"
    [] OTHER -> IF "video file" \in LooksOf(value) THEN "video" ELSE "image"

-----------------------------------------------------------------------------
Verdict(exposure) == [exposure |-> exposure, type |-> None, role |-> None,
                      prompt |-> FALSE, media |-> None, mask |-> FALSE, kind |-> None]

Uncertain == Verdict("uncertain")
Locked(kind) == [Verdict("locked") EXCEPT !.kind = kind]
Exposed(type, role) == [Verdict("expose") EXCEPT !.type = type, !.role = role]
ExposedMedia(name, kind) ==
  [Exposed(kind, SanitizeRole(name)) EXCEPT
     !.media = kind, !.mask = Words(name) \cap MaskWords # {}]
ExposedPrompt(name) == [Exposed("multiline", SanitizeRole(name)) EXCEPT !.prompt = TRUE]

(* None is none of the answers it stands beside                            *)
ASSUME NoneAssumption ==
  /\ None \notin {"boolean", "integer", "float", "string", "multiline", "select",
                  "image", "video"}
  /\ None \notin {Uncertain, Locked("node_shape")}

(* The first rule that applies settles an input                            *)
FirstOf(rules) ==
  rules[CHOOSE i \in DOMAIN rules : /\ rules[i].when
                                    /\ \A j \in 1..(i - 1) : ~rules[j].when].then

RulesFor(name, value) ==
  LET text == value.kind = "text"
      word == Words(name)
      role == SanitizeRole(name)
      media == text /\ ~StructuralName(name) /\ NameSaysMedia(name)
      Rule(when, then) == [when |-> when, then |-> then]
  IN <<
       Rule(FieldTypeOf(value) = None, Uncertain),
       Rule(media /\ CorroboratesMedia(value), ExposedMedia(name, MediaKind(name, value))),
       Rule(media, Uncertain),
       Rule("weights" \in LooksOf(value), Locked("weights_file")),
       Rule(LooksLikeAPath(value) /\ LooksLikeAWebAddress(value), Locked("url")),
       Rule(LooksLikeAPath(value), Locked("filesystem_path")),
       Rule(Tokens(name) \in BookkeepingInputNames, Locked("editor_bookkeeping")),
       Rule(word \cap LockedAnyWords # {}, Locked("machine_setting")),
       Rule(text /\ word \cap LockedStringWords # {}, Locked("file_reference")),
       Rule(LooksLikeAWebAddress(value), Locked("url")),
       Rule(NamesAModelArchitecture(name), Locked("model_architecture")),
       Rule(text /\ word \cap PromptWords # {}, ExposedPrompt(name)),
       Rule(~text /\ role = << >>, Uncertain),
       Rule(~text, Exposed(FieldTypeOf(value), role)),
       Rule(word \cap SafeStringWords # {} /\ role # << >>, Exposed("string", role)),
       Rule(TRUE, Uncertain) >>

Classify(name, value) == FirstOf(RulesFor(name, value))

=============================================================================
