----------------------------- MODULE Submission -----------------------------
(***************************************************************************)
(* From a definition file to a prompt: the registry a gateway loads when   *)
(* it starts, the forms it serves, and the submissions it validates,       *)
(* translates, binds and sends, several at a time, while the files are     *)
(* edited, media expires, ComfyUI goes and the gateway is restarted.       *)
(***************************************************************************)
EXTENDS FormFields

CONSTANTS Paths,           \* definition files
          Documents,       \* path -> what the file may say
          FirstFiles,      \* what each file says at first
          Clients,
          Inputs,          \* the values a client may send
          LeftAlone,       \* those sent with translation switched off
          MediaKind,       \* the media the store holds at first, and their kind
          Translation,     \* prompt translation is configured
          MaxEdits,        \* bound: edits of files
          MaxSubmissions   \* bound: submissions

ASSUME SubmissionAssumption ==
  /\ FirstFiles = [p \in Paths |-> FirstFiles[p]]
  /\ \A p \in Paths : FirstFiles[p] \in Documents[p]
  /\ Translation \in BOOLEAN
  /\ {MaxEdits, MaxSubmissions} \subseteq Nat

(* What a file says has the shape of a definition, though it may not load, *)
(* and names no file ComfyUI was handed; a submitted value has a kind      *)
Shaped(doc) ==
  /\ doc.fields \in Seq(ToSet(doc.fields))
  /\ \A f \in ToSet(doc.fields) :
       f.type \in TextTypes \cup NumericTypes \cup MediaTypes \cup {"boolean", "select"}
  /\ doc.graph # None =>
       \A target \in DOMAIN doc.graph : doc.graph[target].kind \notin {"media", "file"}

ASSUME DocumentsAssumption ==
  \A p \in Paths : \A d \in Documents[p] \ {None} : Shaped(d)

ASSUME InputsAssumption ==
  \A inputs \in Inputs : \A id \in DOMAIN inputs :
    IsValue(inputs[id]) /\ (IsText(inputs[id]) => inputs[id].v \in Seq(Characters))

VARIABLES files,      \* path -> what the file says
          gateway,    \* [up, files it loaded, served: id -> workflow]
          forms,      \* client -> [id, shown] of the form it fetched
          requests,   \* client -> its submission in progress
          sent,       \* the prompts ComfyUI was sent, with where they are from
          kept,       \* media the store still holds
          uploaded,   \* media ComfyUI has been handed
          comfy,      \* ComfyUI answers
          edits, submissions

submissionVars == <<files, gateway, forms, requests, sent, kept, uploaded, comfy, edits, submissions>>

Media == DOMAIN MediaKind
NoRequest == [stage |-> "none"]

(* The files that claim an id; only one that claims it alone and loads is  *)
(* served, with a graph of its own                                         *)
(* A mistake to catch: a file that does not load claims nothing            *)
ClaimantsThatLoad(fs, id) == {p \in Paths : Claims(fs[p], id) /\ Loads(fs[p])}

Claimants(fs, id) == {p \in Paths : Claims(fs[p], id)}
Alone(fs, p) == Claimants(fs, fs[p].id) = {p}

Registry(fs) ==
  LET good == {p \in Paths : Loads(fs[p]) /\ Alone(fs, p)}
      Source(id) == CHOOSE p \in good : fs[p].id = id
  IN  [id \in {fs[p].id : p \in good} |->
        [path |-> Source(id), doc |-> fs[Source(id)], graph |-> fs[Source(id)].graph]]

-----------------------------------------------------------------------------
(* The curator, the machine and the clock                                  *)

Edit(p) ==
  /\ edits < MaxEdits
  /\ \E d \in Documents[p] \ {files[p]} : files' = [files EXCEPT ![p] = d]
  /\ edits' = edits + 1
  /\ UNCHANGED <<gateway, forms, requests, sent, kept, uploaded, comfy, submissions>>

Start ==
  /\ ~gateway.up
  /\ gateway' = [up |-> TRUE, files |-> files, served |-> Registry(files)]
  /\ UNCHANGED <<files, forms, requests, sent, kept, uploaded, comfy, edits, submissions>>

Stop ==
  /\ gateway.up
  /\ gateway' = [gateway EXCEPT !.up = FALSE]
  /\ requests' = [c \in Clients |-> NoRequest]
  /\ UNCHANGED <<files, forms, sent, kept, uploaded, comfy, edits, submissions>>

Expire(m) ==
  /\ kept' = kept \ {m}
  /\ m \in kept
  /\ UNCHANGED <<files, gateway, forms, requests, sent, uploaded, comfy, edits, submissions>>

ComfyGoesOrComes ==
  /\ comfy' = ~comfy
  /\ UNCHANGED <<files, gateway, forms, requests, sent, kept, uploaded, edits, submissions>>

-----------------------------------------------------------------------------
(* A client fetches a form, and sends what it filled in: into the form it  *)
(* has, whatever the gateway has loaded since                              *)

GetWorkflow(c) ==
  /\ gateway.up
  /\ \E id \in DOMAIN gateway.served :
       forms' = [forms EXCEPT ![c] = [id |-> id, shown |-> FieldIds(gateway.served[id].doc)]]
  /\ UNCHANGED <<files, gateway, requests, sent, kept, uploaded, comfy, edits, submissions>>

Refuse(c) == requests' = [requests EXCEPT ![c] = NoRequest]

(* submit_job up to the translation stage: an unknown workflow and values  *)
(* the fields do not take are refused                                      *)
Submit(c) ==
  /\ gateway.up
  /\ requests[c] = NoRequest
  /\ forms[c] # None
  /\ submissions < MaxSubmissions
  /\ \E inputs \in Inputs :
       /\ DOMAIN inputs \subseteq forms[c].shown
       /\ IF /\ forms[c].id \in DOMAIN gateway.served
             /\ InputsAccepted(gateway.served[forms[c].id].doc, inputs)
          THEN requests' = [requests EXCEPT ![c] =
                 [stage |-> "validated", id |-> forms[c].id, asked |-> inputs,
                  wanted |-> inputs \notin LeftAlone,
                  values |-> Validated(gateway.served[forms[c].id].doc, inputs)]]
          ELSE Refuse(c)
  /\ submissions' = submissions + 1
  /\ UNCHANGED <<files, gateway, forms, sent, kept, uploaded, comfy, edits>>

Workflow(c) == gateway.served[requests[c].id]

Apply(c) ==
  /\ requests[c].stage = "validated"
  /\ LET r == requests[c]
         doc == Workflow(c).doc
     IN  requests' = [requests EXCEPT ![c].stage = "translated",
                                      ![c].values =
                        IF Translation /\ Translates(doc, r.wanted)
                        THEN Translated(doc, r.values) ELSE r.values]
  /\ UNCHANGED <<files, gateway, forms, sent, kept, uploaded, comfy, edits, submissions>>

(* The model for the language is not there or fails                        *)
ApplyFails(c) ==
  /\ requests[c].stage = "validated"
  /\ Translation /\ Translates(Workflow(c).doc, requests[c].wanted)
  /\ Translated(Workflow(c).doc, requests[c].values) # requests[c].values
  /\ Refuse(c)
  /\ UNCHANGED <<files, gateway, forms, sent, kept, uploaded, comfy, edits, submissions>>

(* The values go into a copy of the workflow's graph; the media they name  *)
(* are handed to ComfyUI one after the other, up to the first that cannot  *)
(* be: one that has expired, is of the other kind, or that ComfyUI does    *)
(* not have and cannot be given                                            *)
Resolves(field, x) ==
  /\ x.v \in kept
  /\ MediaKind[x.v] = field.type
  /\ comfy \/ x.v \in uploaded

MediaResolves(c, i) ==
  LET field == Workflow(c).doc.fields[i] IN Resolves(field, requests[c].values[field.id])

AskedMedia(c) == MediaFields(Workflow(c).doc, requests[c].values)

Resolvable(c) == \A i \in AskedMedia(c) : MediaResolves(c, i)

HandedOver(c) ==
  {requests[c].values[Workflow(c).doc.fields[i].id].v :
     i \in {i \in AskedMedia(c) : \A j \in AskedMedia(c) : j <= i => MediaResolves(c, j)}}

(* A mistake to catch: the values go into the registry's own graph         *)
BindInPlace(c) ==
  /\ requests[c].stage = "translated"
  /\ Resolvable(c)
  /\ LET w == Workflow(c)
         r == requests[c]
         graph == BindValues(w.doc, w.graph, r.values)
     IN  /\ requests' = [requests EXCEPT ![c] =
              [stage |-> "bound", id |-> r.id, asked |-> r.asked, wanted |-> r.wanted,
               doc |-> w.doc, graph |-> graph]]
         /\ gateway' = [gateway EXCEPT !.served[r.id].graph = graph]
  /\ uploaded' = uploaded \cup HandedOver(c)
  /\ UNCHANGED <<files, forms, sent, kept, comfy, edits, submissions>>

Bind(c) ==
  /\ requests[c].stage = "translated"
  /\ Resolvable(c)
  /\ LET w == Workflow(c)
         r == requests[c]
     IN  requests' = [requests EXCEPT ![c] =
           [stage |-> "bound", id |-> r.id, asked |-> r.asked, wanted |-> r.wanted,
            doc |-> w.doc, graph |-> BindValues(w.doc, w.graph, r.values)]]
  /\ uploaded' = uploaded \cup HandedOver(c)
  /\ UNCHANGED <<files, gateway, forms, sent, kept, comfy, edits, submissions>>

BindFails(c) ==
  /\ requests[c].stage = "translated"
  /\ ~Resolvable(c)
  /\ Refuse(c)
  /\ uploaded' = uploaded \cup HandedOver(c)
  /\ UNCHANGED <<files, gateway, forms, sent, kept, comfy, edits, submissions>>

(* ComfyUI may also turn the graph down                                    *)
Send(c) ==
  /\ requests[c].stage = "bound"
  /\ LET prompt == [doc |-> requests[c].doc, asked |-> requests[c].asked,
                    wanted |-> requests[c].wanted, graph |-> requests[c].graph]
     IN  sent' \in {sent} \cup (IF comfy THEN {sent \cup {prompt}} ELSE {})
  /\ Refuse(c)
  /\ UNCHANGED <<files, gateway, forms, kept, uploaded, comfy, edits, submissions>>

-----------------------------------------------------------------------------
SubmissionInit ==
  /\ files = FirstFiles
  /\ gateway = [up |-> FALSE, files |-> FirstFiles, served |-> Registry(FirstFiles)]
  /\ forms = [c \in Clients |-> None]
  /\ requests = [c \in Clients |-> NoRequest]
  /\ sent = {}
  /\ kept = Media
  /\ uploaded = {}
  /\ comfy = TRUE
  /\ edits = 0
  /\ submissions = 0

SubmissionNext ==
  \/ \E p \in Paths : Edit(p)
  \/ Start
  \/ Stop
  \/ \E m \in Media : Expire(m)
  \/ ComfyGoesOrComes
  \/ \E c \in Clients :
       \/ GetWorkflow(c)
       \/ Submit(c)
       \/ Apply(c)
       \/ ApplyFails(c)
       \/ Bind(c)
       \/ BindFails(c)
       \/ Send(c)

SubmissionSpec == SubmissionInit /\ [][SubmissionNext]_submissionVars

-----------------------------------------------------------------------------
(* Requests that were asked for, once more: no field unknown, none that is *)
(* required missing, and each value within what the form said of it        *)
Meets(field, x) ==
  CASE field.type \in TextTypes    -> field.required => ~IsBlank(x.v)
    [] field.type \in NumericTypes -> WithinBounds(field, x)
    [] field.type = "select"       -> \E i \in DOMAIN field.options : field.options[i] = x
    [] OTHER                       -> TRUE

BoundTo(doc, inputs, target) ==
  {id \in DOMAIN inputs : \E f \in ToSet(doc.fields) : f.id = id /\ target \in Targets(f)}

(* What a prompt's input should hold where no translation has a say        *)
IsWritten(value, x) ==
  CASE IsText(x)         -> IsText(value)
    [] x.kind = "media"  -> value.kind = "file" /\ value.v = x.v
    [] OTHER             -> Equal(value, x) /\ (value.kind = "bool" <=> x.kind = "bool")

FieldsAreMet(s) ==
  \A f \in ToSet(s.doc.fields) :
    /\ f.required => f.id \in DOMAIN s.asked
    /\ f.id \in DOMAIN s.asked => Meets(f, s.asked[f.id])

InputsAreWritten(s) ==
  /\ DOMAIN s.graph = DOMAIN s.doc.graph
  /\ \A target \in DOMAIN s.graph :
       LET by == BoundTo(s.doc, s.asked, target) IN
         IF by = {}
         THEN s.graph[target] = s.doc.graph[target]
         ELSE /\ s.doc.graph[target].kind # "wire"
              /\ \A id \in by : IsWritten(s.graph[target], s.asked[id])

MediaIsIn(s, there) ==
  \A target \in DOMAIN s.graph :
    s.graph[target].kind = "file" => s.graph[target].v \in there

(* SentIsWhatWasAsked: every prompt is the graph the curator wrote, with   *)
(* the values of that submission, and of no other, at the inputs its       *)
(* fields name: whatever was submitted beside it, edited since or restarted*)
(* in between.  Its required fields are there, its values are within what  *)
(* the form said, its media has been handed over, and nothing is written   *)
(* over a connection (validation.py, binding.py, model.py graph_copy).     *)
SentIsWhatWasAsked ==
  \A s \in sent : FieldsAreMet(s) /\ InputsAreWritten(s) /\ MediaIsIn(s, uploaded)

(* LiteralsSurvive: what a person put in quotes is in the prompt to the    *)
(* character, the language that was recognised is translated everywhere    *)
(* else, and a text that needs nothing, or whose translation was switched  *)
(* off, is sent as it was given (spans.py, service.py).                    *)
LiteralsSurvive ==
  \A s \in sent : \A f \in ToSet(s.doc.fields) :
    f.id \in DOMAIN s.asked /\ f.type \in TextTypes =>
      \A target \in Targets(f) :
        LET given == s.asked[f.id].v
            bound == s.graph[target].v
        IN  IF Translation /\ s.wanted /\ s.doc.mode = "auto" /\ f.translatable
            THEN Preserve => KeepsItsWord(given, bound)
            ELSE bound = given

(* FixingTakesNothingAway: a gateway that starts over files of which one   *)
(* alone was edited, and claims the id it claimed, serves every workflow   *)
(* of the other files that it served before (registry.py _resolve).        *)
Serves(served, p) == \E id \in DOMAIN served : served[id].path = p

FixingTakesNothingAway ==
  [][\A p \in Paths :
       (/\ \A q \in Paths \ {p} : gateway'.files[q] = gateway.files[q]
        /\ gateway.files[p] # None /\ Claims(gateway'.files[p], gateway.files[p].id))
       => \A q \in Paths \ {p} :
            Serves(gateway.served, q) => Serves(gateway'.served, q)]_gateway
=============================================================================
