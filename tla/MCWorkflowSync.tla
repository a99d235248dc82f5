--------------------------- MODULE MCWorkflowSync ---------------------------
(* Two paths; a workflow, a reformatted copy of it, and a canvas that only a   *)
(* running ComfyUI can turn into a graph.                                      *)
EXTENDS WorkflowSync, TLC

CONSTANTS a, copy, b, canvas

MCStem == [f \in Files |-> IF f = 1 THEN "p" ELSE "q"]
MCSpelling == "p" :> <<"p", "p2", "p3", "p4">> @@ "q" :> <<"q", "q2", "q3", "q4">>
MCIds == {"p", "p2", "p3", "p4", "q", "q2", "q3", "q4"}
MCRank == "p" :> 1 @@ "p2" :> 2 @@ "p3" :> 3 @@ "p4" :> 4
          @@ "q" :> 5 @@ "q2" :> 6 @@ "q3" :> 7 @@ "q4" :> 8
MCFormat == a :> "api" @@ b :> "api" @@ copy :> "api" @@ canvas :> "ui"
MCMeaning == a :> a @@ b :> b @@ copy :> a @@ canvas :> canvas
MCClear == {<<c, contract>> \in Contents \X BOOLEAN : MCFormat[c] = "api" \/ contract}
\* The workflow and its copy have a field that the canvas and b do not have.
MCFieldsOf ==
    [p \in Contents \X BOOLEAN |-> IF p[1] \in {a, copy} THEN {"prompt", "seed"} ELSE {"prompt"}]
=============================================================================
