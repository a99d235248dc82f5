---------------------------- MODULE MCSubmission ----------------------------
EXTENDS Submission

CONSTANTS portrait, clip, picture, movie, plain, animated

Whole(n) == [kind |-> "int", v |-> 2 * n]
Halves(halves) == [kind |-> "float", v |-> halves]
Text(chars) == [kind |-> "text", v |-> chars]
Ref(m) == [kind |-> "media", v |-> m]

Said == [kind |-> "text", v |-> <<"english">>]
Wire == [kind |-> "wire", v |-> None]

Field(id, type, bind) ==
  [id |-> id, type |-> type, required |-> FALSE, hints |-> {}, min |-> None,
   max |-> None, step |-> None, options |-> None, default |-> None,
   translatable |-> FALSE, bad |-> {}, bind |-> bind]

Prompt == [Field("prompt", "multiline", <<"positive", "second">>)
             EXCEPT !.required = TRUE, !.translatable = TRUE]
Steps == [Field("steps", "integer", <<"steps">>)
            EXCEPT !.min = Whole(1), !.max = Whole(3), !.default = Whole(2)]
Choice == [Field("choice", "select", <<"choice">>)
             EXCEPT !.options = <<Whole(1), Said>>, !.default = Whole(1)]
Image == [Field("image", "image", <<"image">>) EXCEPT !.required = TRUE]
Video == Field("video", "video", <<"video">>)

Graph == [target \in {"positive", "second", "steps", "choice", "image", "video", "model"} |->
            CASE target \in {"positive", "second"} -> Said
              [] target = "model" -> Wire
              [] OTHER -> Whole(1)]

Definition(id, fields) ==
  [id |-> id, bad |-> {}, graph |-> Graph, mode |-> "auto", fields |-> fields]

First == Definition(portrait, <<Prompt, Steps>>)
Second == Definition(clip, <<Image, Video, Choice>>)

MCFiles == (plain :> First) @@ (animated :> Second)

(* The first with a field moved to a float, and with it driving a          *)
(* connection; the second broken under the first's id, mended under it,    *)
(* and no definition at all                                                *)
Clashing == [Second EXCEPT !.id = portrait]

MCDocuments ==
  (plain :> {First,
             [First EXCEPT !.fields[2].type = "float", !.mode = "off"],
             [First EXCEPT !.fields[2].bind = <<"steps", "model">>]})
  @@ (animated :> {None, Second, Clashing, [Clashing EXCEPT !.fields[3].bind = <<"image">>]})

(* A literal with a quote in it, white space, blanks; numbers that are     *)
(* whole, out of range and not whole; an option by its value and by an     *)
(* equal number; media of the kind asked for and of the other              *)
Quoted == [prompt |-> Text(<<"ru", "quote", "ru">>)]

MCInputs ==
  {Quoted,
   [prompt |-> Text(<<"ru", "quote", "escape", "quote", "ru", "quote", "ru">>),
    steps |-> Halves(6)],
   [prompt |-> Text(<<"space", "ru">>), steps |-> Halves(3)],
   [prompt |-> Text(<<"space">>)],
   [prompt |-> Said, steps |-> Whole(4)],
   [image |-> Ref(picture), video |-> Ref(movie), choice |-> Whole(1)],
   [image |-> Ref(picture), choice |-> Halves(2)],
   [image |-> Ref(picture), video |-> Ref(picture)]}

MCLeftAlone == {Quoted}
MCMediaKind == (picture :> "image") @@ (movie :> "video")
ClientSymmetry == Permutations(Clients)
MCSources == <<"ru">>
=============================================================================
