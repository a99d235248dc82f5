--------------------------- MODULE MCWorkflowImport ---------------------------
(* Small graphs, one kind of difficulty each.                              *)
EXTENDS GeneratedDefinition

CONSTANTS cat, dog, plain, other, loose, weights, address

MCLooks == cat :> {"file name", "image file"} @@ dog :> {"file name", "image file"}
           @@ plain :> {} @@ other :> {} @@ << >> :> {"blank"}
           @@ loose :> {"separator", "file name"} @@ weights :> {"file name", "weights"}
           @@ address :> {"address"}

MCAlphabet == << <<"a">>, <<"b">>, <<"cfg">>, <<"fps">>, <<"height">>, <<"image">>,
  <<"images">>, <<"kind">>, <<"kind", ".", "amount">>, <<"latent">>, <<"length">>, <<"mask">>,
  <<"model">>, <<"negative">>, <<"noise", "seed">>, <<"pixels">>, <<"positive">>,
  <<"reference", "image">>, <<"sampler">>, <<"seed">>, <<"steps">>, <<"text">>, <<"value">>,
  <<"width">> >>

Int1(v) == [kind |-> "int", v |-> 2 * v]
Float1(v) == [kind |-> "float", v |-> 2 * v]
Infinite == [kind |-> "float", v |-> None]
HalfOver(v) == [kind |-> "float", v |-> 2 * v + 1]
Text(t) == [kind |-> "text", v |-> t]
Wire(n) == [kind |-> "wire", v |-> [node |-> n, slot |-> 0]]
Node(class, in) == [class |-> class, title |-> << >>, in |-> in]
Titled(node, title) == [node EXCEPT !.title = title]

Sampler == <<"k", "sampler">>
Save == <<"save", "image">>
Primitive == <<"primitive">>
Constant == <<"constant">>
LoadImage == <<"load", "image">>
Encode == <<"text", "encode">>
Texts == <<"text">>

Numbers == {Int1(1), Float1(1), Int1(2), HalfOver(1)}

(* Two stages: their seeds the same or not, one class or two, wired apart  *)
(* or not at all                                                           *)
Stages ==
  {(1 :> Node(Sampler, <<"seed">> :> x @@ <<"latent">> :> from))
    @@ (2 :> Node(class, <<"seed">> :> y @@ <<"latent">> :> Wire(4)))
    @@ (3 :> Node(Save, <<"images">> :> Wire(2)))
    @@ (4 :> Node(<<"empty">>, <<"width">> :> Int1(1) @@ <<"height">> :> Float1(1))) :
     x \in Numbers, y \in {Int1(1), Float1(1)}, from \in {Wire(2), Wire(4)},
     class \in {Sampler, Constant}}

(* Samplers of one seed or two, which nothing or only the class of what    *)
(* they are wired into tells apart                                         *)
Twins ==
  {[n \in 1..4 |-> Node(Sampler, <<"seed">> :> (IF n < 3 THEN Int1(1) ELSE x))] : x \in Numbers}
  \cup {[n \in 1..4 |->
           CASE n < 3 -> Titled(Node(Sampler, <<"seed">> :> Int1(n)), title)
             [] n = 3 -> Node(Save, <<"images">> :> Wire(1))
             [] n = 4 -> Node(Encode, <<"images">> :> Wire(2))] : title \in {<< >>, <<"steps">>}}

(* A chain whose middle links look the same two hops far                   *)
Chain ==
  {[n \in 1..6 |-> Node(IF n = 6 THEN Save ELSE Sampler,
      <<"model">> :> (IF n = 1 THEN Text(plain) ELSE Wire(n - 1))
      @@ (IF n \in {i, j} THEN <<"cfg">> :> Int1(n) ELSE <<"b">> :> Wire(9)))] :
     i \in {3}, j \in {4, 5}}

(* Numbers of their own nodes, wired into what they set                    *)
Switches ==
  {(1 :> Titled(Node(Primitive, <<"value">> :> x), title))
    @@ (2 :> Node(class, <<"value">> :> y))
    @@ (3 :> Node(Sampler, <<"cfg">> :> Wire(1) @@ second :> Wire(2) @@ <<"fps">> :> Int1(2)))
    @@ (4 :> Titled(Node(class, <<"value">> :> Int1(2) @@ <<"length">> :> Int1(2)), <<"steps">>)) :
     x \in Numbers, y \in {Int1(1), Int1(2), Float1(1)}, class \in {Primitive, Constant},
     second \in {<<"steps">>, <<"a">>}, title \in {<< >>, <<"steps">>}}

Pictures ==
  {(1 :> Node(LoadImage, <<"image">> :> Text(x)))
    @@ (2 :> Node(LoadImage, <<"image">> :> Text(y)))
    @@ (3 :> Node(<<"vae", "encode">>, <<"pixels">> :> Wire(1) @@ name :> Wire(2))) :
     x \in {cat, loose}, y \in {cat, dog, << >>, plain},
     name \in {<<"mask">>, <<"reference", "image">>, <<"images">>}}

Prompts ==
  {(1 :> Node(Encode, <<"text">> :> Text(x)))
    @@ (2 :> Node(Texts, <<"value">> :> Text(y)))
    @@ (3 :> Node(Encode, <<"text">> :> Wire(2)))
    @@ (4 :> Node(Sampler, <<"positive">> :> Wire(1) @@ <<"negative">> :> Wire(n))) :
     x \in {plain, << >>, address}, y \in {plain, other}, n \in {1, 3}}

(* What only the runtime can settle                                        *)
Settings ==
  {(1 :> Node(class, <<"kind">> :> x @@ more))
    @@ (2 :> Node(Sampler, <<"model">> :> Wire(1) @@ <<"sampler">> :> Text(plain))) :
     x \in {Text(plain), Text(other), Text(weights), Int1(1)},
     class \in {<<"shaped">>, <<"list">>, <<"load", "list">>, <<"files">>, <<"math">>,
                <<"patch">>, <<"said">>, <<"odd">>, <<"servers">>},
     more \in {<< >>, <<"kind", ".", "amount">> :> Int1(1), <<"noise", "seed">> :> Int1(1)}}

MCGraphs == Stages \cup Twins \cup Chain \cup Switches \cup Pictures \cup Prompts \cup Settings

-----------------------------------------------------------------------------
Spec1(type, config) == [type |-> type, list |-> None, config |-> config]
Number(type, min, max) == Spec1(type, ("min" :> min) @@ ("max" :> max) @@ ("step" :> Int1(1)))
ListOf(options) == [type |-> "list", list |-> options, config |-> << >>]
Entry(output, required) == [output |-> output,
                            input |-> [required |-> required, optional |-> None]]

Shapes == Spec1("COMFY_DYNAMICCOMBO_V3", "options" :>
  << [key |-> Text(plain), inputs |-> None],
     [key |-> Text(other), inputs |-> [required |-> <<"amount">> :> Number("FLOAT", Int1(0), Int1(2)),
                                       optional |-> None]] >>)

Declared(kind) ==
  (Sampler :> Entry({"LATENT"}, (<<"seed">> :> Number(kind, Int1(0), Int1(3)))
                                @@ (<<"cfg">> :> Number("FLOAT", Int1(0), Float1(9)))))
  @@ (Constant :> Entry({"INT"}, (<<"seed">> :> Number("INT", Int1(1), Infinite))
                                 @@ (<<"value">> :> Number("INT", Int1(2), Int1(9)))))
  @@ (Primitive :> Entry({"FLOAT"}, <<"value">> :> Number("FLOAT", Int1(0), HalfOver(1))))
  @@ (<<"shaped">> :> Entry({"MODEL"}, <<"kind">> :> Shapes))
  @@ (<<"list">> :> Entry({"MODEL"}, <<"kind">> :> ListOf(<<Text(plain), Int1(1), Text(plain)>>)))
  @@ (<<"load", "list">> :> Entry({"MODEL"}, <<"kind">> :> ListOf(<<Text(plain), Text(other)>>)))
  @@ (<<"files">> :> Entry({"MODEL"}, <<"kind">> :> ListOf(<<Text(plain), Text(dog)>>)))
  @@ (<<"odd">> :> Entry({"IMAGE"}, <<"kind">> :> ListOf(<<Text(plain), Int1(1), Float1(1)>>)))
  @@ (<<"servers">> :> Entry({"IMAGE"}, <<"kind">> :> ListOf(<<Text(plain), Text(address)>>)))
  @@ (<<"math">> :> Entry({"INT", "FLOAT"}, << >>))
  @@ (<<"patch">> :> Entry({"MODEL"}, << >>))
  @@ (<<"said">> :> Entry({"IMAGE"}, <<"kind">> :> Spec1("STRING", "default" :> Text(plain))))

MCContracts == {None, Declared("INT"), Declared("FLOAT")}

=============================================================================
