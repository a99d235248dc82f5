-------------------------- MODULE PromptTranslation --------------------------
(***************************************************************************)
(* What the translation stage does to one prompt: the scanner that keeps   *)
(* quoted literals from the translator, the choice of a source language,   *)
(* and the reassembly.  A text is a sequence of kinds of character; the    *)
(* script of a language is a character of its own, and "made" stands for   *)
(* whatever the translator wrote.                                          *)
(***************************************************************************)
EXTENDS Integers, Sequences, SequencesExt

CONSTANTS Sources,    \* the configured source languages, in the order tried
          Preserve    \* preserve_quoted_literals

NoSource == "none"
Common == {"quote", "escape", "space", "english", "made"}
Characters == Common \cup ToSet(Sources)

ASSUME SourcesAssumption == /\ Sources \in Seq(ToSet(Sources))
                            /\ IsInjective(Sources)
                            /\ ToSet(Sources) \cap (Common \cup {NoSource}) = {}
                            /\ Preserve \in BOOLEAN

(* A mistake to catch: the first quote ends a literal, escaped or not      *)
LiteralEndAtAQuote(text, start) ==
  LET closing == {i \in (start + 1)..Len(text) : text[i] = "quote"}
  IN  IF closing = {} THEN Len(text) + 1
      ELSE 1 + CHOOSE i \in closing : \A j \in closing : i <= j

(* The place after the literal opened at start; the end of the text when   *)
(* nothing closes it.  A backslash takes the next character with it.       *)
LiteralEnd(text, start) ==
  LET n == Len(text)
      from[i \in (start + 1)..(n + 1)] ==
        IF i > n THEN n + 1
        ELSE CASE i < n /\ text[i] = "escape" -> from[i + 2]
               [] text[i] = "quote"           -> i + 1
               [] OTHER                       -> from[i + 1]
  IN  from[start + 1]

PlainEnd(text, start) ==
  CHOOSE e \in (start + 1)..(Len(text) + 1) :
    /\ \A i \in start..(e - 1) : text[i] # "quote"
    /\ e = Len(text) + 1 \/ text[e] = "quote"

(* Protected and translatable runs, whose texts put together are the input *)
SplitSpans(text) ==
  LET n == Len(text)
      Span(i, e, kept) == [text |-> SubSeq(text, i, e - 1), protected |-> kept]
      from[i \in 1..(n + 1)] ==
        IF i > n THEN << >>
        ELSE LET kept == text[i] = "quote"
                 e == IF kept THEN LiteralEnd(text, i) ELSE PlainEnd(text, i)
             IN  <<Span(i, e, kept)>> \o from[e]
  IN  IF Preserve \/ text = << >> THEN from[1] ELSE <<Span(1, n + 1, FALSE)>>

HasSourceScript(text, source) == source \in ToSet(text)

(* The white space around a text's core                                    *)
Filled(text) == {i \in 1..Len(text) : text[i] # "space"}
CoreStart(text) == CHOOSE i \in Filled(text) : \A j \in Filled(text) : i <= j
CoreEnd(text) == CHOOSE i \in Filled(text) : \A j \in Filled(text) : j <= i
Core(text) == IF Filled(text) = {} THEN << >>
              ELSE SubSeq(text, CoreStart(text), CoreEnd(text))

(* The first configured language whose script is outside the literals      *)
DetectSource(text) ==
  LET offered == {Core(s.text) : s \in {s \in ToSet(SplitSpans(text)) : ~s.protected}}
      found == {k \in DOMAIN Sources : \E c \in offered : HasSourceScript(c, Sources[k])}
  IN  IF found = {} THEN NoSource
      ELSE Sources[CHOOSE k \in found : \A j \in found : k <= j]

(* External: the model answers a core in words of its own                  *)
Answer(core) == <<"made">>

TranslatedSpan(span, source) ==
  IF span.protected \/ ~HasSourceScript(Core(span.text), source)
  THEN span.text
  ELSE SubSeq(span.text, 1, CoreStart(span.text) - 1)
         \o Answer(Core(span.text))
         \o SubSeq(span.text, CoreEnd(span.text) + 1, Len(span.text))

Joined(pieces) ==
  LET from[i \in 1..(Len(pieces) + 1)] ==
        IF i > Len(pieces) THEN << >> ELSE pieces[i] \o from[i + 1]
  IN  from[1]

(* The text that is bound in place of the one that was given               *)
Effective(text) ==
  LET source == DetectSource(text)
      spans == SplitSpans(text)
  IN  IF source = NoSource THEN text
      ELSE Joined([i \in DOMAIN spans |-> TranslatedSpan(spans[i], source)])

-----------------------------------------------------------------------------
(* The reference the scanner is held to: one character at a time, whether  *)
(* it stands inside a literal.  "closed" is the quote that ends one.  Kept *)
(* are the literals met so far, and the scripts met outside them.          *)
MarkAfter(mark, char) ==
  CASE mark \in {"outside", "closed"} -> IF char = "quote" THEN "inside" ELSE "outside"
    [] mark = "escaping"              -> "inside"
    [] mark = "inside"                -> CASE char = "quote"  -> "closed"
                                           [] char = "escape" -> "escaping"
                                           [] OTHER           -> "inside"

Read(met, char) ==
  LET mark == MarkAfter(met.mark, char) IN
  IF mark = "outside"
  THEN [mark |-> mark, literals |-> met.literals,
        scripts |-> met.scripts \cup ({char} \cap ToSet(Sources))]
  ELSE [mark |-> mark, literals |-> Append(met.literals, char), scripts |-> met.scripts]

Reading(text) ==
  LET after[i \in 0..Len(text)] ==
        IF i = 0 THEN [mark |-> "outside", literals |-> << >>, scripts |-> {}]
        ELSE Read(after[i - 1], text[i])
  IN  after[Len(text)]

Literals(text) == Reading(text).literals
ScriptsOutside(text) == Reading(text).scripts

(* What is promised of a text and the one bound in its place: the literals *)
(* are the same to the character; the language that was recognised is gone *)
(* from outside them; and a text with nothing to translate is the very     *)
(* text that was given.                                                    *)
KeepsItsWord(text, bound) ==
  /\ Literals(bound) = Literals(text)
  /\ ScriptsOutside(text) = {} => bound = text
  /\ ScriptsOutside(text) # {} =>
       \E source \in ScriptsOutside(text) :
         /\ source \notin ScriptsOutside(bound)
         /\ \A k \in DOMAIN Sources :
              Sources[k] \in ScriptsOutside(text) =>
                \E j \in 1..k : Sources[j] = source
=============================================================================
