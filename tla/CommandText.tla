----------------------------- MODULE CommandText -----------------------------
(***************************************************************************)
(* The text of a custom command: parseCommandArguments and                 *)
(* renderCommandTemplate of service/internal/app/commands.go, as           *)
(* executeCommand uses them.                                               *)
(*                                                                         *)
(* A template is a sequence of pieces: literal text and placeholders.  The *)
(* code replaces one spelling after the other in the whole text, the text  *)
(* of earlier arguments included: first $ARGUMENTS and $1, $2, ..., then   *)
(* ${name} and $name for the names in the random order of a Go map, at     *)
(* last {{name|fallback}}.  The spelling $file is also the beginning of    *)
(* $file_name.  An argument is a word without blanks (strings.Fields); its *)
(* text may hold a placeholder.  Left out: placeholders that come into     *)
(* being where two texts meet, and $10, which is $1 followed by a zero.    *)
(***************************************************************************)
EXTENDS Naturals, Sequences, FiniteSets

CONSTANTS
  Names,        \* names of arguments
  Snippets,     \* pieces of text
  Rest,         \* Rest[m]: the set of <<n, t>> where name m is n followed by t
  Templates,    \* templates
  Declarations, \* sequences of declared arguments; <<>>: inferred
  Arguments     \* what a user may give, a set of sequences

VARIABLES
  template,   \* the template of the command
  order,      \* the definitions of its arguments
  given,      \* the arguments of the command
  parsed,     \* how many of them are parsed
  positional, \* parsed.Positional
  named,      \* parsed.Named
  rendered,   \* the text so far
  todo,       \* names still to be replaced
  textPc      \* "parsing", "naming", "rendered" or "missing"

textVars == <<template, order, given, parsed, positional, named, rendered, todo, textPc>>

-----------------------------------------------------------------------------
(* Pieces and arguments *)

Lit(x) == [p |-> "lit", x |-> x]
AllArgs == [p |-> "all", x |-> ""]
Pos(n) == [p |-> "pos", n |-> n]
Dollar(n) == [p |-> "dollar", x |-> n]
Brace(n) == [p |-> "brace", x |-> n]
Mustache(n, fallback) == [p |-> "mustache", x |-> n, fallback |-> fallback]

Word(t) == [form |-> "word", key |-> "", text |-> t]
Pair(k, t) == [form |-> "pair", key |-> k, text |-> t]        \* k=t
FlagPair(k, t) == [form |-> "flagpair", key |-> k, text |-> t] \* --k=t
Flag(k) == [form |-> "flag", key |-> k, text |-> <<>>]        \* --k

Dashed(a) == a.form \in {"flag", "flagpair"}

\* The whole word, as the value of a flag before it.
Whole(a) == IF a.form = "pair" THEN <<Lit(a.key)>> \o a.text ELSE a.text

Definition(n, required, default) == [name |-> n, required |-> required, default |-> default]

Naming(p) == p.p \in {"dollar", "brace", "mustache"}
FallbackOf(p) == IF p.p = "mustache" THEN p.fallback ELSE <<>>

ASSUME TextAssumption ==
  /\ {Lit(x) : x \in Names \cup {"true"}} \subseteq Snippets
  /\ \A m \in Names : \A r \in Rest[m] : Lit(r[2]) \in Snippets
  /\ \A p \in Snippets :
       /\ Naming(p) => p.x \in Names /\ FallbackOf(p) \in Seq(Snippets)
       /\ p.p = "all" => p = AllArgs
       /\ p.p = "pos" => p.n \in Nat \ {0} /\ p = Pos(p.n)
       /\ p.p = "dollar" => p = Dollar(p.x)
       /\ p.p = "brace" => p = Brace(p.x)
  /\ Templates \subseteq Seq(Snippets)
  /\ Declarations \subseteq Seq([name : Names, required : BOOLEAN, default : Seq(Snippets)])
  /\ Arguments \subseteq Seq([form : {"word"}, key : {""}, text : Seq(Snippets)] \cup
       [form : {"pair", "flagpair", "flag"}, key : Names, text : Seq(Snippets)])

\* inferTemplateArguments: the names in the order of their first appearance,
\* required unless there is a fallback.
Inferred(t) ==
  LET args[n \in 0..Len(t)] ==
        IF n = 0 THEN <<>>
        ELSE IF Naming(t[n]) /\ \A i \in DOMAIN args[n - 1] : args[n - 1][i].name # t[n].x
        THEN Append(args[n - 1], Definition(t[n].x, FallbackOf(t[n]) = <<>>, FallbackOf(t[n])))
        ELSE args[n - 1]
  IN args
InferArguments(t) == Inferred(t)[Len(t)]

TextInit ==
  \E t \in Templates, d \in Declarations, a \in Arguments :
    /\ template = t /\ rendered = t
    /\ order = (IF d = <<>> THEN InferArguments(t) ELSE d)
    /\ given = a /\ parsed = 0
    /\ positional = <<>>
    /\ named = [n \in Names |-> <<>>]
    /\ todo = {}
    /\ textPc = "parsing"

-----------------------------------------------------------------------------
(* parseCommandArguments *)

\* Mutated form of TakesNext: a flag takes whatever follows.
TakesAnyNext(i) == given[i].form = "flag" /\ i < Len(given)

\* A flag takes the word that follows as its value, unless that is a flag.
TakesNext(i) == given[i].form = "flag" /\ i < Len(given) /\ ~Dashed(given[i + 1])

True == <<Lit("true")>>

ParseArgument ==
  /\ textPc = "parsing" /\ parsed < Len(given)
  /\ LET i == parsed + 1
         a == given[i]
         value == CASE TakesNext(i) -> Whole(given[i + 1])
                    [] a.form = "flag" /\ ~TakesNext(i) -> True
                    [] OTHER -> a.text
     IN /\ parsed' = IF TakesNext(i) THEN i + 1 ELSE i
        /\ IF a.form = "word"
           THEN positional' = Append(positional, a.text) /\ UNCHANGED named
           ELSE named' = [named EXCEPT ![a.key] = value] /\ UNCHANGED positional
  /\ UNCHANGED <<template, order, given, rendered, todo, textPc>>

-----------------------------------------------------------------------------
(* renderCommandTemplate *)

\* Texts one after the other.
Joins(texts) ==
  LET joined[n \in 0..Len(texts)] == IF n = 0 THEN <<>> ELSE joined[n - 1] \o texts[n]
  IN joined
Flat(texts) == Joins(texts)[Len(texts)]

\* strings.ReplaceAll: By(p) is what piece p becomes.
Replacing(text, By(_)) == Flat([i \in DOMAIN text |-> By(text[i])])

\* The value of the i-th definition: by its name, else by its place, else the
\* default.
Value(i) ==
  LET d == order[i]
  IN CASE named[d.name] # <<>> -> named[d.name]
       [] named[d.name] = <<>> /\ i <= Len(positional) -> positional[i]
       [] OTHER -> d.default

\* values[n]: of the definitions of one name the last counts.
Defined(n) == {i \in DOMAIN order : order[i].name = n}
Values(n) == Value(CHOOSE i \in Defined(n) : \A j \in Defined(n) : j <= i)

Missing == {order[i].name : i \in {j \in DOMAIN order :
              order[j].required /\ Values(order[j].name) = <<>>}}

\* $ARGUMENTS, and then the words by their numbers, one after the other.
WithArguments(text) ==
  Replacing(text, LAMBDA p : IF p.p = "all" THEN Flat(positional) ELSE <<p>>)

WithPosition(text, n) ==
  Replacing(text, LAMBDA p : IF p = Pos(n) THEN positional[n] ELSE <<p>>)

WithPositions(text) ==
  LET replaced[n \in 0..Len(positional)] ==
        IF n = 0 THEN WithArguments(text) ELSE WithPosition(replaced[n - 1], n)
  IN replaced

ReplacePositional ==
  /\ textPc = "parsing" /\ parsed = Len(given)
  /\ IF Missing # {}
     THEN textPc' = "missing" /\ UNCHANGED <<rendered, todo>>
     ELSE /\ textPc' = "naming"
          /\ rendered' = WithPositions(rendered)[Len(positional)]
          /\ todo' = {order[i].name : i \in DOMAIN order}
  /\ UNCHANGED <<template, order, given, parsed, positional, named>>

\* Mutated form of WithName: the spelling $name is left alone.
WithBraces(text, n) ==
  Replacing(text, LAMBDA p : IF p = Brace(n) THEN Values(n) ELSE <<p>>)

\* $n, also where it begins a longer name.
ByDollar(p, n) ==
  CASE p = Dollar(n) -> Values(n)
    [] p.p = "dollar" /\ p.x # n /\ (\E r \in Rest[p.x] : r[1] = n) ->
         LET r == CHOOSE s \in Rest[p.x] : s[1] = n IN Values(n) \o <<Lit(r[2])>>
    [] OTHER -> <<p>>

\* ${n}, and then $n.
WithName(text, n) ==
  Replacing(Replacing(text, LAMBDA p : IF p = Brace(n) THEN Values(n) ELSE <<p>>),
             LAMBDA p : ByDollar(p, n))

ReplaceName ==
  /\ textPc = "naming"
  /\ \E n \in todo :
       /\ todo' = todo \ {n}
       /\ rendered' = WithName(rendered, n)
  /\ UNCHANGED <<template, order, given, parsed, positional, named, textPc>>

\* {{n|fallback}}, whose n may have no definition; at last executeCommand puts
\* the words in the place of an empty text.
ByMustache(p) ==
  IF p.p # "mustache" THEN <<p>>
  ELSE IF Defined(p.x) # {} /\ Values(p.x) # <<>> THEN Values(p.x) ELSE p.fallback

OrWords(text) == IF text = <<>> THEN Flat(positional) ELSE text

ReplaceMustaches ==
  /\ textPc = "naming" /\ todo = {}
  /\ rendered' = OrWords(Replacing(rendered, ByMustache))
  /\ textPc' = "rendered"
  /\ UNCHANGED <<template, order, given, parsed, positional, named, todo>>

TextNext == ParseArgument \/ ReplacePositional \/ ReplaceName \/ ReplaceMustaches

TextSpec == TextInit /\ [][TextNext]_textVars

-----------------------------------------------------------------------------
(* Properties *)

\* The arguments are understood as "Supported invocation styles" describes them
\* (README.md:149): a name has the value given last, after "=" or as the word
\* that follows the flag, and all other words keep their order.
Taken(i) == i > 1 /\ given[i - 1].form = "flag" /\ ~Dashed(given[i])
FreeWords == {i \in DOMAIN given : given[i].form = "word" /\ ~Taken(i)}
Namings(n) == {i \in DOMAIN given : given[i].form # "word" /\ given[i].key = n /\ ~Taken(i)}
GivenAt(i) ==
  CASE given[i].form # "flag" -> given[i].text
    [] given[i].form = "flag" /\ i < Len(given) /\ Taken(i + 1) -> Whole(given[i + 1])
    [] OTHER -> True

ParsedAsGiven ==
  textPc # "parsing" =>
    /\ Len(positional) = Cardinality(FreeWords)
    /\ \A i \in FreeWords : positional[Cardinality({j \in FreeWords : j <= i})] = given[i].text
    /\ \A n \in Names :
         /\ Namings(n) = {} => named[n] = <<>>
         /\ \A i \in Namings(n) : (\A j \in Namings(n) : j <= i) => named[n] = GivenAt(i)

\* The template read at once, each placeholder on its own.
Read(p) ==
  CASE p.p = "all" -> Flat(positional)
    [] p.p = "pos" /\ p.n <= Len(positional) -> positional[p.n]
    [] p.p \in {"dollar", "brace"} /\ Defined(p.x) # {} -> Values(p.x)
    [] p.p = "mustache" -> ByMustache(p)
    [] OTHER -> <<p>>

\* The text of a command is its template read at once, in whatever order the
\* names came out of the map: provided that no argument holds a placeholder and
\* no name begins another one that the template writes with a dollar sign.
Plain(text) == \A i \in DOMAIN text : text[i].p = "lit"

PlainArguments ==
  /\ \A i \in DOMAIN positional : Plain(positional[i])
  /\ \A i \in DOMAIN order : Plain(Value(i))

NamesApart ==
  \A i \in DOMAIN template : template[i].p = "dollar" =>
    \A r \in Rest[template[i].x] : Defined(r[1]) = {}

RenderedAsRead ==
  textPc = "rendered" /\ PlainArguments /\ NamesApart
    => rendered = OrWords(Replacing(template, Read))

\* Together: the model is asked what the template and the arguments say.
CommandRead == ParsedAsGiven /\ RenderedAsRead
=============================================================================
