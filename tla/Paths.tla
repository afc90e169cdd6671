-------------------------------- MODULE Paths --------------------------------
(***************************************************************************)
(* path, path_builder and config_node_path: a path is the sequence of its  *)
(* keys, a key that of its characters; the node of a path has the tokens   *)
(* it is written with.  What builds a path through path_builder pushes the *)
(* keys in order and takes them off again from the last to the first.      *)
(***************************************************************************)
EXTENDS Stacks, Naturals, FiniteSets, SequencesExt

Letters   == {"a", "b", "c", "d", "e", "f", "i", "l", "n", "r", "s", "t", "u", "x"}
Digits    == {"0", "1", "2", "3", "4", "5", "6", "7", "8", "9"}
FunkyFree == Letters \cup Digits \cup {"-", "_"}

HasRemainder(p)   == Len(p) > 1
Remainder(p)      == IF p = <<>> THEN <<>> ELSE Tail(p)
Length(p)         == IF p = <<>> THEN 1 ELSE Len(p)
Prepend(p, front) == front \o p
Parent(p)         == IF HasRemainder(p) THEN Front(p) ELSE <<>>
LastKey(p)        == Last(p)
StartsWith(p, other) == Len(other) <= Len(p) /\ SubSeq(p, 1, Len(other)) = other

\* sub_path(remove_from_front) never removes the last key.
SubPath(p, n) == IF n < Len(p) THEN SubSeq(p, n + 1, Len(p)) ELSE <<Last(p)>>

\* sub_path(first, last) throws when it has taken every key there is.
InRange(p, first, last)   == first <= last /\ (first = last \/ last - first < Len(SubPath(p, first)))
SubPathTo(p, first, last) == SubSeq(SubPath(p, first), 1, last - first)

-----------------------------------------------------------------------------
(* Rendering                                                               *)

\* Control characters but these, and bytes above 127, are written as they are.
EscapeOf(c) == CASE c \in {"\"", "\\"} -> <<"\\", c>>
                 [] c = "\n" -> <<"\\", "n">>
                 [] c = "\t" -> <<"\\", "t">>
                 [] c = "\r" -> <<"\\", "r">>
                 [] OTHER    -> <<c>>
RenderJsonString(s) == <<"\"">> \o FlattenSeq([i \in DOMAIN s |-> EscapeOf(s[i])]) \o <<"\"">>

\* Mutant: the empty key is written as nothing.
OnlyFunky(key) == ToSet(key) \ FunkyFree # {}
IsQuoted(key)  == key = <<>> \/ ToSet(key) \ FunkyFree # {}

RenderKey(key) == IF IsQuoted(key) THEN RenderJsonString(key) ELSE key
Render(p) ==
  FlattenSeq([i \in DOMAIN p |-> (IF i = 1 THEN <<>> ELSE <<".">>) \o RenderKey(p[i])])

\* render_string_unquoted_if_possible: "include", "//" and what is read as true,
\* false or null are put in quotes.
QuotedWords == {<<"/", "/">>, <<"i", "n", "c", "l", "u", "d", "e">>, <<"t", "r", "u", "e">>,
                <<"f", "a", "l", "s", "e">>, <<"n", "u", "l", "l">>}
RenderUnquotedIfPossible(s) ==
  IF \/ s = <<>> \/ s[1] \in Digits \cup {"-"}
     \/ \E w \in QuotedWords : IsPrefix(w, s)
     \/ ToSet(s) \ (FunkyFree \ {"_"}) # {}
  THEN RenderJsonString(s) ELSE s

-----------------------------------------------------------------------------
(* Reading without the tokenizer                                           *)

Blank   == {" ", "\t", "\r", "\n"}
Trim(s) ==
  LET kept == {i \in DOMAIN s : s[i] \notin Blank}
  IN  IF kept = {} THEN <<>>
      ELSE SubSeq(s, CHOOSE i \in kept : \A j \in kept : i <= j, CHOOSE i \in kept : \A j \in kept : j <= i)

\* The pieces of s between periods.
SplitDots(s) ==
  FoldLeft(LAMBDA done, c : IF c = "." THEN Append(done, <<>>) ELSE [done EXCEPT ![Len(done)] = Append(@, c)],
           <<<<>>>>, s)

LooksUnsafeForFastParser(s) ==
  \/ s = <<>> \/ s[1] \in {".", "-"} \/ Last(s) = "."
  \/ ToSet(s) \ (Letters \cup {"_", "-", "."}) # {}
  \/ \E i \in 2 .. Len(s) : s[i - 1] = "." /\ s[i] \in {".", "-"}

\* The path, or the empty one.
SpeculativeFastParsePath(s) == IF LooksUnsafeForFastParser(Trim(s)) THEN <<>> ELSE SplitDots(Trim(s))

-----------------------------------------------------------------------------
(* Reading tokens                                                          *)

Element == [value |-> <<>>, can_be_empty |-> FALSE]

\* Mutant: quotes around nothing are nothing.
NeverEmpty(elements, was_quoted, txt) == FALSE
CanBeEmpty(elements, was_quoted, txt) == was_quoted /\ Last(elements).value \o txt = <<>>

AddPathText(elements, was_quoted, txt) ==
  LET pieces  == IF was_quoted THEN <<txt>> ELSE SplitDots(txt)
      current == [Last(elements) EXCEPT !.value = @ \o pieces[1],
                                        !.can_be_empty = @ \/ CanBeEmpty(elements, was_quoted, txt)]
  IN  Retopped(elements, current) \o [i \in 1 .. Len(pieces) - 1 |-> [Element EXCEPT !.value = pieces[i + 1]]]

HasEmptyElement(elements) ==
  \E i \in DOMAIN elements : elements[i].value = <<>> /\ ~elements[i].can_be_empty
KeysOf(elements) == [i \in DOMAIN elements |-> elements[i].value]

Period == [type |-> "UNQUOTED_TEXT", text |-> <<".">>]
Piece(s, json) ==
  IF json THEN [type |-> "VALUE", text |-> <<"\"">> \o s \o <<"\"">>] ELSE [type |-> "UNQUOTED_TEXT", text |-> s]

PeriodBehind(txt, pieces)   == IF Last(txt) = "." THEN <<Period>> ELSE <<>>

\* The periods at the end are taken off the text, and one is put behind it.
SplitTokenOnPeriod(txt, json) ==
  LET kept   == {i \in DOMAIN txt : txt[i] # "."}
      pieces == SplitDots(IF kept = {} THEN <<>> ELSE SubSeq(txt, 1, CHOOSE i \in kept : \A j \in kept : j <= i))
  IN  IF txt = <<".">> THEN <<Period>>
      ELSE FlattenSeq([i \in DOMAIN pieces |-> (IF i = 1 THEN <<>> ELSE <<Period>>) \o <<Piece(pieces[i], json)>>])
             \o PeriodBehind(txt, pieces)

-----------------------------------------------------------------------------
(* config_node_path                                                        *)

TextOfTokens(tokens) == FlattenSeq([i \in DOMAIN tokens |-> tokens[i].text])
Periods(tokens)      == {i \in DOMAIN tokens : tokens[i] = Period}
Nth(periods, n)      == CHOOSE i \in periods : Cardinality({j \in periods : j <= i}) = n

\* The tokens behind the nth period; sub_path throws if there are not so many.
CanSubPath(node, n) == n <= Cardinality(Periods(node.tokens))
NodeSubPath(node, n) ==
  [path |-> SubPath(node.path, n), tokens |-> SubSeq(node.tokens, Nth(Periods(node.tokens), n) + 1, Len(node.tokens))]

NodeFirst(node) ==
  IF Periods(node.tokens) = {} THEN node
  ELSE [path |-> SubPathTo(node.path, 0, 1), tokens |-> SubSeq(node.tokens, 1, Nth(Periods(node.tokens), 1) - 1)]
=============================================================================
