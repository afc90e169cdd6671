---------------------------- MODULE DocumentParser ----------------------------
(***************************************************************************)
(* parse_context: the tokens of a document, or of a single value, become a *)
(* tree of nodes.  A step takes one token, from those put back or from the *)
(* tokenizer, and does all the function at hand does with it; there is a   *)
(* frame for each of parse, parse_object, parse_array, parse_include and   *)
(* consolidate_values in progress.                                         *)
(***************************************************************************)
EXTENDS Stacks, Naturals, FiniteSets, SequencesExt

CONSTANTS
  Entries,      \* {"parse", "parse_single_value"}
  Flavors,      \* {"JSON", "CONF"}
  Vocabularies, \* sets of words, each [words, max]: a text has max tokens at most
  NoPath        \* the words whose text is no path

ASSUME EntriesAssumption == Entries \subseteq {"parse", "parse_single_value"} /\ Flavors \subseteq {"JSON", "CONF"}

VARIABLES
  flavor,       \* _flavor
  vocabulary,   \* what the text is written with
  tokens,       \* what the tokenizer has been asked for so far, after START
  buffer,       \* the tokens put back, the last one on top
  stack,        \* the functions in progress, the innermost last
  ctl,          \* what goes on between them
  equals_count, \* _equals_count
  line_number,  \* _line_number
  closed        \* history: the parentheses that have ended an include

vars == <<flavor, vocabulary, tokens, buffer, stack, ctl, equals_count, line_number, closed>>

-----------------------------------------------------------------------------
(***************************************************************************)
(* A word stands for a token: whitespace that is ignored or that belongs   *)
(* to a value ("space"), two quoted strings, one of two lines, a number,   *)
(* unquoted texts, punctuation.                                            *)
(***************************************************************************)
Strings     == {"k1", "k2", "lines"}
Unquoted    == {"text", "include", "file_open", "close_paren"} \cup NoPath
Separators  == {"colon", "equals", "plus_equals"}
Punctuation == Separators \cup {"comma", "open_curly", "close_curly", "open_square", "close_square"}
Layout      == {"ignored", "space", "newline", "comment"}
ASSUME NoPathAssumption == NoPath \cap ({"end"} \cup Punctuation \cup Layout) = {}
KeyWords    == Strings \cup {"number", "space"} \cup Unquoted
ValueWords  == KeyWords \cup {"subst", "open_curly", "open_square"}
IsSimple(w) == w \in KeyWords \cup {"subst"}

\* What the tokenizer may return after the words s.
CanFollow(s, w) ==
  LET last == IF s = <<>> THEN "start" ELSE s[Len(s)]
  IN  /\ w \in {"ignored", "space"} => last \notin {"ignored", "space"}
      /\ w = "space" => IsSimple(last)
      /\ last = "space" => IsSimple(w)
      /\ last = "ignored" /\ Len(s) > 1 /\ IsSimple(s[Len(s) - 1]) => ~IsSimple(w)
      /\ last = "comment" => w \in {"newline", "end"}
      /\ last \in Unquoted => w \notin Unquoted \cup {"number"}
      /\ last # "end"

Words    == [i \in DOMAIN tokens |-> tokens[i].w]
LineEnds == {i \in DOMAIN tokens : tokens[i].w \in {"newline", "lines"}}
Line(w)  == 1 + Cardinality(LineEnds) + (IF w = "lines" THEN 1 ELSE 0)
Following ==
  LET left == vocabulary.max - Len(tokens)
      more == {w \in vocabulary.words : left > (IF w = "space" THEN 1 ELSE 0)}
  IN  {[id |-> Len(tokens) + 1, w |-> w, line |-> Line(w)] : w \in {x \in more \cup {"end"} : CanFollow(Words, x)}}

HasLine(t) == t.w \notin Punctuation \cup {"end"}

\* text is what get_tokens() returns: a leaf's token, or those of all children.
TextOf(ns)    == FlattenSeq([i \in DOMAIN ns |-> ns[i].text])
Leaf(k, t)    == [k |-> k, t |-> t, kids |-> <<>>, text |-> <<t>>]
Node(k, kids) == [k |-> k, kids |-> kids, text |-> TextOf(kids)]
Layer(t)      == Leaf(IF t.w = "comment" THEN "comment" ELSE "token", t)

-----------------------------------------------------------------------------
DocumentFrame(fn, pc) == [fn |-> fn, pc |-> pc, nodes |-> <<>>]
IncludeFrame(t)       == [fn |-> "include", pc |-> "what", nodes |-> <<Leaf("token", t)>>]
ValuesFrame           == [fn |-> "values", pc |-> "first", nodes |-> <<>>]
ArrayFrame(t) == [fn |-> "array", pc |-> "only", nodes |-> <<Leaf("token", t)>>, newline |-> FALSE, equals |-> equals_count]
\* open is the brace, if there is one; field the nodes of the field in progress,
\* key the tokens of its key.
ObjectFrame(open) ==
  [fn |-> "object", pc |-> "member", nodes |-> open, field |-> <<>>, key |-> <<>>, keys |-> {},
   after_comma |-> FALSE, inside_equals |-> FALSE, newline |-> FALSE, equals |-> equals_count]

Run          == [op |-> "run"]
Returns(v)   == [op |-> "value", v |-> v]
Throws(t)     == [op |-> "throw", at |-> t]
\* What follows a null origin when it is thrown reports nothing.
NullOrigin       == [op |-> "crash"]
UnbalancedEquals == [op |-> "bug"]

Top        == Last(stack)
At(fn, pc) == ctl = Run /\ stack # <<>> /\ Top.fn = fn /\ Top.pc = pc
HasBraces(f) == f.nodes # <<>> /\ f.nodes[1].k = "token" /\ f.nodes[1].t.w = "open_curly"

Init ==
  /\ flavor \in Flavors /\ vocabulary \in Vocabularies
  /\ tokens = <<>> /\ buffer = <<>> /\ ctl = Run /\ equals_count = 0 /\ line_number = 1 /\ closed = {}
  /\ \E fn \in Entries : stack = <<DocumentFrame(fn, "first")>>

\* pop_token
Available == IF buffer = <<>> THEN Following ELSE {Last(buffer)}
\* next_token: JSON has neither unquoted text nor substitutions.
InJson(t) == t.w \notin Unquoted \cup {"subst"}
Readable  == {t \in Available : flavor = "JSON" => InJson(t)}

\* t is taken and the tokens of back are put back, the last one on top.
Takes(t, back) ==
  /\ buffer' = (IF buffer = <<>> THEN <<>> ELSE Popped(buffer)) \o back
  /\ tokens' = IF buffer = <<>> THEN Append(tokens, t) ELSE tokens
  /\ UNCHANGED <<flavor, vocabulary>>
\* next_token returns t.
Got(t, back)  == Takes(t, back) /\ UNCHANGED line_number
\* next_token_collecting_whitespace returns t.
GotNext(t, back) == Takes(t, back) /\ line_number' = IF HasLine(t) THEN t.line ELSE line_number
Tokens == {t \in Readable : t.w \notin Layout}

\* Where next_token_collecting_whitespace is called, and the list it is given.
Collecting ==
  /\ ctl = Run /\ stack # <<>>
  /\ ~(Top.pc \in {"key", "more"} \/ Top.fn = "parse_single_value" \/ (Top.pc = "separator" /\ flavor = "CONF"))
AddTo(f, n) ==
  IF f.fn = "object" /\ f.pc \in {"after_key", "value"}
  THEN [f EXCEPT !.field = Append(@, n)] ELSE [f EXCEPT !.nodes = Append(@, n)]
Collected(n) ==
  LET i == IF Top.fn = "values" THEN Len(stack) - 1 ELSE Len(stack) IN [stack EXCEPT ![i] = AddTo(@, n)]

Collect ==
  /\ Collecting
  /\ \E t \in Readable :
       /\ t.w \in Layout
       /\ Takes(t, <<>>)
       /\ stack' = Collected(Layer(t))
       /\ line_number' = IF t.w = "newline" THEN t.line + 1 ELSE line_number
  /\ UNCHANGED <<ctl, equals_count>>

\* Only "run" reads a token.
NotJson ==
  /\ ctl = Run /\ stack # <<>> /\ flavor = "JSON"
  /\ \E t \in Available : ~InJson(t) /\ Got(t, <<>>) /\ ctl' = Throws(t)
  /\ UNCHANGED <<stack, equals_count>>

\* consolidate_values, "not done in JSON", is called by the last of the frames.
\* Where it finds no value, that frame goes on and reads the next token.
Consolidating(fs) == IF flavor = "JSON" THEN fs ELSE Append(fs, ValuesFrame)

\* parse_value(t), called with the frames fs.
ParseValue(fs, t) ==
  /\ stack' = CASE t.w = "open_curly" -> Append(fs, ObjectFrame(<<Leaf("token", t)>>))
                [] t.w = "open_square" -> Consolidating(Append(fs, ArrayFrame(t)))
                [] OTHER     -> fs
  /\ ctl' = CASE t.w \in {"open_curly", "open_square"} -> Run
              [] IsSimple(t.w)      -> Returns(Leaf("simple", t))
              [] OTHER              -> Throws(t)

\* The end of parse_value for an object or an array.
Leave(node) ==
  /\ stack' = Popped(stack)
  /\ ctl' = IF equals_count # Top.equals THEN UnbalancedEquals ELSE Returns(node)

Fail(t)    == ctl' = Throws(t) /\ UNCHANGED stack
SetTop(f)  == stack' = Retopped(stack, f) /\ ctl' = Run

-----------------------------------------------------------------------------
(* parse                                                                   *)

Root ==
  /\ At("parse", "first")
  /\ \E t \in Tokens :
       IF t.w \in {"open_curly", "open_square"} THEN GotNext(t, <<>>) /\ ParseValue(Retopped(stack, [Top EXCEPT !.pc = "root"]), t)
       ELSE IF flavor = "JSON" THEN GotNext(t, <<>>) /\ Fail(t)
       ELSE /\ GotNext(t, <<t>>)
            /\ stack' = Append(Retopped(stack, [Top EXCEPT !.pc = "root"]), ObjectFrame(<<>>))
            /\ UNCHANGED ctl
  /\ UNCHANGED equals_count

\* Without braces the document is the object.
RootParsed ==
  /\ Top.fn = "parse" /\ ctl.op = "value"
  /\ SetTop([Top EXCEPT !.pc = "trailing",
                        !.nodes = @ \o IF ctl.v.k = "root" THEN ctl.v.kids ELSE <<ctl.v>>])
  /\ UNCHANGED <<flavor, vocabulary, tokens, buffer, equals_count, line_number>>

Trailing ==
  /\ At("parse", "trailing")
  /\ \E t \in Tokens :
       /\ GotNext(t, <<>>)
       /\ IF t.w = "end" THEN stack' = <<>> /\ ctl' = Returns(Node("document", Top.nodes)) ELSE Fail(t)
  /\ UNCHANGED equals_count

-----------------------------------------------------------------------------
(* parse_single_value                                                      *)

Single ==
  /\ At("parse_single_value", "first")
  /\ \E t \in Readable :
       LET waiting == Retopped(stack, [Top EXCEPT !.pc = "last"])
       IN  IF t.w \in Layout \cup {"end"} THEN Got(t, <<>>) /\ Fail(t)
           ELSE IF flavor = "JSON" THEN Got(t, <<>>) /\ ParseValue(waiting, t)
           ELSE Got(t, <<t>>) /\ stack' = Consolidating(waiting) /\ UNCHANGED ctl
  /\ UNCHANGED equals_count

SingleParsed ==
  /\ Top.fn = "parse_single_value" /\ ctl.op = "value"
  /\ SetTop(AddTo(Top, ctl.v))
  /\ UNCHANGED <<flavor, vocabulary, tokens, buffer, equals_count, line_number>>

SingleEnds ==
  /\ At("parse_single_value", "last")
  /\ \E t \in Readable :
       /\ Got(t, <<>>)
       /\ IF t.w = "end" THEN stack' = <<>> /\ ctl' = Returns(Node("single", Top.nodes)) ELSE Fail(t)
  /\ UNCHANGED equals_count

-----------------------------------------------------------------------------
(* parse_object                                                            *)

Member ==
  /\ At("object", "member")
  /\ \E t \in Tokens :
       CASE t.w = "close_curly" ->
              /\ GotNext(t, <<>>)
              /\ IF (flavor = "JSON" /\ Top.after_comma) \/ ~HasBraces(Top) THEN Fail(t)
                 ELSE Leave(Node("object", Append(Top.nodes, Leaf("token", t))))
         [] t.w = "end" /\ ~HasBraces(Top) ->
              GotNext(t, <<t>>) /\ Leave(Node("root", Top.nodes))
         [] t.w = "include" /\ flavor # "JSON" ->
              GotNext(t, <<>>) /\ stack' = Append(stack, IncludeFrame(t)) /\ UNCHANGED ctl
         [] OTHER ->
              /\ GotNext(t, <<>>)
              /\ IF flavor = "JSON"
                 THEN IF t.w \in Strings
                      THEN SetTop([Top EXCEPT !.pc = "after_key", !.key = <<t.w>>, !.field = <<Node("path", <<Leaf("token", t)>>)>>])
                      ELSE Fail(t)
                 ELSE IF t.w \in KeyWords THEN SetTop([Top EXCEPT !.pc = "key", !.key = <<t>>]) ELSE Fail(t)
  /\ UNCHANGED equals_count

\* Mutant: the token after the key is not put back.
KeyTaken(t) == <<>>
AfterKey(t) == <<t>>

\* parse_key: the key is the values and texts on the line.  Where it is no path
\* the path parser throws, with the origin it was given: a null pointer.
Key ==
  /\ At("object", "key")
  /\ \E t \in Readable :
       IF t.w \in KeyWords THEN Got(t, <<>>) /\ SetTop([Top EXCEPT !.key = Append(@, t)])
       ELSE /\ Got(t, AfterKey(t))
            /\ IF \E i \in DOMAIN Top.key : Top.key[i].w \in NoPath THEN ctl' = NullOrigin /\ UNCHANGED stack
               ELSE SetTop([Top EXCEPT !.pc = "after_key",
                              !.field = <<Node("path", [i \in DOMAIN Top.key |-> Leaf("token", Top.key[i])])>>])
  /\ UNCHANGED equals_count

IsSeparator(t) == IF flavor = "JSON" THEN t.w = "colon" ELSE t.w \in Separators

Separator ==
  /\ At("object", "after_key")
  /\ \E t \in Tokens :
       LET waiting == [Top EXCEPT !.pc = "value"]
       IN  /\ GotNext(t, <<>>)
           /\ IF flavor = "CONF" /\ t.w = "open_curly"
              THEN ParseValue(Retopped(stack, waiting), t) /\ UNCHANGED equals_count
              ELSE IF ~IsSeparator(t) THEN Fail(t) /\ UNCHANGED equals_count
              ELSE /\ stack' = Consolidating(Retopped(stack,
                        [waiting EXCEPT !.field = Append(@, Leaf("token", t)), !.inside_equals = t.w = "equals"]))
                   /\ UNCHANGED ctl
                   /\ equals_count' = IF t.w = "equals" THEN equals_count + 1 ELSE equals_count

FieldValue ==
  /\ At("object", "value")
  /\ \E t \in Tokens : GotNext(t, <<>>) /\ ParseValue(stack, t)
  /\ UNCHANGED equals_count

\* Mutant: what was counted stays counted.
StillEqual(f) == equals_count
AfterEquals(f) == IF f.inside_equals THEN equals_count - 1 ELSE equals_count

FieldParsed ==
  /\ Top.fn = "object" /\ ctl.op = "value"
  /\ equals_count' = AfterEquals(Top)
  /\ IF flavor = "JSON" /\ Top.key[1] \in Top.keys THEN Fail([w |-> "duplicate", line |-> line_number])
     ELSE SetTop([Top EXCEPT !.pc = "separator", !.field = <<>>, !.key = <<>>, !.after_comma = FALSE,
                             !.newline = FALSE, !.inside_equals = FALSE,
                             !.keys = IF flavor = "JSON" THEN @ \cup {Top.key[1]} ELSE @,
                             !.nodes = Append(@, Node("field", Append(Top.field, ctl.v)))])
  /\ UNCHANGED <<flavor, vocabulary, tokens, buffer, line_number>>

CloseObject ==
  /\ At("object", "close")
  /\ \E t \in Tokens :
       CASE t.w = "close_curly" /\ HasBraces(Top) -> GotNext(t, <<>>) /\ Leave(Node("object", Append(Top.nodes, Leaf("token", t))))
         [] t.w = "end" /\ ~HasBraces(Top) -> GotNext(t, <<t>>) /\ Leave(Node("root", Top.nodes))
         [] OTHER -> GotNext(t, <<>>) /\ Fail(t)
  /\ UNCHANGED equals_count

-----------------------------------------------------------------------------
\* parse_include: a quoted string, or one in parentheses; the closing one gets
\* no node.
Included(f) == Retopped(Popped(stack), [stack[Len(stack) - 1] EXCEPT
                 !.nodes = Append(@, f), !.pc = "separator", !.newline = FALSE, !.after_comma = FALSE])

Include ==
  /\ \E pc \in {"what", "name", "close"} : At("include", pc)
  /\ \E t \in Tokens :
       /\ GotNext(t, <<>>)
       /\ CASE Top.pc = "what" /\ t.w \in Strings ->
                 stack' = Included(Node("include", Append(Top.nodes, Leaf("simple", t)))) /\ UNCHANGED ctl
            [] Top.pc = "what" /\ t.w = "file_open" ->
                 SetTop([Top EXCEPT !.pc = "name", !.nodes = Append(@, Leaf("token", t))])
            [] Top.pc = "name" /\ t.w \in Strings ->
                 SetTop([Top EXCEPT !.pc = "close", !.nodes = Append(@, Leaf("simple", t))])
            [] Top.pc = "close" /\ t.w = "close_paren" ->
                 stack' = Included(Node("include", Top.nodes)) /\ UNCHANGED ctl
            [] OTHER -> Fail(t)
       /\ closed' = IF Top.pc = "close" /\ t.w = "close_paren" THEN closed \cup {t} ELSE closed
  /\ UNCHANGED equals_count

-----------------------------------------------------------------------------
(* check_element_separator                                                 *)

\* Mutant: the lines between elements are not counted.
SameLine(t)  == line_number
NextLine(t)  == IF t.w = "newline" THEN line_number + 1 ELSE line_number

\* After an element: there may be another, or the object or array must close.
Separated(f) ==
  IF f.fn = "object" THEN SetTop([f EXCEPT !.pc = "member", !.after_comma = TRUE])
  ELSE stack' = Consolidating(Retopped(stack, [f EXCEPT !.pc = "element"])) /\ ctl' = Run
NotSeparated(f) == SetTop([f EXCEPT !.pc = "close"])

SeparatorLayout ==
  /\ ctl = Run /\ stack # <<>> /\ Top.pc = "separator" /\ flavor = "CONF"
  /\ \E t \in Readable :
       /\ t.w \in Layout
       /\ Takes(t, <<>>) /\ line_number' = NextLine(t)
       /\ SetTop([AddTo(Top, Layer(t)) EXCEPT !.newline = @ \/ t.w = "newline"])
  /\ UNCHANGED equals_count

ElementSeparator ==
  /\ ctl = Run /\ stack # <<>> /\ Top.pc = "separator"
  /\ \E t \in Tokens :
       /\ IF t.w = "comma"
          THEN Takes(t, <<>>) /\ Separated(AddTo(Top, Leaf("token", t)))
          ELSE Takes(t, <<t>>) /\ IF flavor = "CONF" /\ Top.newline THEN Separated(Top) ELSE NotSeparated(Top)
       /\ line_number' = IF flavor = "JSON" /\ HasLine(t) THEN t.line ELSE line_number
  /\ UNCHANGED equals_count

-----------------------------------------------------------------------------
(* parse_array                                                             *)

ElementParsed ==
  /\ Top.fn = "array" /\ ctl.op = "value"
  /\ SetTop([Top EXCEPT !.pc = "separator", !.newline = FALSE, !.nodes = Append(@, ctl.v)])
  /\ UNCHANGED <<flavor, vocabulary, tokens, buffer, equals_count, line_number>>

\* Mutant: the bracket after a comma is left for the next element.
StillElement(f)  == SetTop(f)
AfterTrailing(f) == SetTop([f EXCEPT !.pc = "separator", !.newline = FALSE])

\* Mutant: JSON too may end an array with a comma.
AlwaysTrailing    == TRUE
TrailingIsAllowed == flavor # "JSON"

Element ==
  /\ At("array", "only") \/ At("array", "element")
  /\ \E t \in Tokens :
       CASE t.w \in ValueWords -> GotNext(t, <<>>) /\ ParseValue(stack, t)
         [] t.w = "close_square" /\ Top.pc = "only" -> GotNext(t, <<>>) /\ Leave(Node("array", Append(Top.nodes, Leaf("token", t))))
         [] t.w = "close_square" /\ Top.pc = "element" /\ TrailingIsAllowed -> GotNext(t, <<t>>) /\ AfterTrailing(Top)
         [] OTHER -> GotNext(t, <<>>) /\ Fail(t)
  /\ UNCHANGED equals_count

CloseArray ==
  /\ At("array", "close")
  /\ \E t \in Tokens :
       /\ GotNext(t, <<>>)
       /\ IF t.w = "close_square" THEN Leave(Node("array", Append(Top.nodes, Leaf("token", t)))) ELSE Fail(t)
  /\ UNCHANGED equals_count

-----------------------------------------------------------------------------
(* consolidate_values: the values on a line, and the whitespace between.   *)

IsValue(n)        == n.k # "token"
LastValue(values) == SelectLastInSeq(values, IsValue)
TokensOfLayout(ns) == [i \in DOMAIN ns |-> ns[i].t]

\* Mutant: the whitespace behind the values is dropped.
PutNothingBack(values) == <<>>
\* What is put back on top of the token after the values: the whitespace behind
\* them, for several of them from the last to the first.
PutBack(values) ==
  LET behind == TokensOfLayout(SubSeq(values, LastValue(values) + 1, Len(values)))
  IN  IF Len(SelectSeq(values, IsValue)) < 2 THEN behind ELSE Reverse(behind)

Value ==
  /\ At("values", "first") \/ At("values", "more")
  /\ \E t \in Readable :
       /\ t.w \in ValueWords /\ (Top.pc = "first" => t.w \notin Layout)
       /\ IF Top.pc = "first" THEN GotNext(t, <<>>) ELSE Got(t, <<>>)
       /\ ParseValue(Retopped(stack, [Top EXCEPT !.pc = "more"]), t)
  /\ UNCHANGED equals_count

Between ==
  /\ At("values", "more")
  /\ \E t \in Readable :
       /\ t.w = "ignored"
       /\ Got(t, <<>>) /\ SetTop(AddTo(Top, Leaf("token", t)))
  /\ UNCHANGED equals_count

ValueParsed ==
  /\ Top.fn = "values" /\ ctl.op = "value"
  /\ SetTop(AddTo(Top, ctl.v))
  /\ UNCHANGED <<flavor, vocabulary, tokens, buffer, equals_count, line_number>>

Consolidated ==
  /\ At("values", "first") \/ At("values", "more")
  /\ \E t \in Readable :
       LET values == Top.nodes
           kept   == SubSeq(values, 1, LastValue(values))
           back   == <<t>> \o PutBack(values)
       IN  /\ t.w \notin ValueWords \cup (IF Top.pc = "first" THEN Layout ELSE {"ignored"})
           /\ IF Top.pc = "first" THEN GotNext(t, back) ELSE Got(t, back)
           /\ ctl' = CASE kept = <<>> -> Run
                       [] Len(kept) = 1 -> Returns(kept[1])
                       [] OTHER -> Returns(Node("concat", kept))
           /\ stack' = Popped(stack)
  /\ UNCHANGED equals_count

Next ==
  \/ Include
  \/ /\ \/ Collect \/ NotJson \/ Root \/ Trailing \/ Single \/ SingleEnds
        \/ Member \/ Key \/ Separator \/ FieldValue \/ CloseObject
        \/ SeparatorLayout \/ ElementSeparator \/ Element \/ CloseArray
        \/ Value \/ Between \/ Consolidated
        \/ stack # <<>> /\ (RootParsed \/ SingleParsed \/ FieldParsed \/ ElementParsed \/ ValueParsed)
     /\ UNCHANGED closed

Spec == Init /\ [][Next]_vars /\ WF_vars(Next)

-----------------------------------------------------------------------------
(* Properties *)

Ended     == ctl.op # "run" /\ (stack = <<>> \/ ctl.op # "value")
Succeeded == ctl.op = "value" /\ stack = <<>>

\* What is in the nodes of the functions in progress, the outermost first, what
\* is returned, and what is put back.
FrameText(f) ==
  TextOf(f.nodes) \o
    IF f.fn = "object" THEN TextOf(f.field) \o (IF f.pc = "key" THEN f.key ELSE <<>>) ELSE <<>>
StackText(s) == FlattenSeq([i \in DOMAIN s |-> FrameText(s[i])])
Consumed     == StackText(stack) \o IF ctl.op = "value" THEN ctl.v.text ELSE <<>>
InNodes      == Consumed \o Reverse(buffer)

\* Every token that was read is in exactly one place, and they are in the order
\* of the text, but for the parenthesis with which include file("x") ends (see
\* RendersAsWritten) and the end, of which a document has no node.
NothingIsLost ==
  LET held == InNodes
  IN  ctl.op \in {"run", "value"} =>
        /\ \A i, j \in DOMAIN held : i < j => held[i].id < held[j].id
        /\ \A i \in DOMAIN held : \E j \in DOMAIN tokens : held[i] = tokens[j]
        /\ \A j \in DOMAIN tokens : \/ \E i \in DOMAIN held : held[i] = tokens[j]
                                    \/ tokens[j] \in closed \/ (Succeeded /\ tokens[j].w = "end")

\* A parsed document "can be used to exactly render the original text" without
\* edits: every token but the end is in its text.
RendersAsWritten == Succeeded => ctl.v.text = SelectSeq(tokens, LAMBDA t : t.w # "end")

\* _tokens.next() is never called after the end: the queue of the tokenizer is
\* empty then.  Whoever sees the end puts it back, or is the last to read.
NeverPastEnd == ctl = Run /\ buffer = <<>> /\ tokens # <<>> => Last(tokens).w # "end"

\* _equals_count is how many fields with = are in progress, wherever a value
\* ends: "unbalanced quals count" is never thrown.
EqualsBalanced ==
  /\ ctl.op # "bug"
  /\ ctl.op \in {"run", "value"} =>
       equals_count = Cardinality({i \in DOMAIN stack : stack[i].fn = "object" /\ stack[i].inside_equals})

\* An error that is reported is on the line of the token it is about, in spite
\* of tokens put back and read again; strings of several lines may confuse it.
\* A key that is no path is not reported (NullOrigin).
ErrorsAreOnTheirLine ==
  ctl.op = "throw" /\ (\A i \in DOMAIN tokens : tokens[i].w # "lines") => line_number = ctl.at.line

\* Parsing ends.
Terminates == <>Ended
=============================================================================
