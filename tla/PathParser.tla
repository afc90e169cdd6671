------------------------------ MODULE PathParser ------------------------------
(***************************************************************************)
(* path_parser on the tokens of a path expression, which Tokenizer reads   *)
(* as they are asked for; and whoever asks for every token of a document.  *)
(***************************************************************************)
EXTENDS Tokenizer
P == INSTANCE Paths

CONSTANTS
  Documents,    \* the texts of which every token is asked for
  Expressions   \* the texts that are parsed as paths

ASSUME TextsAssumption == \A s \in Documents \cup Expressions : IsSequence(s)

VARIABLES
  entry,        \* "parse_path", "parse_path_node", or "tokens"
  used,         \* how many tokens the parser has been given
  elements,     \* what they make of the path so far
  path_tokens,  \* what they become in the node of the path
  outcome       \* "speculating", "reading", "done", "bad", or "failed" with the tokenizer

parserVars == <<entry, used, elements, path_tokens, outcome>>
allVars    == <<vars, parserVars>>

\* Only a node may be parsed for JSON, where there are no comments.
Json == ~allow_comments

\* Whoever asks for every token reads from the start.
ParserInit ==
  /\ \/ entry = "tokens" /\ outcome = "reading" /\ Init(Documents)
     \/ entry = "parse_path" /\ outcome = "speculating" /\ Init(Expressions) /\ ~Json
     \/ entry = "parse_path_node" /\ outcome = "speculating" /\ Init(Expressions)
  /\ used = 0 /\ elements = <<P!Element>> /\ path_tokens = <<>>

-----------------------------------------------------------------------------
\* The characters a quoted string stands for.
Unescaped(c) == CASE c = "n" -> "\n" [] c = "t" -> "\t" [] c = "r" -> "\r" [] OTHER -> c
Meant(s) ==
  FoldLeft(LAMBDA done, c :
             IF done.escape THEN [escape |-> FALSE, text |-> Append(done.text, Unescaped(c))]
             ELSE IF c = "\\" THEN [done EXCEPT !.escape = TRUE]
             ELSE [done EXCEPT !.text = Append(@, c)],
           [escape |-> FALSE, text |-> <<>>], s).text
ValueOf(quoted) ==
  IF Len(quoted) >= 6 /\ SubSeq(quoted, 1, 3) = <<"\"", "\"", "\"">>
  THEN SubSeq(quoted, 4, Len(quoted) - 3)
  ELSE Meant(SubSeq(quoted, 2, Len(quoted) - 1))

IsString(t) == t.type = "VALUE" /\ t.text[1] = "\""

Speculate ==
  /\ outcome = "speculating"
  /\ LET found == IF entry = "parse_path" THEN P!SpeculativeFastParsePath(input) ELSE <<>>
     IN  IF found = <<>> THEN outcome' = "reading" /\ UNCHANGED elements
         ELSE outcome' = "done" /\ elements' = [i \in DOMAIN found |-> [P!Element EXCEPT !.value = found[i]]]
  /\ UNCHANGED <<vars, entry, used, path_tokens>>

\* expression.next() goes on until the queue has a token again, or its last one.
AskNext ==
  /\ outcome = "reading" /\ (mode = "idle" /\ entry # "tokens" => used = taken)
  /\ Next
  /\ UNCHANGED parserVars

TokenizerFails ==
  /\ outcome = "reading" /\ mode = "failed" /\ entry # "tokens"
  /\ outcome' = "failed"
  /\ UNCHANGED <<vars, entry, used, elements, path_tokens>>

\* Mutant: the whitespace around the keys gets no place in the node.
WithoutLayout(t) == IF t.type = "IGNORED_WHITESPACE" THEN <<>> ELSE <<[type |-> t.type, text |-> t.text]>>
NodeTokens(t) ==
  IF t.type \in {"VALUE", "UNQUOTED_TEXT"} /\ ~IsString(t) THEN P!SplitTokenOnPeriod(t.text, Json)
  ELSE <<[type |-> t.type, text |-> t.text]>>

AddToken ==
  /\ outcome = "reading" /\ mode = "idle" /\ used < taken /\ entry # "tokens"
  /\ LET t == frames[1].tokens[taken]
     IN  /\ used' = taken
         /\ IF t.type \in {"START", "IGNORED_WHITESPACE", "END"}
            THEN UNCHANGED <<elements, outcome>>
            ELSE IF IsString(t) THEN elements' = P!AddPathText(elements, TRUE, ValueOf(t.text)) /\ UNCHANGED outcome
            ELSE IF t.type \in {"VALUE", "UNQUOTED_TEXT"}
            THEN elements' = P!AddPathText(elements, FALSE, t.text) /\ UNCHANGED outcome
            ELSE outcome' = "bad" /\ UNCHANGED elements
         /\ path_tokens' = IF t.type = "START" THEN path_tokens ELSE path_tokens \o NodeTokens(t)
  /\ UNCHANGED <<vars, entry>>

\* Without a next token the elements become the path.
Build ==
  /\ outcome = "reading" /\ mode = "idle" /\ used = Len(frames[1].tokens)
  /\ outcome' = IF P!HasEmptyElement(elements) THEN "bad" ELSE "done"
  /\ UNCHANGED <<vars, entry, used, elements, path_tokens>>

ParserNext == Speculate \/ AskNext \/ TokenizerFails \/ AddToken \/ Build
ParserSpec == ParserInit /\ [][ParserNext]_allVars /\ WF_allVars(ParserNext)

-----------------------------------------------------------------------------
(* Properties *)

Path  == P!KeysOf(elements)
Node  == [path |-> Path, tokens |-> path_tokens]
Ended == outcome \in {"done", "bad", "failed"}

\* A path is parsed or refused; whoever asks for every token comes to the last
\* one, or to an error.
Terminates ==
  <>(Ended \/ (entry = "tokens" /\ (mode = "failed" \/ (mode = "idle" /\ taken = Len(frames[1].tokens)))))

\* What a character adds to a path expression: a period between keys begins the
\* next one, unless it is in quotes, and an escape stands for what it means.
Read1(acc, c) ==
  LET adds(x) == [acc EXCEPT !.keys = Retopped(@, Append(Last(@), x)), !.escape = FALSE]
  IN  IF acc.escape THEN [adds(Unescaped(c)) EXCEPT !.bad = @ \/ c \notin Escapable]
      ELSE CASE acc.open /\ c = "\\" -> [acc EXCEPT !.escape = TRUE]
             [] c = "\"" -> [acc EXCEPT !.open = ~@, !.quoted = @ \cup {Len(acc.keys)}]
             [] c = "." /\ ~acc.open -> [acc EXCEPT !.keys = Append(@, <<>>)]
             [] OTHER -> [adds(c) EXCEPT !.bad = @ \/ c \in IF acc.open THEN Controls ELSE Reserved \cup {"\n"}]
Meaning(s) ==
  FoldLeft(Read1, [keys |-> <<<<>>>>, quoted |-> {}, open |-> FALSE, escape |-> FALSE, bad |-> FALSE], s)

IsValid(m) == ~m.open /\ ~m.bad /\ \A k \in DOMAIN m.keys : m.keys[k] # <<>> \/ k \in m.quoted

\* Left out: numbers with +, strings in three quotes, a comment that starts in
\* the middle, and newlines around a path, which only the fast parser takes.
Adjacent(s, a, b) == \E i \in 1 .. Len(s) - 1 : s[i] = a /\ s[i + 1] = b
IsPlain(s) ==
  /\ \A i \in DOMAIN s : s[i] = "\n" => \E j, k \in DOMAIN s : j < i /\ i < k /\ {s[j], s[k]} \cap P!Blank = {}
  /\ "+" \notin ToSet(s) /\ ~Adjacent(s, "/", "/")
  /\ \A i \in 1 .. Len(s) - 2 : ~(s[i] = "\"" /\ s[i + 1] = "\"" /\ s[i + 2] = "\"")

\* A path expression, without the whitespace around it, is a row of keys with
\* periods between them.  Neither the tokens it happens to be read as, numbers,
\* keywords, texts and the whitespace between them, nor whether it is read
\* without the tokenizer make a difference.
PathIsMeant ==
  Ended /\ IsPlain(input) =>
    LET m == Meaning(P!Trim(input))
    IN  /\ outcome = "done" <=> IsValid(m)
        /\ outcome = "done" => Path = m.keys

\* The node of a path is written as the path was: a setting that is replaced
\* keeps its text.  And what add_value_on_path writes for each key of a new
\* setting, first() of what is left of the node, reads as that key, if no
\* whitespace is outside of quotes.
NodeIsThePath ==
  LET blanks == {i \in DOMAIN path_tokens : path_tokens[i].text # <<>> /\ AllIn(path_tokens[i].text, Whitespace)}
      written(n) == P!TextOfTokens(P!NodeFirst(IF n = 0 THEN Node ELSE P!NodeSubPath(Node, n)).tokens)
  IN  outcome = "done" /\ entry = "parse_path_node" /\ ~Json =>
        /\ P!TextOfTokens(path_tokens) = input
        /\ IsPlain(input) /\ blanks = {} =>
             \A n \in 0 .. Len(Path) - 1 :
               /\ n > 0 => P!CanSubPath(Node, n)
               /\ Meaning(written(n)).keys = <<Path[n + 1]>>
=============================================================================
