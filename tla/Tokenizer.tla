------------------------------ MODULE Tokenizer ------------------------------
(***************************************************************************)
(* token_iterator: the characters of a document become tokens.  A step     *)
(* reads a character, or the few that are read together.  pull_next_token  *)
(* calls itself inside a substitution: there is a frame for the iterator's *)
(* own queue and one for every substitution that is open, each with its    *)
(* whitespace_saver.                                                       *)
(***************************************************************************)
EXTENDS Stacks, Naturals, FiniteSets, SequencesExt

CONSTANT
  IntDigits   \* how many digits an int64_t has room for

ASSUME IntDigitsAssumption == IntDigits \in Nat \ {0}

VARIABLES
  input,           \* the text, a sequence of one-character strings
  allow_comments,  \* not in JSON
  pos,             \* how many characters have been read and not put back
  mode,            \* the function that reads, "idle" or "failed"
  text,            \* the characters of the token being read
  count,           \* the characters a quoted string stands for, the quotes in a row
  frames,          \* [open, tokens, ws, simple], the innermost last
  line,            \* _line_number
  taken            \* how many tokens next() has been asked for

vars == <<input, allow_comments, pos, mode, text, count, frames, line, taken>>

-----------------------------------------------------------------------------
(* Characters; "high" is any byte above 127, a negative char.              *)

Whitespace  == {" ", "\t", "\r"}
Controls    == {"\n", "\t", "\r", "high"}
Digits      == {"0", "1", "2", "3", "4", "5", "6", "7", "8", "9"}
HexDigits   == Digits \cup {"a", "b", "c", "d", "e", "f"}
NumberChars == Digits \cup {"e", "E", "+", "-", "."}
Escapable   == {"\"", "\\", "/", "b", "f", "n", "r", "t"}
Keywords    == {<<"t", "r", "u", "e">>, <<"n", "u", "l", "l">>, <<"f", "a", "l", "s", "e">>}
Punctuation == [c \in {":", ",", "=", "{", "}", "[", "]"} |->
  CASE c = ":" -> "COLON" [] c = "," -> "COMMA" [] c = "=" -> "EQUALS"
    [] c = "{" -> "OPEN_CURLY" [] c = "}" -> "CLOSE_CURLY"
    [] c = "[" -> "OPEN_SQUARE" [] c = "]" -> "CLOSE_SQUARE"]
Reserved    == DOMAIN Punctuation \cup {"$", "\"", "+", "#", "backtick", "^", "?", "!", "@", "*", "&", "\\"}

AllIn(s, S) == \A i \in DOMAIN s : s[i] \in S
Unsigned(s, signs) == IF s # <<>> /\ s[1] \in signs THEN Tail(s) ELSE s
IsMantissa(s) ==
  /\ \E i \in DOMAIN s : s[i] \in Digits
  /\ \E k \in 0 .. Len(s) : /\ AllIn(SubSeq(s, 1, k), Digits)
                            /\ k = Len(s) \/ (s[k + 1] = "." /\ AllIn(SubSeq(s, k + 2, Len(s)), Digits))
IsExponent(s) ==
  LET digits == Unsigned(s, {"+", "-"}) IN digits # <<>> /\ AllIn(digits, Digits)

\* What lexical_cast takes for a number: an int64_t if it has neither point nor
\* exponent, or else a double.
IsNumber(s) ==
  LET m == Unsigned(s, {"-"})
  IN  IF {".", "e", "E"} \cap ToSet(s) = {}
      THEN Len(m) \in 1 .. IntDigits /\ AllIn(m, Digits)
      ELSE \E k \in 0 .. Len(m) :
             /\ IsMantissa(SubSeq(m, 1, k))
             /\ k = Len(m) \/ (m[k + 1] \in {"e", "E"} /\ IsExponent(SubSeq(m, k + 2, Len(m))))

-----------------------------------------------------------------------------
(* Tokens                                                                  *)

Token(type, txt, n) == [type |-> type, text |-> txt, line |-> n]
IsSimple(type)      == type \in {"SUBSTITUTION", "VALUE", "UNQUOTED_TEXT"}
TextOf(tokens)      == FlattenSeq([i \in DOMAIN tokens |-> tokens[i].text])

\* Mutant: only a simple token changes what the last one was.
StaysSimple(f, type) == f.simple \/ IsSimple(type)
NowSimple(f, type)   == IsSimple(type)

\* whitespace_saver::check, and the token after the whitespace.
Checked(f, t, n) ==
  LET kept == IF IsSimple(t.type) /\ f.simple THEN "UNQUOTED_TEXT" ELSE "IGNORED_WHITESPACE"
  IN  [f EXCEPT !.tokens = @ \o (IF f.ws = <<>> THEN <<>> ELSE <<Token(kept, f.ws, n)>>) \o <<t>>,
                !.ws = <<>>, !.simple = NowSimple(f, t.type)]

Frame(open, tokens) == [open |-> open, tokens |-> tokens, ws |-> <<>>, simple |-> FALSE]
Top       == Last(frames)
InSubst   == Len(frames) > 1
AtEnd     == pos = Len(input)
Here      == input[pos + 1]
Sees(S)   == ~AtEnd /\ Here \in S
Then(c)   == pos + 2 \in DOMAIN input /\ input[pos + 2] = c
Same      == UNCHANGED <<input, allow_comments, taken>>

StartOfComment == allow_comments /\ (Sees({"#"}) \/ (Sees({"/"}) /\ Then("/")))
Pulls(S)       == mode = "pull" /\ Sees(S) /\ ~StartOfComment

\* The function m goes on after n more characters, c is its count.
Goes(m, txt, c, n) ==
  /\ mode' = m /\ text' = txt /\ count' = c /\ pos' = pos + n
  /\ Same /\ UNCHANGED <<frames, line>>

Caller(fs) == IF Len(fs) = 1 THEN "idle" ELSE "pull"

\* After n more characters, nl of them newlines, a token is returned: to next(),
\* or to the pull_substitution that called for it.
GiveTo(fs, type, txt, n, nl) ==
  /\ pos' = pos + n /\ line' = line + nl
  /\ frames' = Retopped(fs, Checked(Last(fs), Token(type, txt, line), line + nl))
  /\ mode' = Caller(fs)
  /\ text' = <<>> /\ count' = 0
  /\ Same
Give(type, txt, n) == GiveTo(frames, type, txt, n, 0)

Init(texts) ==
  /\ input \in texts /\ allow_comments \in BOOLEAN
  /\ pos = 0 /\ line = 1 /\ taken = 0
  /\ mode = "idle" /\ text = <<>> /\ count = 0
  /\ frames = <<Frame(<<>>, <<Token("START", <<>>, 0)>>)>>

-----------------------------------------------------------------------------
\* next(): the queue is filled as soon as it is empty, before the last token in
\* it is handed out.
Take ==
  LET queue == frames[1].tokens
  IN  /\ mode = "idle" /\ taken < Len(queue)
      /\ taken' = taken + 1
      /\ mode' = IF taken' = Len(queue) /\ queue[taken'].type # "END" THEN "pull" ELSE "idle"
      /\ UNCHANGED <<input, allow_comments, pos, text, count, frames, line>>

SaveWhitespace ==
  /\ Pulls(Whitespace)
  /\ frames' = Retopped(frames, [Top EXCEPT !.ws = Append(@, Here)])
  /\ pos' = pos + 1
  /\ Same /\ UNCHANGED <<mode, text, count, line>>

EndOfInput == mode = "pull" /\ AtEnd /\ ~InSubst /\ Give("END", <<>>, 0)
Newline    == Pulls({"\n"}) /\ GiveTo(frames, "NEWLINE", <<"\n">>, 1, 1)
Punctuate  == Pulls(DOMAIN Punctuation) /\ ~(InSubst /\ Here = "}") /\ Give(Punctuation[Here], <<Here>>, 1)
PlusEquals == Pulls({"+"}) /\ Then("=") /\ Give("PLUS_EQUALS", <<"+", "=">>, 2)

\* pull_comment
InComment    == ~AtEnd /\ Here # "\n"
HashComment  == mode = "pull" /\ StartOfComment /\ Here = "#" /\ Goes("comment", <<"#">>, 0, 1)
SlashComment == mode = "pull" /\ StartOfComment /\ Here = "/" /\ Goes("comment", <<"/", "/">>, 0, 2)
CommentChar  == mode = "comment" /\ InComment /\ Goes(mode, Append(text, Here), 0, 1)
EndComment   == mode = "comment" /\ ~InComment /\ Give("COMMENT", text, 0)

\* pull_number: what is no number is a string, if a string may be written so.
StartNumber == Pulls(Digits \cup {"-"}) /\ Goes("number", <<Here>>, 0, 1)
NumberChar  == mode = "number" /\ Sees(NumberChars) /\ Goes(mode, Append(text, Here), 0, 1)
NoText      == ~IsNumber(text) /\ Reserved \cap ToSet(text) # {}
EndNumber   == /\ mode = "number" /\ ~Sees(NumberChars) /\ ~NoText
               /\ Give(IF IsNumber(text) THEN "VALUE" ELSE "UNQUOTED_TEXT", text, 0)

\* pull_unquoted_text: true, false and null are values wherever they start it.
\* Mutant: the character that ends the text is not put back.
InUnquoted    == ~AtEnd /\ Here \notin Reserved \cup Whitespace \cup {"\n"} /\ ~StartOfComment
EndIsRead     == mode = "unquoted" /\ ~InUnquoted /\ Give("UNQUOTED_TEXT", text, IF AtEnd THEN 0 ELSE 1)
StartUnquoted == mode = "pull" /\ InUnquoted /\ Here \notin Digits \cup {"-"} /\ Goes("unquoted", <<>>, 0, 0)
UnquotedChar  ==
  /\ mode = "unquoted" /\ InUnquoted
  /\ LET longer == Append(text, Here)
     IN  IF longer \in Keywords THEN Give("VALUE", longer, 1) ELSE Goes(mode, longer, 0, 1)
EndUnquoted   == mode = "unquoted" /\ ~InUnquoted /\ Give("UNQUOTED_TEXT", text, 0)

-----------------------------------------------------------------------------
(* pull_quoted_string; the token's text keeps the escapes.                 *)

StartQuoted == Pulls({"\""}) /\ Goes("quoted", <<Here>>, 0, 1)
QuotedChar  == /\ mode = "quoted" /\ ~AtEnd /\ Here \notin Controls \cup {"\"", "\\"}
               /\ Goes(mode, Append(text, Here), count + 1, 1)

\* How many characters an escape is written with; 0 if it is none.
EscapeLength ==
  IF pos + 2 \notin DOMAIN input THEN 0
  ELSE IF input[pos + 2] \in Escapable THEN 2
  ELSE IF input[pos + 2] = "u" /\ pos + 6 \in DOMAIN input THEN 6
  ELSE 0

\* How many it stands for: \u0000 is lost when it is narrowed, and without a
\* hexadecimal digit the character is not initialized.
Stands(escape) ==
  LET code == SubSeq(escape, 3, Len(escape))
  IN  CASE Len(escape) = 2 -> {1}
        [] Len(escape) = 6 /\ code[1] \notin HexDigits -> {0, 1}
        [] \E i \in DOMAIN code : code[i] \in HexDigits \ {"0"} /\ \A j \in 1 .. i - 1 : code[j] = "0" -> {1}
        [] OTHER -> {0}

Escape ==
  /\ mode = "quoted" /\ Sees({"\\"}) /\ EscapeLength > 0
  /\ LET escape == SubSeq(input, pos + 1, pos + EscapeLength)
     IN  \E n \in Stands(escape) : Goes(mode, text \o escape, count + n, EscapeLength)

\* A string of nothing may be the start of three quotes.
EndQuoted ==
  /\ mode = "quoted" /\ Sees({"\""})
  /\ IF count > 0 THEN Give("VALUE", Append(text, Here), 1) ELSE Goes("third", Append(text, Here), 0, 1)
Third ==
  /\ mode = "third"
  /\ IF Sees({"\""}) THEN Goes("triple", Append(text, Here), 0, 1) ELSE Give("VALUE", text, 0)

\* Mutant: the lines of a string are not counted.
LinesAreSkipped == line
CountedLine     == IF Here = "\n" THEN line + 1 ELSE line
\* The last three of the quotes close the string.
Closed     == count >= 3 /\ ~Sees({"\""})
TripleChar ==
  /\ mode = "triple" /\ ~AtEnd /\ ~Closed
  /\ text' = Append(text, Here) /\ pos' = pos + 1 /\ line' = CountedLine
  /\ count' = IF Here = "\"" THEN count + 1 ELSE 0
  /\ Same /\ UNCHANGED <<mode, frames>>
EndTriple  == mode = "triple" /\ Closed /\ Give("VALUE", text, 0)

-----------------------------------------------------------------------------
(* pull_substitution                                                       *)

OpenSubstitution ==
  /\ Pulls({"$"}) /\ Then("{")
  /\ LET open == IF pos + 3 \in DOMAIN input /\ input[pos + 3] = "?" THEN <<"$", "{", "?">> ELSE <<"$", "{">>
     IN  frames' = Append(frames, Frame(open, <<>>)) /\ pos' = pos + Len(open)
  /\ Same /\ UNCHANGED <<mode, text, count, line>>

\* The loop is left before the saver is asked for the whitespace before the brace.
CloseSubstitution ==
  /\ Pulls({"}"}) /\ InSubst
  /\ GiveTo(Popped(frames), "SUBSTITUTION", Top.open \o TextOf(Top.tokens) \o <<"}">>, 1, 0)

\* Mutant: the end of the text is not noticed in a substitution.
Unnoticed == FALSE
Unclosed  == AtEnd /\ InSubst

\* Whatever is thrown: a substitution or a string left open, + without =, $
\* without {, a reserved character, a bad escape, a control character in quotes.
Rejected ==
  \/ /\ mode = "pull" /\ ~StartOfComment
     /\ \/ Unclosed
        \/ Sees({"+"}) /\ ~Then("=")
        \/ Sees({"$"}) /\ ~Then("{")
        \/ Sees(Reserved \ (DOMAIN Punctuation \cup {"\"", "$", "+"}))
  \/ mode = "number" /\ ~Sees(NumberChars) /\ NoText
  \/ mode = "quoted" /\ (AtEnd \/ Sees(Controls) \/ (Sees({"\\"}) /\ EscapeLength = 0))
  \/ mode = "triple" /\ AtEnd /\ count < 3
Throw == Rejected /\ Goes("failed", text, count, 0)

Next ==
  \/ Take \/ SaveWhitespace \/ EndOfInput \/ Newline \/ Punctuate \/ PlusEquals
  \/ HashComment \/ SlashComment \/ CommentChar \/ EndComment \/ StartNumber \/ NumberChar \/ EndNumber
  \/ StartUnquoted \/ UnquotedChar \/ EndUnquoted \/ StartQuoted \/ QuotedChar \/ Escape
  \/ EndQuoted \/ Third \/ TripleChar \/ EndTriple \/ OpenSubstitution \/ CloseSubstitution
  \/ Throw

-----------------------------------------------------------------------------
(* Properties *)

Read           == SubSeq(input, 1, pos)
FrameText(f)   == f.open \o TextOf(f.tokens) \o f.ws
FramesText(fs) == FlattenSeq([i \in DOMAIN fs |-> FrameText(fs[i])])
Written        == FramesText(frames) \o text
Visible(s)     == FlattenSeq([i \in DOMAIN s |-> IF s[i] \in Whitespace THEN <<>> ELSE <<s[i]>>])
NewLines(s)    == Cardinality({i \in DOMAIN s : s[i] = "\n"})

\* No substitution has whitespace before its closing brace.
Tight == \A i \in DOMAIN input : input[i] \in Whitespace =>
           i + 1 \notin DOMAIN input \/ input[i + 1] # "}" \/ ~\E j \in 1 .. i : input[j] = "$"

\* The texts of the tokens, and what is read and not yet a token, are the text
\* of the document to its last character, for the characters put back and the
\* whitespace saved are neither lost nor read twice.  (Only the whitespace
\* before the brace that closes a substitution is dropped.)
TextIsKept == IF Tight THEN Written = Read ELSE Visible(Written) = Visible(Read)

Waiting         == mode \in {"idle", "failed"}
Lists           == {frames[i].tokens : i \in DOMAIN frames}
IsWhitespace(t) == t.text # <<>> /\ AllIn(t.text, Whitespace)

\* Whitespace is part of a value exactly between two simple values; newlines,
\* comments and punctuation, however far back, do not count.
WhitespaceIsText ==
  Waiting => \A ts \in Lists : \A i \in DOMAIN ts :
    IsWhitespace(ts[i]) =>
      (ts[i].type = "UNQUOTED_TEXT" <=> i > 1 /\ IsSimple(ts[i - 1].type) /\ IsSimple(ts[i + 1].type))

\* The four characters after \u are read whatever they are, a newline too.
HiddenLine == \E i, j \in DOMAIN input :
  input[i] = "\\" /\ input[j] = "\n" /\ j \in i + 2 .. i + 5 /\ input[i + 1] = "u"

LinesTo(ts, n) == 1 + NewLines(TextOf(SubSeq(ts, 1, n)))
LineOf(t, own, next) == IF IsWhitespace(t) THEN next ELSE IF t.type = "NEWLINE" THEN own - 1 ELSE own
LinesAreRight(ts) ==
  \A i \in 2 .. Len(ts) : ts[i].line = LineOf(ts[i], LinesTo(ts, i), LinesTo(ts, i + 1))

\* A token is on the line on which it ends, after strings of several lines too;
\* whitespace is on that of the token after it, and before the end of a line
\* on the next one.  (A newline inside of an escape is not counted.)
LinesAreCounted == Waiting /\ ~HiddenLine => LinesAreRight(frames[1].tokens)
=============================================================================
