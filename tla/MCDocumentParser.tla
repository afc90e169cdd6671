--------------------------- MODULE MCDocumentParser ---------------------------
(***************************************************************************)
(* Vocabularies for DocumentParser, and the grammar of documents.          *)
(***************************************************************************)
EXTENDS DocumentParser

Vocabulary(words, max) == [words |-> words, max |-> max]
Texts == {
  Vocabulary({"k1", "comma", "newline", "open_curly", "close_curly", "open_square", "close_square", "colon"}, 6),
  Vocabulary({"k1", "comma", "colon", "open_curly", "close_curly"}, 8),
  Vocabulary({"k1", "ignored", "newline", "comment", "comma", "open_square", "close_square"}, 6),
  Vocabulary({"k1", "text", "ignored", "space", "subst", "newline", "equals", "open_curly", "close_curly"}, 6),
  Vocabulary({"k2", "number", "lines", "dots", "comma", "newline", "plus_equals", "open_square", "close_square"}, 5),
  Vocabulary({"include", "file_open", "close_paren", "k1", "ignored", "newline", "equals"}, 6)}

-----------------------------------------------------------------------------
(***************************************************************************)
(* The grammar: where in the words s a thing that starts at i may end.     *)
(***************************************************************************)
RECURSIVE After(_, _), Values(_, _), Concats(_, _), Items(_, _, _), Members(_, _), KeyEnd(_, _)

\* The first word from i on that is no layout.
After(s, i) == IF s[i] \in Layout THEN After(s, i + 1) ELSE i

\* What separates two elements: a comma, or in CONF a newline.
Gaps(s, i) ==
  {j \in i + 1 .. Len(s) :
     LET commas == {k \in i .. j - 1 : s[k] = "comma"}
     IN  /\ \A k \in i .. j - 1 : s[k] \in Layout \cup {"comma"}
         /\ Cardinality(commas) = 1 \/ (flavor = "CONF" /\ commas = {} /\ \E k \in i .. j - 1 : s[k] = "newline")}

Values(s, i) ==
  CASE s[i] \in {"open_curly", "open_square"} ->
         LET body == IF s[i] = "open_curly" THEN Items("member", s, After(s, i + 1)) ELSE Items("element", s, After(s, i + 1))
         IN  {j + 1 : j \in {k \in body \cup {After(s, i + 1)} : s[k] = IF s[i] = "open_curly" THEN "close_curly" ELSE "close_square"}}
    [] IsSimple(s[i]) /\ (flavor = "JSON" => s[i] \in Strings \cup {"number"}) -> {i + 1}
    [] OTHER -> {}

Concats(s, i) ==
  LET ends == Values(s, i)
      on(j) == IF s[j] = "ignored" THEN j + 1 ELSE j
  IN  IF flavor = "JSON" THEN ends ELSE ends \cup UNION {Concats(s, on(j)) : j \in ends}

KeyEnd(s, i) == IF s[i] \in KeyWords THEN KeyEnd(s, i + 1) ELSE i
Members(s, i) ==
  LET k == IF flavor = "JSON" THEN i + 1 ELSE KeyEnd(s, i)
      a == After(s, k)
      quoted == After(s, i + 1)
      name == After(s, quoted + 1)
  IN  IF s[i] = "include" /\ flavor # "JSON"
      THEN CASE s[quoted] \in Strings -> {quoted + 1}
             [] s[quoted] = "file_open" /\ s[name] \in Strings /\ s[After(s, name + 1)] = "close_paren" -> {After(s, name + 1) + 1}
             [] OTHER -> {}
      ELSE IF k = i \/ (\E j \in i .. k - 1 : s[j] \in NoPath) \/ (flavor = "JSON" /\ s[i] \notin Strings) THEN {}
      ELSE IF flavor # "JSON" /\ s[a] = "open_curly" THEN Values(s, a)
      ELSE IF s[a] = "colon" \/ (flavor # "JSON" /\ s[a] \in Separators) THEN Concats(s, After(s, a + 1))
      ELSE {}

\* One or more members or elements, up to what closes them.
Items(kind, s, i) ==
  LET ends == IF kind = "member" THEN Members(s, i) ELSE Concats(s, i)
  IN  UNION {{After(s, j)}
              \cup UNION {(IF flavor = "JSON" THEN {} ELSE {After(s, g)}) \cup Items(kind, s, After(s, g))
                            : g \in Gaps(s, j)} : j \in ends}

InGrammar(s, fn) ==
  LET i     == After(s, 1)
      roots == IF s[i] \in {"open_curly", "open_square"} THEN {After(s, j) : j \in Values(s, i)}
               ELSE IF flavor = "JSON" THEN {} ELSE Items("member", s, i) \cup {i}
  IN  Len(s) \in IF fn = "parse" THEN roots ELSE IF s[1] \in Layout THEN {} ELSE Concats(s, 1)

\* What is accepted is a document, or a single value, by the grammar; what is
\* refused, with an error or for a key that is no path, is none, and the token
\* it is refused at does not only want closing.
Endings == {<<>>, <<"end">>, <<"close_curly", "end">>, <<"close_square", "end">>}
OnlyTheGrammar ==
  /\ Succeeded => InGrammar(Words, IF ctl.v.k = "document" THEN "parse" ELSE "parse_single_value")
  /\ ctl.op = "crash" \/ (ctl.op = "throw" /\ ctl.at.w # "duplicate") =>
       \A e \in Endings : LET s == Words \o e
                         IN  SelectInSeq(s, LAMBDA w : w = "end") = Len(s) => ~InGrammar(s, stack[1].fn)
=============================================================================
