----------------------------- MODULE MCPathParser -----------------------------
(***************************************************************************)
(* Texts for Tokenizer and PathParser: every sequence of a few pieces, and *)
(* what paths of a few short keys are rendered as.                         *)
(***************************************************************************)
EXTENDS PathParser

Rows(S, n)   == UNION {[1 .. k -> S] : k \in 0 .. n}
Pieces(S, n) == {FlattenSeq(s) : s \in Rows(S, n)}

-----------------------------------------------------------------------------
(* Documents *)

\* Every kind of character, for what may follow what.
Mixed == {<<"a">>, <<" ">>, <<"\n">>, <<"#">>, <<"/">>, <<"\"">>, <<"1">>, <<"+">>, <<"=">>,
          <<"$", "{">>, <<"}">>, <<"!">>, <<"high">>, <<"t", "r", "u", "e">>}
\* Whitespace between values, across lines, comments and punctuation.
Layout == {<<"a">>, <<" ">>, <<"\n">>, <<"=">>, <<"/", "/">>}
\* Quotes in a row, and strings over several lines.
Quotes == {<<"\"">>, <<"\"", "\"", "\"">>, <<"\n">>, <<"a">>}
\* Escapes, the undefined ones too and one with a newline in it, and what may
\* not be in quotes.
Escaped == {<<"\"">>, <<"\\">>, <<"\\", "u">>, <<"0", "0", "0", "0">>, <<"0", "x", "0", "0">>, <<"n", "0", "0", "0">>,
            <<"\n", "0", "0", "0">>}
\* Substitutions in each other.
Substs == {<<"$", "{">>, <<"$", "{", "?">>, <<"}">>, <<" ">>, <<"a">>}
\* Numbers and what looks like one; three digits do not fit.
Numbers == {<<"1">>, <<"-">>, <<".">>, <<"e">>, <<"+">>}

Texts == Pieces(Mixed, 3) \cup Pieces(Layout, 5) \cup Pieces(Quotes, 5) \cup Pieces(Escaped, 4)
           \cup Pieces(Substs, 5) \cup Pieces(Numbers, 4)

-----------------------------------------------------------------------------
(* Path expressions *)

\* Periods, whitespace and quotes.
Quoted == {<<"a">>, <<".">>, <<" ">>, <<"\"">>, <<"\"", "\"">>}
\* What is read as several tokens, and what is no path.
Tokens == {<<"a">>, <<".">>, <<" ">>, <<"1">>, <<"-">>, <<"t", "r", "u", "e">>, <<"\n">>, <<"#">>, <<"{">>, <<"$", "{">>}
\* Escapes.
Escapes == {<<"\"">>, <<"\\">>, <<"\\", "\"">>, <<"n">>, <<".">>}

KeyChars == {"a", "1", "-", "_", ".", "\"", "\\", "\n", " "}
Keys(n)  == Rows(KeyChars, n)
Rendered == {<<k>> : k \in Keys(2)} \cup {<<k, l>> : k, l \in Keys(1)}

\* A path that is rendered, as in entry_set, reads as the same path; a key that
\* is rendered as in an object, in quotes if it must be, as the same key.
RenderedIsRead ==
  /\ \A p \in Rendered : Ended /\ input = P!Render(p) => outcome = "done" /\ Path = p
  /\ \A k \in Keys(2) : Ended /\ input = P!RenderUnquotedIfPossible(k) => outcome = "done" /\ Path = <<k>>

Paths == Pieces(Quoted, 5) \cup Pieces(Tokens, 3) \cup Pieces(Escapes, 4)
           \cup {P!Render(p) : p \in Rendered} \cup {P!RenderUnquotedIfPossible(k) : k \in Keys(2)}
=============================================================================
