------------------------- MODULE MCDocumentEditing -------------------------
(***************************************************************************)
(* Small documents to edit.                                                *)
(***************************************************************************)
EXTENDS DocumentEditing

a == <<"a">>
b == <<"b">>
ab == <<"a", "b">>
c == <<"c">>

Braced(nodes) == Object(<<Open>> \o nodes \o <<Close>>)
One(path)     == Field(<<>>, path, Scalar(1))

\* { b : 1 } on one line, and on lines of its own.
InLine  == Braced(<<Space, One(b), Space>>)
OnLines == Braced(<<NewLine, Space, One(b), NewLine, Space>>)

Heads == {<<>>, <<NewLine, Space>>}
Separators == {<<Comma>>, <<Comma, Space>>, <<NewLine>>,
               <<Space, Comment, NewLine>>, <<Comma, NewLine, Space>>}
Tails == {<<>>, <<Space>>, <<NewLine>>, <<Comma>>}

Fields == {One(a), One(ab), One(c), Field(<<>>, a, InLine), Field(<<>>, a, OnLines)}

Bodies ==
  {h \o t : h \in Heads, t \in {<<>>, <<NewLine>>}}
  \cup {h \o <<f>> \o t : h \in Heads, f \in Fields, t \in Tails}
  \cup {h \o <<f>> \o s \o <<g>> \o t : h \in Heads, f, g \in Fields, s \in Separators, t \in Tails}

\* A setting is hidden by a later one that makes its parent a scalar.
HidesSettings(nodes) ==
  \E i, j \in DOMAIN nodes :
    /\ i < j /\ IsField(nodes[i]) /\ IsField(nodes[j]) /\ nodes[j].value.t = "scalar"
    /\ StartsWith(nodes[i].path, nodes[j].path)
    /\ nodes[i].path # nodes[j].path \/ nodes[i].value.t = "object"

AllDocuments ==
  {d \in {[flavor |-> fl, children |-> IF br THEN <<Open>> \o body \o <<Close>> ELSE body] :
            fl \in {"JSON", "CONF"}, br \in BOOLEAN, body \in Bodies} :
     Readable(d.children, d.flavor, TRUE) /\ ~HidesSettings(d.children)}

ThePaths  == {a, ab, <<"a", "c">>, c}
TheValues == {Scalar(2), OnLines}

-----------------------------------------------------------------------------
(***************************************************************************)
(* Where the code does not do what config_document.hpp says.               *)
(***************************************************************************)
\* A value of several lines is never added to a document without braces whose
\* lines are not indented.
ASSUME NeverAdded == ~SetValueEnds(<<One(a), NewLine>>, c, OnLines, "CONF")

\* has_path finds a setting that a later one hides.
Hidden == <<One(ab), NewLine, One(a)>>
ASSUME HiddenIsFound == HasValue(Hidden, ab) /\ At(Meaning(Object(Hidden)), ab) = Nothing
=============================================================================
