----------------------------- MODULE ConfigNodes -----------------------------
(***************************************************************************)
(* The node tree of a document and the edits of config_node_object.  A     *)
(* node is a token, a field or a value; the nodes of an object include its *)
(* braces, commas, newlines and comments.  Texts are left out, the layout  *)
(* is kept: it decides where a new setting goes and what separates it.     *)
(***************************************************************************)
EXTENDS Integers, Sequences, SequencesExt

Token(type) == [t |-> type]
Space   == Token("whitespace")
NewLine == Token("newline")
Comma   == Token("comma")
Open    == Token("open")
Close   == Token("close")
Comment == Token("comment")

\* lead is the layout a new setting brings along, inside of its own node.
Field(lead, path, value) == [t |-> "field", lead |-> lead, path |-> path, value |-> value]
Scalar(n)                == [t |-> "scalar", n |-> n]
Object(children)         == [t |-> "object", children |-> children]
NoValue                  == [t |-> "none"]

IsField(node)          == node.t = "field"
ReplaceValue(field, v) == [field EXCEPT !.value = v]
IsObjectField(node)    == IsField(node) /\ node.value.t = "object"
SubPath(path, n)       == SubSeq(path, n + 1, Len(path))
\* Mutant: the first keys are compared.
SameFirstKey(path, key) == Head(path) = Head(key)
StartsWith(path, key)   == IsPrefix(key, path)

-----------------------------------------------------------------------------
RECURSIVE HasValue(_, _)
\* Some field has the path, or one below it.
HasValue(children, path) ==
  \E i \in DOMAIN children :
    /\ IsField(children[i])
    /\ LET key == children[i].path
       IN  \/ StartsWith(key, path)
           \/ /\ StartsWith(path, key) /\ children[i].value.t = "object"
              /\ HasValue(children[i].value.children, SubPath(path, Len(key)))

RECURSIVE HasLines(_)
HasLines(v) ==
  v.t = "object" /\ \E i \in DOMAIN v.children :
    v.children[i] = NewLine \/ (IsObjectField(v.children[i]) /\ HasLines(v.children[i].value))

\* What indent_text inserts behind a newline is looked at next: if it is a
\* newline itself, it gets another one behind it, and so on without end.
IndentEnds(v, indentation) == indentation = NewLine => ~HasLines(v)

RECURSIVE IndentText(_, _)
\* Every line of a value inserted further in gets the indentation.  Only where
\* IndentEnds.
IndentText(v, indentation) ==
  IF v.t # "object" THEN v
  ELSE Object(FlattenSeq([i \in DOMAIN v.children |->
         LET node == v.children[i]
         IN  IF node.t = "newline" THEN <<node, indentation>>
             ELSE IF IsObjectField(node)
                  THEN <<ReplaceValue(node, IndentText(node.value, indentation))>>
             ELSE <<node>>]))

-----------------------------------------------------------------------------
(***************************************************************************)
(* change_value_on_path goes through the children from the last to the     *)
(* first.  acc: the children behind, whether one that stays was seen, and  *)
(* the value, NoValue once it is set: then what is left are duplicates.    *)
(***************************************************************************)
\* Whitespace and commas after a deleted setting go with it.
AfterDeleted(rest) ==
  LET kept == {i \in DOMAIN rest : rest[i].t \notin {"whitespace", "comma"}}
  IN  IF kept = {} THEN <<>>
      ELSE SubSeq(rest, CHOOSE i \in kept : \A j \in kept : i <= j, Len(rest))

Kept(acc, node) == [acc EXCEPT !.rest = <<node>> \o @]

\* In JSON, no comma stays at the end.
TrailingComma(node, acc, flavor) == flavor = "JSON" /\ ~acc.seen /\ node.t = "comma"

Deletes(key, path, v) ==
  \/ v = NoValue /\ key = path
  \/ StartsWith(key, path) /\ key # path

\* The value at the last occurrence of the path, indented like its line.
Replacement(children, i, value) ==
  IF i >= 3 /\ children[i - 1].t = "whitespace" THEN IndentText(value, children[i - 1]) ELSE value

RECURSIVE ChangeValueOnPath(_, _, _, _)
ChangeValueOnPath(children, path, value, flavor) ==
  LET Change(i, acc) ==
        LET node == children[i]
            key  == node.path
        IN  IF ~IsField(node)
            THEN IF TrailingComma(node, acc, flavor) THEN acc ELSE Kept(acc, node)
            ELSE IF Deletes(key, path, acc.value)
            THEN [acc EXCEPT !.rest = AfterDeleted(@)]
            ELSE IF key = path
            THEN [Kept(acc, ReplaceValue(node, Replacement(children, i, value)))
                    EXCEPT !.seen = TRUE, !.value = NoValue]
            ELSE IF StartsWith(path, key) /\ node.value.t = "object"
            \* The value stays set: the field is compared with itself.
            THEN [Kept(acc, ReplaceValue(node, Object(
                    ChangeValueOnPath(node.value.children, SubPath(path, Len(key)), acc.value, flavor))))
                    EXCEPT !.seen = TRUE]
            ELSE [Kept(acc, node) EXCEPT !.seen = TRUE]
  IN  FoldRight(Change, [i \in DOMAIN children |-> i],
                [rest |-> <<>>, seen |-> FALSE, value |-> value]).rest

-----------------------------------------------------------------------------
(***************************************************************************)
(* indentation: how the settings of the object are set off, by nothing, a  *)
(* space, a newline, or a newline and whitespace.                          *)
(***************************************************************************)
Indentation(children) ==
  LET newlines == {i \in DOMAIN children : children[i].t = "newline"}
      indented == \E i \in newlines : \E j \in i + 1 .. Len(children) - 1 :
                    children[j].t = "whitespace" /\ IsField(children[j + 1])
  IN  IF children = <<>> THEN <<>>
      ELSE IF newlines = {} THEN <<Space>>
      ELSE IF indented \/ Last(children) = Close THEN <<NewLine, Space>>
      ELSE <<NewLine>>

\* Where a setting goes that is added before the brace at i.
PlaceBefore(children, i, same_line) ==
  IF children[i - 1].t = "newline" THEN i - 1
  ELSE IF children[i - 1].t = "whitespace"
       THEN IF same_line THEN i - 1
            ELSE IF children[i - 2].t = "newline" THEN i - 2 ELSE i
  ELSE i

\* Mutant: the setting before gets no comma.
NeedsNoComma(children, i) == FALSE
NeedsComma(children, i) ==
  IsField(children[i]) /\ (i = Len(children) \/ children[i + 1].t # "comma")

RECURSIVE Inserted(_, _, _, _, _)
\* From i to the first child: the setting before the closing brace, then a
\* comma after the last setting that has none.
Inserted(children, i, setting, same_line, flavor) ==
  IF i = 0 THEN children
  ELSE IF (flavor = "JSON" \/ same_line) /\ NeedsComma(children, i)
  THEN InsertAt(children, i + 1, Comma)
  ELSE IF children[1] = Open /\ children[i] = Close
  THEN LET place == PlaceBefore(children, i, same_line)
       IN  Inserted(InsertAt(children, place, setting), place - 1, setting, same_line, flavor)
  ELSE Inserted(children, i - 1, setting, same_line, flavor)

\* A setting added to an object without braces comes last, on its own line.
Appended(children, setting) ==
  IF children # <<>> /\ Last(children) = NewLine THEN InsertAt(children, Len(children), setting)
  ELSE Append(children, setting)

RECURSIVE AddValueOnPath(_, _, _, _)
AddValueOnPath(children, path, value, flavor) ==
  LET indent    == Indentation(children)
      indented  == IF indent = <<>> THEN value ELSE IndentText(value, Last(indent))
      same_line == indent = <<>> \/ indent[1] # NewLine
      braces    == children # <<>> /\ children[1] = Open
      under     == {i \in DOMAIN children : IsObjectField(children[i])
                                            /\ StartsWith(path, children[i].path)}
      last      == CHOOSE i \in under : \A j \in under : j <= i
      empty     == <<Open>> \o (IF indent = <<>> THEN <<NewLine>> ELSE indent) \o <<Close>>
      setting   == Field(indent, <<path[1]>>,
                         IF Len(path) = 1 THEN indented
                         ELSE Object(AddValueOnPath(empty, Tail(path), indented, flavor)))
      separated == IF flavor = "JSON" \/ braces \/ same_line
                   THEN Inserted(children, Len(children), setting, same_line, flavor)
                   ELSE children
  IN  IF Len(path) > 1 /\ under # {}
      THEN [children EXCEPT ![last].value.children =
              AddValueOnPath(@, SubPath(path, Len(children[last].path)), value, flavor)]
      ELSE IF braces THEN separated ELSE Appended(separated, setting)

\* Mutant: a setting that is not there is not added.
SetExistingValue(children, path, value, flavor) == ChangeValueOnPath(children, path, value, flavor)

SetValueOnPath(children, path, value, flavor) ==
  LET changed == ChangeValueOnPath(children, path, value, flavor)
  IN  IF HasValue(changed, path) THEN changed ELSE AddValueOnPath(changed, path, value, flavor)

\* Whether set_value_on_path ends.  The braces of an object make its settings
\* stand behind whitespace, so only a root without braces has newlines to indent
\* with, whatever object below it the value is for.
SetValueEnds(children, path, value, flavor) ==
  LET changed == ChangeValueOnPath(children, path, value, flavor)
      indent  == Indentation(changed)
  IN  ~HasValue(changed, path) /\ indent # <<>> => IndentEnds(value, Last(indent))

RemoveValueOnPath(children, path, flavor) == ChangeValueOnPath(children, path, NoValue, flavor)
=============================================================================
