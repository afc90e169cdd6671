--------------------------- MODULE DocumentEditing ---------------------------
(***************************************************************************)
(* simple_config_document and config_node_root: a parsed document that is  *)
(* edited again and again, every edit on the nodes the last one left.      *)
(***************************************************************************)
EXTENDS ConfigNodes, FiniteSets

CONSTANTS
  Documents,  \* [flavor, children], the children of the object at the root
  Paths,      \* what is set, removed and asked for
  Values,     \* what it is set to
  MaxEdits    \* bound: how often a document is edited

ASSUME MaxEditsAssumption == MaxEdits \in Nat

VARIABLES
  flavor,    \* the syntax
  children,  \* the nodes of the root object
  edit       \* history: the last edit, and the nodes before it

vars == <<flavor, children, edit>>

Init ==
  \E d \in Documents :
    /\ flavor = d.flavor /\ children = d.children
    /\ edit = [op |-> "none", n |-> 0]

CanEdit == edit.n < MaxEdits /\ edit.op # "hangs"

\* with_value_text, with_value
SetValue ==
  /\ CanEdit
  /\ \E path \in Paths, v \in Values :
       /\ SetValueEnds(children, path, v, flavor)
       /\ children' = SetValueOnPath(children, path, v, flavor)
       /\ edit' = [op |-> "set", n |-> edit.n + 1, path |-> path, value |-> v, before |-> children]
  /\ UNCHANGED flavor

\* indent_text inserts newlines until there is no memory left: no document is
\* returned.
SetValueHangs ==
  /\ CanEdit
  /\ \E path \in Paths, v \in Values :
       /\ ~SetValueEnds(children, path, v, flavor)
       /\ edit' = [op |-> "hangs", n |-> edit.n + 1, path |-> path, value |-> v, before |-> children]
  /\ UNCHANGED <<flavor, children>>

\* without_path
RemoveValue ==
  /\ CanEdit
  /\ \E path \in Paths :
       /\ children' = RemoveValueOnPath(children, path, flavor)
       /\ edit' = [op |-> "remove", n |-> edit.n + 1, path |-> path, before |-> children]
  /\ UNCHANGED flavor

Next == SetValue \/ SetValueHangs \/ RemoveValue

Spec == Init /\ [][Next]_vars

-----------------------------------------------------------------------------
(***************************************************************************)
(* What a document means: the settings of the config parser, later ones    *)
(* merged over earlier ones.                                               *)
(***************************************************************************)
Nothing      == [t |-> "nothing"]
Settings(kv) == [t |-> "settings", kv |-> kv]

RECURSIVE Over(_, _), Meaning(_), UnderPath(_, _)
Over(new, old) ==
  IF new.t # "settings" \/ old.t # "settings" THEN new
  ELSE Settings([k \in DOMAIN new.kv \cup DOMAIN old.kv |->
         IF k \notin DOMAIN old.kv THEN new.kv[k]
         ELSE IF k \notin DOMAIN new.kv THEN old.kv[k]
         ELSE Over(new.kv[k], old.kv[k])])

UnderPath(path, v) ==
  IF path = <<>> THEN v ELSE Settings([k \in {path[1]} |-> UnderPath(Tail(path), v)])

Meaning(v) ==
  IF v.t # "object" THEN v
  ELSE FoldLeft(LAMBDA old, f : Over(UnderPath(f.path, Meaning(f.value)), old),
                Settings([k \in {} |-> Nothing]), SelectSeq(v.children, IsField))

RECURSIVE At(_, _)
At(meaning, path) ==
  IF path = <<>> THEN meaning
  ELSE IF meaning.t # "settings" THEN Nothing
  ELSE IF path[1] \notin DOMAIN meaning.kv THEN Nothing
  ELSE At(meaning.kv[path[1]], Tail(path))

(***************************************************************************)
(* What the document parser reads: the grammar of parse_object, on the     *)
(* text of the nodes.                                                      *)
(***************************************************************************)
TextOf(nodes) ==
  FlattenSeq([i \in DOMAIN nodes |->
    IF IsField(nodes[i]) THEN nodes[i].lead \o <<[nodes[i] EXCEPT !.lead = <<>>]>> ELSE <<nodes[i]>>])

TypesIn(text, i, j) == {text[k].t : k \in i + 1 .. j - 1}
Commas(text, i, j)  == Cardinality({k \in i + 1 .. j - 1 : text[k] = Comma})

\* i and j are a field and the next one, or the ends of the text.
SeparatedWell(text, i, j, syntax) ==
  IF i = 0 THEN Commas(text, i, j) = 0
  ELSE IF j > Len(text) THEN Commas(text, i, j) <= IF syntax = "JSON" THEN 0 ELSE 1
  ELSE /\ Commas(text, i, j) <= 1
       /\ Commas(text, i, j) = 1 \/ (syntax = "CONF" /\ "newline" \in TypesIn(text, i, j))

RECURSIVE Readable(_, _, _)
Readable(nodes, syntax, is_root) ==
  LET braces == nodes # <<>> /\ nodes[1] = Open
      text   == TextOf(IF braces THEN SubSeq(nodes, 2, Len(nodes) - 1) ELSE nodes)
      fields == {i \in DOMAIN text : IsField(text[i])}
      ends   == fields \cup {0, Len(text) + 1}
  IN  /\ braces => Last(nodes) = Close
      /\ braces \/ (is_root /\ syntax = "CONF")
      /\ \A i, j \in ends : i < j /\ (\A k \in fields : ~(i < k /\ k < j)) => SeparatedWell(text, i, j, syntax)
      /\ \A i \in DOMAIN text : text[i] = Comment =>
           syntax = "CONF" /\ IF i = Len(text) THEN ~braces ELSE text[i + 1] = NewLine
      /\ \A i \in fields : text[i].value.t = "object" => Readable(text[i].value.children, syntax, FALSE)
      /\ syntax = "JSON" => \A i, j \in fields : /\ Len(text[i].path) = 1
                                                 /\ text[i].path = text[j].path => i = j

-----------------------------------------------------------------------------
(* Properties *)

Now    == Meaning(Object(children))
Before == Meaning(Object(edit.before))

RECURSIVE Occurrences(_, _)
\* How often something is set at the path or below it.
Occurrences(nodes, path) ==
  LET Of(node) == IF ~IsField(node) THEN 0
                  ELSE IF StartsWith(node.path, path) THEN 1
                  ELSE IF StartsWith(path, node.path) /\ node.value.t = "object"
                  THEN Occurrences(node.value.children, SubPath(path, Len(node.path)))
                  ELSE 0
  IN  FoldLeft(LAMBDA n, node : n + Of(node), 0, nodes)

\* Of several occurrences the last is in an object of its own: the one before it
\* stays, because the object is compared with itself to see whether it was set.
LastIsInAnObject(nodes, path) ==
  LET found == {i \in DOMAIN nodes : Occurrences(<<nodes[i]>>, path) > 0}
      last  == CHOOSE i \in found : \A j \in found : j <= i
  IN  Cardinality(found) > 1 /\ ~StartsWith(nodes[last].path, path)

\* An edit that ended is done.  What was set is there, as the config parser
\* reads the document, whatever else the path or a part of it was set to, and
\* it is there once: the duplicates are gone.  What was removed is gone, for
\* has_path and for the config parser, wherever it was set.
EditIsDone ==
  /\ edit.op = "set" =>
       /\ At(Now, edit.path) = Meaning(edit.value)
       /\ Occurrences(children, edit.path) = 1 \/ LastIsInAnObject(edit.before, edit.path)
  /\ edit.op = "remove" => ~HasValue(children, edit.path) /\ At(Now, edit.path) = Nothing

\* An edit changes nothing but its path.
OthersAreKept ==
  edit.op \in {"set", "remove"} =>
    \A p \in Paths : ~IsPrefix(edit.path, p) /\ ~IsPrefix(p, edit.path) => At(Now, p) = At(Before, p)

\* The edit sets something below a scalar.
BelowScalar ==
  /\ edit.op = "set"
  /\ \E n \in 1 .. Len(edit.path) - 1 :
       At(Before, SubSeq(edit.path, 1, n)).t \notin {"nothing", "settings"}

\* An edited document can be parsed again.  (In JSON, a value set below a
\* scalar makes a second setting of the same key.)
StaysReadable ==
  edit.op \in {"set", "remove"} /\ Readable(edit.before, flavor, TRUE) =>
    Readable(children, flavor, TRUE) \/ (flavor = "JSON" /\ BelowScalar)
=============================================================================
