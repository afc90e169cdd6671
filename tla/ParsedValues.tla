----------------------------- MODULE ParsedValues -----------------------------
(***************************************************************************)
(* The values the config parser builds, reduced to their shape and to the  *)
(* comments their origins carry.  parts are the fields of an object, the   *)
(* elements of a list, the pieces of a concatenation or a merge, and the   *)
(* path of a reference; ign says that an object takes no more fallbacks.   *)
(***************************************************************************)
EXTENDS Integers, Sequences, SequencesExt

Value(t, parts, comments) == [t |-> t, parts |-> parts, comments |-> comments, ign |-> FALSE]

Simple        == Value("simple", <<>>, <<>>)
Object(kv)    == Value("object", kv, <<>>)
List(s)       == Value("list", s, <<>>)
NoValue       == Value("none", <<>>, <<>>)
Error         == Value("error", <<>>, <<>>)

HasValue(v)   == v.t # "none"
IsError(v)    == v.t = "error"

Unmergeable(v) == v.t \in {"reference", "concatenation", "merge"}

\* simple_config_origin: what is given is dropped when it is there already.
PrependComments(v, comments) ==
  IF comments = v.comments THEN v ELSE [v EXCEPT !.comments = comments \o @]
AppendComments(v, comments) ==
  IF comments = v.comments THEN v ELSE [v EXCEPT !.comments = @ \o comments]

\* with_comments gives the origin back unchanged when there is nothing to set.
WithComments(v, comments) ==
  IF comments = <<>> THEN v ELSE [v EXCEPT !.comments = comments]

\* create_value_under_path: { a : { b : value } } for the path a.b.  Every
\* object takes its origin from the value, without the comments (it says).
ValueUnderPath(path, value) ==
  LET origin == WithComments(value, <<>>)
  IN  FoldRight(LAMBDA key, v : Value("object", [k \in {key} |-> v], origin.comments), path, value)

\* += in front of a value: the reference, the list around the value, and
\* their concatenation all have the origin of the value.
Appended(path, v) ==
  Value("concatenation", <<Value("reference", path, v.comments), Value("list", <<v>>, v.comments)>>,
        v.comments)
===============================================================================
