----------------------------- MODULE ParsedMerge -----------------------------
(***************************************************************************)
(* with_fallback and concatenate on the values of ParsedValues, with the   *)
(* merging of the comments of origins.                                     *)
(***************************************************************************)
EXTENDS ParsedValues

RECURSIVE IsResolved(_)
IsResolved(v) ==
  ~Unmergeable(v) /\ \A k \in DOMAIN v.parts : IsResolved(v.parts[k])

RECURSIVE IgnoresFallbacks(_)
IgnoresFallbacks(v) ==
  CASE v.t = "merge"                        -> IgnoresFallbacks(Last(v.parts))
    [] v.t = "object"                       -> v.ign
    [] v.t \in {"reference", "concatenation"} -> FALSE
    [] v.t \in {"simple", "list"}            -> IsResolved(v)

\* simple_config_origin::merge_two.
MergedComments(a, b) == IF a = b THEN a ELSE a \o b

Delayed(layers) ==
  Value("merge", layers, FoldLeft(MergedComments, layers[1].comments,
                                  [i \in DOMAIN Tail(layers) |-> Tail(layers)[i].comments]))

\* config_delayed_merge_object: it cannot be merged with an object.
IsDelayedObject(v) == v.t = "merge" /\ v.parts[1].t = "object"

RECURSIVE KeysChange(_, _)
\* Merging f into v adds or changes a key: the value of the key gives way.
KeysChange(v, f) ==
  \E k \in DOMAIN f.parts :
    k \in DOMAIN v.parts =>
      LET below == v.parts[k]
      IN  /\ ~IgnoresFallbacks(below)
          /\ below.t = "object" /\ f.parts[k].t = "object" =>
               f.parts[k].ign \/ KeysChange(below, f.parts[k])

RECURSIVE with_fallback(_, _)
with_fallback(v, f) ==
  LET keys   == DOMAIN v.parts \cup DOMAIN f.parts
      kept   == [k \in keys |->
                   CASE k \notin DOMAIN v.parts -> f.parts[k]
                     [] k \notin DOMAIN f.parts -> v.parts[k]
                     [] k \in DOMAIN v.parts \cap DOMAIN f.parts ->
                          with_fallback(v.parts[k], f.parts[k])]
      origin == IF KeysChange(v, f) THEN MergedComments(v.comments, f.comments) ELSE v.comments
      failed == \E k \in keys : IsError(kept[k])
  IN  CASE IgnoresFallbacks(v)                          -> v
        [] ~IgnoresFallbacks(v) /\ Unmergeable(f)       ->
             Delayed(<<v>> \o IF f.t = "merge" THEN f.parts ELSE <<f>>)
        [] v.t = "object" /\ ~v.ign /\ f.t = "object"   ->
             IF failed THEN Error ELSE [Value("object", kept, origin) EXCEPT !.ign = f.ign]
        [] IsDelayedObject(v) /\ ~IgnoresFallbacks(v) /\ f.t = "object" -> Error
        [] OTHER -> IF IsResolved(v) THEN [v EXCEPT !.ign = TRUE] ELSE Delayed(<<v, f>>)

\* config_concatenation::concatenate as the parser calls it: the pieces are no
\* substitutions, and simple ones are quoted.
JoinedPair(left, right) ==
  CASE left.t = "object" /\ right.t = "object" -> with_fallback(right, left)
    [] left.t = "list" /\ right.t = "list"     ->
         Value("list", left.parts \o right.parts, MergedComments(left.comments, right.comments))
    [] left.t = "simple" /\ right.t = "simple" ->
         Value("simple", <<>>, MergedComments(left.comments, right.comments))
    [] OTHER                                   -> Error

concatenate(pieces) ==
  FoldLeft(LAMBDA a, b : IF IsError(a) THEN a ELSE JoinedPair(a, b), Head(pieces), Tail(pieces))
==============================================================================
