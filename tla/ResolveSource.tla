---------------------------- MODULE ResolveSource ----------------------------
(***************************************************************************)
(* resolve_source: the root object substitutions are looked up in, and the *)
(* path of containers from the value being resolved up to that root (the   *)
(* innermost first; empty when the value is not under the root).           *)
(***************************************************************************)
EXTENDS HoconNodes

CONSTANT IgnoresFallbacks(_)   \* config_value::ignores_fallbacks

Source(root, path) == [t |-> "source", root |-> root, path |-> path]

Empty == Obj([k \in {} |-> NoValue], FALSE)

RootMustBeObj(v) == IF IsObject(v) THEN v ELSE Empty

\* push_parent: parents count only once the root itself is on the path.  A
\* list is a null config_object, as the root is after some replacements.
PushParent(src, parent) ==
  IF \/ src.path # <<>>
     \/ src.root = (IF IsObject(parent) THEN parent ELSE NoValue)
  THEN [src EXCEPT !.path = <<parent>> \o @]
  ELSE src

ResetParents(src) == [src EXCEPT !.path = <<>>]

ContainerOrNone(v) == IF IsContainer(v) THEN v ELSE NoValue

(***************************************************************************)
(* resolve_source::replace: rebuild every parent up to the root around the *)
(* replacement of the innermost one; what is no longer a container leaves  *)
(* the path.                                                               *)
(***************************************************************************)
Replace(path, new) ==
  LET rebuild(built, i) ==
        IF i = 1 THEN <<new>>
        ELSE IF IsErr(Last(built)) THEN built
        ELSE Append(built, ReplaceChild(path[i], path[i - 1], ContainerOrNone(Last(built))))
  IN  FoldLeft(rebuild, <<>>, [i \in DOMAIN path |-> i])

(***************************************************************************)
(* replace_current_parent(old, new).  The root of the new source is the    *)
(* rebuilt outermost parent, a null pointer when that is not an object.    *)
(***************************************************************************)
ReplaceCurrentParent(src, old, new) ==
  LET rebuilt == Replace(src.path, new)
      path    == SelectSeq(rebuilt, IsContainer)
  IN  IF old = new THEN src
      ELSE IF src.path = <<>>
      THEN IF old = src.root THEN Source(RootMustBeObj(new), <<>>) ELSE Err("bug")
      ELSE IF IsErr(Last(rebuilt)) THEN Last(rebuilt)
      ELSE IF path = <<>> THEN Source(Empty, <<>>)
      ELSE Source(IF IsObject(Last(path)) THEN Last(path) ELSE NoValue, path)

\* replace_within_current_parent(old, new).
ReplaceWithinCurrentParent(src, old, new) ==
  IF old = new THEN src
  ELSE IF src.path = <<>>
  THEN IF old = src.root /\ IsContainer(new) THEN Source(RootMustBeObj(new), <<>>)
       ELSE Err("bug")
  ELSE LET parent    == src.path[1]
           newParent == ReplaceChild(parent, old, new)
       IN  IF IsErr(newParent) THEN newParent
           ELSE ReplaceCurrentParent(src, parent, ContainerOrNone(newParent))

-----------------------------------------------------------------------------
(***************************************************************************)
(* config_delayed_merge_object::attempt_peek_with_partial_resolve: the     *)
(* first layer that decides whether the key is known.                      *)
(***************************************************************************)
PeekLayer(layer, key) ==
  CASE layer.t = "obj" ->
         IF key \in DOMAIN layer.kv /\ IgnoresFallbacks(layer.kv[key])
         THEN layer.kv[key] ELSE Err("undecided")
    [] Unmergeable(layer)                -> Err("not_resolved")
    [] layer.t = "list" /\ ~layer.res    -> Err("undecided")
    [] OTHER                             -> NoValue

PeekMerge(s, key) ==
  LET seen == {i \in DOMAIN s : PeekLayer(s[i], key) # Err("undecided")}
  IN  IF seen = {} THEN Err("bug")
      ELSE PeekLayer(s[CHOOSE i \in seen : \A j \in seen : i <= j], key)

Peek(o, key) ==
  IF o.t = "mergeobj" THEN PeekMerge(o.stack, key)
  ELSE IF key \in DOMAIN o.kv THEN o.kv[key]
  ELSE NoValue

(***************************************************************************)
(* resolve_source::find_in_object(obj, path, parents): the value at the    *)
(* path and the objects walked through, the innermost first.               *)
(***************************************************************************)
FindInObject(obj, path) ==
  LET step(acc, key) ==
        IF IsErr(acc.v) THEN acc
        ELSE IF ~IsObject(acc.v) THEN [acc EXCEPT !.v = NoValue]
        ELSE [v |-> Peek(acc.v, key), parents |-> <<acc.v>> \o acc.parents]
  IN  FoldLeft(step, [v |-> obj, parents |-> <<>>], path)
=============================================================================
