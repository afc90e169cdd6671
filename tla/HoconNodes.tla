------------------------------ MODULE HoconNodes ------------------------------
(***************************************************************************)
(* The immutable value tree of the library (hocon/config_value.hpp and     *)
(* internal/values).  A value is a record whose field t names its class.   *)
(*                                                                         *)
(* The program compares nodes by address.  Two nodes of the model are the  *)
(* same when their records are equal; every substitution carries an id     *)
(* that no other substitution of a document has, so two unresolved nodes   *)
(* are equal only when the program may share them, and resolved nodes are  *)
(* never told apart by the code.                                           *)
(***************************************************************************)
EXTENDS Integers, Sequences, SequencesExt

\* shared_value {nullptr}: "no value" (a missing key, a vanished ${?x}).
NoValue == [t |-> "none"]

\* A config_exception on its way to the caller of the operation.
Err(kind) == [t |-> "err", kind |-> kind]

IsErr(v)   == v.t = "err"
HasValue(v) == v.t # "none"

\* get_resolve_status() = RESOLVED; objects and lists cache it in a field.
Resolved(v) ==
  \/ v.t = "scalar"
  \/ v.t \in {"obj", "list"} /\ v.res

(***************************************************************************)
(* Scalars: text is the sequence of pieces of transform_to_string(), empty *)
(* for ""; quoted is FALSE only for a config_string made of unquoted text. *)
(***************************************************************************)
Scalar(text, quoted) == [t |-> "scalar", text |-> text, quoted |-> quoted]

Obj(kv, ign) ==
  [t |-> "obj", kv |-> kv, ign |-> ign,
   res |-> \A k \in DOMAIN kv : Resolved(kv[k])]

List(items) ==
  [t |-> "list", items |-> items,
   res |-> \A i \in DOMAIN items : Resolved(items[i])]

Ref(id, path, optional) ==
  [t |-> "ref", id |-> id, path |-> path, optional |-> optional]

IsObject(v)    == v.t \in {"obj", "mergeobj"}
IsDelayed(v)   == v.t \in {"merge", "mergeobj"}
Unmergeable(v) == v.t \in {"ref", "concat"} \/ IsDelayed(v)
IsContainer(v) == v.t \in {"obj", "list", "concat"} \/ IsDelayed(v)

(***************************************************************************)
(* config_delayed_merge: its constructor looks for nested merges in the    *)
(* parameter it has just moved from, so it accepts any non-empty stack.    *)
(***************************************************************************)
DelayedMerge(s) == IF s = <<>> THEN Err("bug") ELSE [t |-> "merge", stack |-> s]

\* config_delayed_merge_object does check the member it has initialized.
DelayedMergeObject(s) ==
  IF s = <<>> \/ ~IsObject(s[1]) \/ \E i \in DOMAIN s : IsDelayed(s[i])
  THEN Err("bug")
  ELSE [t |-> "mergeobj", stack |-> s]

\* config_concatenation: at least two pieces, not nested, one unmergeable.
Concatenation(p) ==
  IF \/ Len(p) < 2
     \/ \E i \in DOMAIN p : p[i].t = "concat"
     \/ \A i \in DOMAIN p : ~Unmergeable(p[i])
  THEN Err("bug")
  ELSE [t |-> "concat", pieces |-> p]

\* construct_delayed_merge is virtual: objects build the object flavour.
ConstructDelayedMerge(v, s) ==
  IF IsObject(v) THEN DelayedMergeObject(s) ELSE DelayedMerge(s)

\* unmergeable::unmerged_values().
UnmergedValues(v) == IF IsDelayed(v) THEN v.stack ELSE <<v>>

(***************************************************************************)
(* container::replace_child.  replace_child_in_list guards a missing child *)
(* only with an assert that can never fire, then writes through end().     *)
(***************************************************************************)
ReplaceInList(s, child, new) ==
  LET i == SelectInSeq(s, LAMBDA v : v = child)
  IN  IF HasValue(new) THEN [s EXCEPT ![i] = new] ELSE RemoveAt(s, i)

ReplaceInObject(o, child, new) ==
  LET hits == {k \in DOMAIN o.kv : o.kv[k] = child}
      k    == CHOOSE h \in hits : TRUE
  IN  IF hits = {} THEN Err("bug")
      ELSE IF HasValue(new) THEN Obj([o.kv EXCEPT ![k] = new], o.ign)
      ELSE Obj([h \in DOMAIN o.kv \ {k} |-> o.kv[h]], o.ign)

Members(v) == CASE v.t = "list"   -> v.items
                [] v.t = "concat" -> v.pieces
                [] IsDelayed(v)   -> v.stack

\* A delayed merge object turns into a plain delayed merge on the way.
ReplaceChild(parent, child, new) ==
  IF parent.t = "obj" THEN ReplaceInObject(parent, child, new)
  ELSE IF child \notin ToSet(Members(parent)) THEN Err("undefined")
  ELSE LET s == ReplaceInList(Members(parent), child, new)
       IN  IF s = <<>> THEN NoValue
           ELSE CASE parent.t = "list"   -> List(s)
                  [] parent.t = "concat" -> Concatenation(s)
                  [] IsDelayed(parent)   -> DelayedMerge(s)

-----------------------------------------------------------------------------
(***************************************************************************)
(* config_value::ignores_fallbacks() for the nodes that do not delegate;   *)
(* delayed merges ask the last layer of their stack.                       *)
(***************************************************************************)
IgnoresFallbacksHere(v) ==
  \/ v.t = "scalar"
  \/ v.t = "list" /\ v.res
  \/ v.t = "obj" /\ v.ign
=============================================================================
