------------------------------- MODULE Configs -------------------------------
(***************************************************************************)
(* config: the getters, the conversions they make, the operations that     *)
(* return another config, and the object underneath with the resolve       *)
(* status it has cached.  A path is a sequence of keys.                    *)
(***************************************************************************)
EXTENDS Durations, SequencesExt
P == INSTANCE Paths

CONSTANTS
  Objects,    \* the objects to begin with
  Values,     \* what with_value is given
  Paths,      \* the paths that are asked for and set
  Operations, \* how many configs are made from each other
  IntLimit    \* an int is -IntLimit .. IntLimit - 1

ASSUME WidthAssumption == IntLimit \in 1 .. LongLimit

VARIABLES
  object,     \* _object of the config at hand
  last,       \* history: the operation that made it, and the object before
  made        \* how many operations have been

vars == <<object, last, made>>

-----------------------------------------------------------------------------
(* Values                                                                  *)

\* A text is a whole number, if it starts with one, and a word.
Text(number, word) == [number |-> number, word |-> word]
Object(value, resolved) == [t |-> "object", value |-> value, resolved |-> resolved]
Number(n)   == [t |-> "number", n |-> n]
String(s)   == [t |-> "string", s |-> s]
Boolean(b)  == [t |-> "boolean", b |-> b]
List(vs)    == [t |-> "list", value |-> vs]
Null        == [t |-> "null"]
Reference   == [t |-> "reference"]   \* value_type() and unwrapped() throw
NoValue     == [t |-> "none"]        \* a null pointer

IsObject(v) == v.t = "object"

RECURSIVE IsResolved(_)
\* get_resolve_status: an object's is the one it was made with.
IsResolved(v) ==
  CASE v.t = "object"    -> v.resolved
    [] v.t = "list"      -> \A i \in DOMAIN v.value : IsResolved(v.value[i])
    [] v.t = "reference" -> FALSE
    [] OTHER             -> TRUE
AllResolved(value) == \A k \in DOMAIN value : IsResolved(value[k])

\* simple_config_object(origin, value)
NewObject(value) == Object(value, AllResolved(value))

-----------------------------------------------------------------------------
(* Operations on objects                                                   *)

Bound(key, v)     == [k \in {key} |-> v]
\* emplace does nothing where the key is.
Emplaced(f, key, v) == [k \in DOMAIN f \cup {key} |-> IF k \in DOMAIN f THEN f[k] ELSE v]

AtKey(v, key)    == NewObject(Bound(key, v))
Placed(v, keys)   == FoldLeft(LAMBDA inner, key : AtKey(inner, key), v, keys)
AtPath(v, path)   == Placed(AtKey(v, Last(path)), Reverse(P!Parent(path)))

WithValueAtKey(o, key, v) == Object(Emplaced(o.value, key, v), o.resolved)

RECURSIVE WithValue(_, _, _)
\* With an object at the first key, the rest of the path is set in o itself.
WithValue(o, path, v) ==
  LET key  == path[1]
      next == P!Remainder(path)
  IN  IF next = <<>> THEN WithValueAtKey(o, key, v)
      ELSE IF key \in DOMAIN o.value /\ IsObject(o.value[key])
      THEN WithValue(WithValueAtKey(o, key, o.value[key]), next, v)
      ELSE WithValueAtKey(o, key, AtPath(v, next))

\* Mutant: the status is that of the object before.
SameStatus(o, value)     == Object(value, o.resolved)
UpdatedStatus(o, value)  == NewObject(value)

RECURSIVE WithoutPath(_, _)
\* What was changed below is all that is left of an object.
WithoutPath(o, path) ==
  LET key  == path[1]
      next == P!Remainder(path)
  IN  IF key \in DOMAIN o.value /\ IsObject(o.value[key]) /\ next # <<>>
      THEN UpdatedStatus(o, Bound(key, WithoutPath(o.value[key], next)))
      ELSE IF next # <<>> \/ key \notin DOMAIN o.value THEN o
      ELSE UpdatedStatus(o, [k \in DOMAIN o.value \ {key} |-> o.value[k]])

\* with_only_path_or_null finds nothing at the last key, so nothing above it, and
\* follows a null pointer where there is no object.
RECURSIVE Follows(_, _)
Follows(o, path) ==
  P!Remainder(path) # <<>> =>
    path[1] \in DOMAIN o.value /\ IsObject(o.value[path[1]]) /\ Follows(o.value[path[1]], Tail(path))
WithOnlyPath(o, path) == Object(<<>>, TRUE)

-----------------------------------------------------------------------------
(* Getters: a value, or what is thrown.                                    *)

Fails(why) == [op |-> why]

Peek(o, key) == IF key \in DOMAIN o.value THEN o.value[key] ELSE NoValue
RECURSIVE PeekPath(_, _)
PeekPath(o, path) ==
  LET v == Peek(o, path[1])
  IN  IF P!Remainder(path) = <<>> THEN v ELSE IF IsObject(v) THEN PeekPath(v, Tail(path)) ELSE NoValue

HasPathOrNull(o, path) == PeekPath(o, path) # NoValue
\* Mutant: a null is a value.
HasAny(o, path)  == HasPathOrNull(o, path)
\* The type of a reference cannot be asked for: has_path throws.
HasPath(o, path) == PeekPath(o, path) \notin {NoValue, Null, Reference}

IsNumeric(s) == s.number # <<>> /\ s.word = ""
True         == {"true", "yes", "on"}
False        == {"false", "no", "off"}
IsTruth(s)   == s.number = <<>> /\ s.word \in True \cup False
\* transform_to_string
TextOf(v) == IF v.t = "number" THEN Text(<<v.n>>, "") ELSE Text(<<>>, IF v.b THEN "true" ELSE "false")

\* default_transformer::transform
Transform(v, type) ==
  CASE v.t = "string" /\ type = "number" /\ IsNumeric(v.s)  -> Value(Number(v.s.number[1]))
    [] v.t = "string" /\ type = "boolean" /\ IsTruth(v.s) -> Value(Boolean(v.s.word \in True))
    [] v.t \in {"number", "boolean"} /\ type = "string"     -> Value(String(TextOf(v)))
    [] v.t = "object" /\ type = "list"                      -> Fails("no_lists")
    [] v.t = "reference"                                    -> Fails("not_resolved")
    [] OTHER                                                -> Value(v)

\* find_key_or_null, and find_key which takes no null.
FindKeyOrNull(o, key, type) ==
  LET v  == Peek(o, key)
      as == IF type = "any" THEN Value(v) ELSE Transform(v, type)
  IN  IF v = NoValue THEN Fails("missing")
      ELSE IF type # "any" /\ as.op = "value" /\ as.v.t \notin {type, "null"} THEN Fails("wrong_type")
      ELSE as
ThrowIfNull(found) ==
  IF found.op # "value" THEN found
  ELSE CASE found.v = Null -> Fails("null") [] found.v = Reference -> Fails("not_resolved") [] OTHER -> found
FindKey(o, key, type) == ThrowIfNull(FindKeyOrNull(o, key, type))

\* Whatever fails in an object that is not resolved is put down to that.
Explained(o, found) == IF found.op = "value" \/ o.resolved THEN found ELSE Fails("not_resolved")
RECURSIVE FindOrNull(_, _, _)
FindOrNull(o, path, type) ==
  Explained(o,
    IF P!Remainder(path) = <<>> THEN FindKeyOrNull(o, path[1], type)
    ELSE LET next == FindKey(o, path[1], "object")
         IN  IF next.op = "value" THEN FindOrNull(next.v, Tail(path), type) ELSE next)
Find(o, path, type) == ThrowIfNull(FindOrNull(o, path, type))

\* get_int throws what is no int.
Unchecked(n) == Value(Wrapped(n, IntLimit))
IntRangeChecked(n) == IF Fits(n, IntLimit) THEN Value(n) ELSE Fails("out_of_range")
Then(found, Get(_)) == IF found.op = "value" THEN Get(found.v) ELSE found
GetLong(o, path)   == Then(Find(o, path, "number"), LAMBDA v : Value(v.n))
GetInt(o, path)    == Then(Find(o, path, "number"), LAMBDA v : IntRangeChecked(v.n))
GetBool(o, path)   == Then(Find(o, path, "boolean"), LAMBDA v : Value(v.b))
GetString(o, path) == Then(Find(o, path, "string"), LAMBDA v : Value(v.s))

\* get_homogeneous_unwrapped_list: what is no int is a long.
IsWhole(v, type) == v.t = "number" /\ (type = "int" => Fits(v.n, IntLimit))
GetListOf(o, path, type) ==
  Then(Find(o, path, "list"),
       LAMBDA v : IF ~IsResolved(v) THEN Fails("not_resolved")
                  ELSE IF \A i \in DOMAIN v.value : IsWhole(v.value[i], type)
                       THEN Value([i \in DOMAIN v.value |-> v.value[i].n]) ELSE Fails("wrong_type"))
GetIntList(o, path)  == GetListOf(o, path, "int")
GetLongList(o, path) == GetListOf(o, path, "long")

\* get_duration: a number is one of milliseconds, and so is one without a word.
GetDuration(o, path, unit) ==
  LET found == Find(o, path, "any")
  IN  CASE found.op # "value"     -> {found}
        [] found.v.t = "number"   -> Converted(found.v.n, "ms", unit)
        [] found.v.t = "string" /\ found.v.s.number # <<>> /\ UnitsOf(found.v.s.word) # {} ->
             UNION {Converted(found.v.s.number[1], units, unit) : units \in UnitsOf(found.v.s.word)}
        [] OTHER                  -> {Fails("bad_value")}

\* find_paths, from the root
RECURSIVE FindPaths(_, _)
FindPaths(parent, o) ==
  UNION {LET v == o.value[k]
             p == P!Prepend(<<k>>, parent)
         IN  CASE IsObject(v) -> FindPaths(p, v)
               [] v = Null    -> {}
               [] OTHER       -> {<<p, v>>} : k \in DOMAIN o.value}
EntrySet(o) == FindPaths(<<>>, o)

-----------------------------------------------------------------------------
Init == object \in Objects /\ last = [op |-> "made"] /\ made = 0

Makes(o, op, path, v) ==
  /\ made < Operations
  /\ made' = made + 1 /\ object' = o /\ last' = [op |-> op, path |-> path, v |-> v, before |-> object]

SetsValue     == \E p \in Paths, v \in Values : Makes(WithValue(object, p, v), "with_value", p, v)
RemovesPath   == \E p \in Paths : Makes(WithoutPath(object, p), "without_path", p, NoValue)
KeepsOnlyPath == \E p \in Paths : Follows(object, p) /\ Makes(WithOnlyPath(object, p), "with_only_path", p, NoValue)
PlacesAtPath  == \E p \in Paths : Makes(AtPath(object, p), "at_path", p, object)

Next == SetsValue \/ RemovesPath \/ KeepsOnlyPath \/ PlacesAtPath
Spec == Init /\ [][Next]_vars

-----------------------------------------------------------------------------
(* Properties *)

RECURSIVE HasReference(_)
HasReference(v) ==
  CASE v.t = "object" -> \E k \in DOMAIN v.value : HasReference(v.value[k])
    [] v.t = "list"   -> \E i \in DOMAIN v.value : HasReference(v.value[i])
    [] OTHER          -> v.t = "reference"
RECURSIVE ObjectsIn(_)
ObjectsIn(o) == {o} \cup UNION {ObjectsIn(o.value[k]) : k \in {x \in DOMAIN o.value : IsObject(o.value[x])}}

\* The status an object has cached is that of its values, whatever was set and
\* removed: resolve() returns an object that has it at once.  (What with_value
\* is given has no substitution in it.)
StatusIsRight == \A o \in ObjectsIn(object) : o.resolved <=> ~HasReference(o)

\* A config is a map from paths to values, whoever asks: a path exists if and
\* only if get_value finds something, the same that peeking does; and entry_set
\* has the paths of the values that are no objects.
PathsAndValuesAgree ==
  /\ \A p \in Paths :
       LET found == Find(object, p, "any")
           v     == PeekPath(object, p)
       IN  /\ HasPath(object, p) <=> found.op = "value"
           /\ found.op = "value" => found.v = v /\ (~IsObject(v) => <<p, v>> \in EntrySet(object))
  /\ \A e \in EntrySet(object) : e[2] # Reference => Find(object, e[1], "any") = Value(e[2])

\* The getters tell the same story: what is an int is the same long, and as a
\* string reads as the same number; a list of ints is the same list of longs.
GettersAgree ==
  \A p \in Paths :
    LET int == GetInt(object, p)
        ints == GetIntList(object, p)
        text == GetString(object, p)
    IN  /\ int.op = "value" => int = GetLong(object, p) /\ text = Value(Text(<<int.v>>, ""))
        /\ ints.op = "value" => ints = GetLongList(object, p)
        /\ GetBool(object, p).op = "value" => IsTruth(text.v) /\ GetInt(object, p).op # "value"

\* A duration is the exact one in the unit asked for, truncated, if it and its
\* seconds fit, however the units are written.  (One below zero that is no whole
\* second, or none of the unit, is refused instead, against what get_duration
\* promises.)
DurationIsExact ==
  \A p \in Paths, unit \in TimeUnits :
    LET v     == PeekPath(object, p)
        n     == IF v.t = "number" THEN v.n ELSE v.s.number[1]
        units == IF v.t = "number" THEN "ms" ELSE CHOOSE u \in UnitsOf(v.s.word) : TRUE
    IN  v.t = "number" \/ (v.t = "string" /\ v.s.number # <<>> /\ UnitsOf(v.s.word) # {}) =>
          /\ GetDuration(object, p, unit) = Converted(n, units, unit)
          /\ ConvertsExactly(n, units, unit)

\* "If the path already has a value, that value is replaced."  "A copy of the
\* config minus the specified path": what is elsewhere stays.  "A copy of the config
\* minus all paths except the one specified", which stays.
Unrelated(p, q) == ~IsPrefix(p, q) /\ ~IsPrefix(q, p)
OperationsAsDocumented ==
  /\ last.op = "with_value" => PeekPath(object, last.path) = last.v
  /\ last.op = "without_path" =>
       \A p \in Paths : Unrelated(p, last.path) => PeekPath(object, p) = PeekPath(last.before, p)
  /\ last.op = "with_only_path" => PeekPath(object, last.path) = PeekPath(last.before, last.path)
=============================================================================
