------------------------------- MODULE Resolver -------------------------------
(***************************************************************************)
(* Substitution resolution: resolve_context::resolve and the               *)
(* resolve_substitutions of every value class, as a machine with an        *)
(* explicit call stack.  One action is what the code does between two      *)
(* calls of resolve.  Exceptions unwind one frame at a time.               *)
(*                                                                         *)
(* The recursive merge algebra is a parameter (HoconMerge gives it), so    *)
(* what is proved of this module holds for any value algebra.              *)
(***************************************************************************)
EXTENDS ResolveSource, Stacks, FiniteSets

CONSTANTS
  Queries,              \* [value, root, options]: what to resolve, against which root
  Env,                  \* env_variables_as_config_object()
  WithFallback(_, _),   \* config_value::with_fallback
  MergedStack(_),       \* with_fallback over a sequence of layers
  Consolidate(_)        \* config_concatenation::consolidate

VARIABLES
  query,    \* the arguments of the outermost call
  stack,    \* activation frames, the innermost last
  ctl,      \* the call, return or exception in progress
  reused    \* history: a moved-from resolve_context was used again

vars == <<query, stack, ctl, reused>>

\* config_resolve_options: get_use_system_environment, get_allow_unresolved.
UseEnv          == query.options.useEnv
AllowUnresolved == query.options.allowUnresolved

-----------------------------------------------------------------------------
(***************************************************************************)
(* resolve_context: a value, copied at every change.  Only memoize keeps   *)
(* the memos; markers, restrictions and removals start without any.        *)
(***************************************************************************)
Context(path, markers) ==
  [restrict |-> path, markers |-> markers, memos |-> [k \in {} |-> NoValue]]

\* What is left of a context after move(): empty vector, null path pointers.
MovedFrom == Context(<<>>, {})

RestrictTo(ctx, path) ==
  IF path = ctx.restrict THEN ctx ELSE Context(path, ctx.markers)

Restricted(ctx)         == ctx.restrict # <<>>

\* Mutants: the copy of the markers is forgotten, or nothing is removed.
AddOnlyMarker(ctx, ref) == Context(ctx.restrict, {ref})
KeepMarker(ctx, ref)    == ctx

AddMarker(ctx, ref)     == Context(ctx.restrict, ctx.markers \cup {ref})
RemoveMarker(ctx, ref)  == Context(ctx.restrict, ctx.markers \ {ref})

Memoize(ctx, key, v) ==
  IF key \in DOMAIN ctx.memos THEN ctx
  ELSE [ctx EXCEPT !.memos = [k \in DOMAIN @ \cup {key} |-> IF k = key THEN v ELSE @[k]]]

\* The restricted lookup searches the full key again, so this is all of it.
Cached(ctx, v) ==
  /\ <<v, <<>>>> \in DOMAIN ctx.memos
  /\ HasValue(ctx.memos[<<v, <<>>>>])

-----------------------------------------------------------------------------
Frame(fn, v, src, ctx, at, todo, acc) ==
  [fn |-> fn, v |-> v, src |-> src, ctx |-> ctx, at |-> at, todo |-> todo, acc |-> acc]

Call(v, src, ctx)  == [op |-> "resolve", v |-> v, src |-> src, ctx |-> ctx]
Subst(v, src, ctx) == [op |-> "subst", v |-> v, src |-> src, ctx |-> ctx]
Continue(ctx)      == [op |-> "continue", ctx |-> ctx]
Return(ctx, v)     == [op |-> "return", ctx |-> ctx, v |-> v]
Throw(kind)        == [op |-> "throw", kind |-> kind]

ReturnOrThrow(ctx, v) == IF IsErr(v) THEN Throw(v.kind) ELSE Return(ctx, v)

Top        == stack[Len(stack)]
Pop        == Popped(stack)
Push(f)    == stack' = Append(stack, f)
SetTop(f)  == stack' = Retopped(stack, f)

Running(op, fn) == ctl.op = op /\ stack # <<>> /\ Top.fn = fn

Init ==
  /\ query \in Queries
  /\ stack = <<>>
  /\ ctl = Call(query.value, Source(query.root, <<>>), Context(<<>>, {}))
  /\ reused = FALSE

-----------------------------------------------------------------------------
(* resolve_context::resolve *)

MemoHit ==
  /\ ctl.op = "resolve"
  /\ Cached(ctl.ctx, ctl.v)
  /\ ctl' = Return(ctl.ctx, ctl.ctx.memos[<<ctl.v, <<>>>>])
  /\ UNCHANGED <<query, stack, reused>>

CycleDetected ==
  /\ ctl.op = "resolve"
  /\ ~Cached(ctl.ctx, ctl.v)
  /\ ctl.v \in ctl.ctx.markers
  /\ ctl' = Throw("not_possible_to_resolve")
  /\ UNCHANGED <<query, stack, reused>>

EnterResolve ==
  /\ ctl.op = "resolve"
  /\ ~Cached(ctl.ctx, ctl.v)
  /\ ctl.v \notin ctl.ctx.markers
  /\ Push(Frame("resolve", ctl.v, ctl.src, ctl.ctx, 0, {}, NoValue))
  /\ ctl' = Subst(ctl.v, ctl.src, ctl.ctx)
  /\ UNCHANGED <<query, reused>>

LeaveResolve ==
  /\ Running("return", "resolve")
  /\ LET full       == <<Top.v, <<>>>>
         restricted == <<Top.v, Top.ctx.restrict>>
     IN  ctl' = IF \/ ~HasValue(ctl.v)
                   \/ Resolved(ctl.v)
                   \/ AllowUnresolved /\ ~Restricted(Top.ctx)
                THEN Return(Memoize(ctl.ctx, full, ctl.v), ctl.v)
                ELSE IF Restricted(Top.ctx)
                THEN Return(Memoize(ctl.ctx, restricted, ctl.v), ctl.v)
                ELSE Throw("bug")
  /\ stack' = Pop
  /\ UNCHANGED <<query, reused>>

-----------------------------------------------------------------------------
(* Values with nothing to do: scalars, resolved containers, and a list     *)
(* under a restriction (a path cannot go through a list).                  *)

SubstUnchanged ==
  /\ ctl.op = "subst"
  /\ Resolved(ctl.v) \/ (ctl.v.t = "list" /\ Restricted(ctl.ctx))
  /\ ctl' = Return(ctl.ctx, ctl.v)
  /\ UNCHANGED <<query, stack, reused>>

-----------------------------------------------------------------------------
(* simple_config_object: modify_may_throw with the resolve_modifier.  The  *)
(* map is unordered, so the children come in any order.                    *)

\* Under a restriction only the child on the path, and only if it goes on.
ChildrenToResolve(v, path) ==
  CASE path = <<>>   -> DOMAIN v.kv
    [] Len(path) = 1 -> {}
    [] Len(path) > 1 -> DOMAIN v.kv \cap {path[1]}

SubstObject ==
  /\ ctl.op = "subst"
  /\ ctl.v.t = "obj" /\ ~ctl.v.res
  /\ Push(Frame("object", ctl.v, PushParent(ctl.src, ctl.v), ctl.ctx, "",
                ChildrenToResolve(ctl.v, ctl.ctx.restrict), [k \in {} |-> NoValue]))
  /\ ctl' = Continue(ctl.ctx)
  /\ UNCHANGED <<query, reused>>

\* Mutant: the iterator is not advanced.
ObjectChildAgain ==
  /\ Running("continue", "object")
  /\ \E key \in Top.todo :
       /\ SetTop([Top EXCEPT !.at = key])
       /\ ctl' = Call(Top.v.kv[key], Top.src,
                      RestrictTo(ctl.ctx, IF Restricted(ctl.ctx) THEN Tail(ctl.ctx.restrict)
                                          ELSE <<>>))
  /\ UNCHANGED <<query, reused>>

ObjectChild ==
  /\ Running("continue", "object")
  /\ \E key \in Top.todo :
       /\ SetTop([Top EXCEPT !.at = key, !.todo = @ \ {key}])
       /\ ctl' = Call(Top.v.kv[key], Top.src,
                      RestrictTo(ctl.ctx, IF Restricted(ctl.ctx) THEN Tail(ctl.ctx.restrict)
                                        ELSE <<>>))
  /\ UNCHANGED <<query, reused>>

ObjectChildDone ==
  /\ Running("return", "object")
  /\ SetTop([Top EXCEPT !.acc = IF ctl.v = Top.v.kv[Top.at] THEN @
                                ELSE [k \in DOMAIN @ \cup {Top.at} |->
                                        IF k = Top.at THEN ctl.v ELSE @[k]]])
  /\ ctl' = Continue(RestrictTo(RestrictTo(ctl.ctx, <<>>), Top.ctx.restrict))
  /\ UNCHANGED <<query, reused>>

\* A child that became null is dropped; untouched objects are not copied.
ObjectDone ==
  /\ Running("continue", "object")
  /\ Top.todo = {}
  /\ LET changes == Top.acc
         after   == [k \in DOMAIN Top.v.kv |->
                       IF k \in DOMAIN changes THEN changes[k] ELSE Top.v.kv[k]]
         kept    == {k \in DOMAIN after : HasValue(after[k])}
     IN  ctl' = Return(ctl.ctx, IF DOMAIN changes = {} THEN Top.v
                                ELSE Obj([k \in kept |-> after[k]], Top.v.ign))
  /\ stack' = Pop
  /\ UNCHANGED <<query, reused>>

-----------------------------------------------------------------------------
(* simple_config_list: modify_may_throw.  The copy is started whenever it  *)
(* is still empty and an element changed, not only the first time.         *)

SubstList ==
  /\ ctl.op = "subst"
  /\ ctl.v.t = "list" /\ ~ctl.v.res /\ ~Restricted(ctl.ctx)
  /\ Push(Frame("list", ctl.v, PushParent(ctl.src, ctl.v), ctl.ctx, 0, {},
                [started |-> FALSE, items |-> <<>>]))
  /\ ctl' = Continue(ctl.ctx)
  /\ UNCHANGED <<query, reused>>

ListItem ==
  /\ Running("continue", "list")
  /\ Top.at < Len(Top.v.items)
  /\ SetTop([Top EXCEPT !.at = @ + 1])
  /\ ctl' = Call(Top.v.items[Top.at + 1], Top.src, ctl.ctx)
  /\ UNCHANGED <<query, reused>>

ListItemDone ==
  /\ Running("return", "list")
  /\ LET starts  == Top.acc.items = <<>> /\ ctl.v # Top.v.items[Top.at]
         started == Top.acc.started \/ starts
         before  == IF starts THEN SubSeq(Top.v.items, 1, Top.at - 1) ELSE Top.acc.items
     IN  SetTop([Top EXCEPT !.acc =
                   [started |-> started,
                    items   |-> IF started /\ HasValue(ctl.v) THEN Append(before, ctl.v)
                                ELSE before]])
  /\ ctl' = Continue(ctl.ctx)
  /\ UNCHANGED <<query, reused>>

\* The constructor refuses a list whose status is not the announced one.
ListDone ==
  /\ Running("continue", "list")
  /\ Top.at = Len(Top.v.items)
  /\ LET new == List(Top.acc.items)
     IN  ctl' = IF ~Top.acc.started THEN Return(ctl.ctx, Top.v)
                ELSE IF new.res \/ AllowUnresolved THEN Return(ctl.ctx, new)
                ELSE Throw("bug")
  /\ stack' = Pop
  /\ UNCHANGED <<query, reused>>

-----------------------------------------------------------------------------
(* config_concatenation: every piece is resolved in full, then joined.  No *)
(* parent is pushed for the pieces.                                        *)

\* Mutant: every unmergeable is taken for a concatenation.
SubstUnmergeable ==
  /\ ctl.op = "subst"
  /\ Unmergeable(ctl.v)
  /\ Push(Frame("concat", ctl.v, ctl.src, ctl.ctx, 0, {}, <<>>))
  /\ ctl' = Continue(ctl.ctx)
  /\ UNCHANGED <<query, reused>>

SubstConcatenation ==
  /\ ctl.op = "subst"
  /\ ctl.v.t = "concat"
  /\ Push(Frame("concat", ctl.v, ctl.src, ctl.ctx, 0, {}, <<>>))
  /\ ctl' = Continue(ctl.ctx)
  /\ UNCHANGED <<query, reused>>

Piece ==
  /\ Running("continue", "concat")
  /\ Top.at < Len(Top.v.pieces)
  /\ SetTop([Top EXCEPT !.at = @ + 1, !.ctx = ctl.ctx])
  /\ ctl' = Call(Top.v.pieces[Top.at + 1], Top.src, RestrictTo(ctl.ctx, <<>>))
  /\ UNCHANGED <<query, reused>>

\* Mutants: the restriction is not put back; the pieces come in reverse.
PieceDoneUnrestricted ==
  /\ Running("return", "concat")
  /\ SetTop([Top EXCEPT !.acc = IF HasValue(ctl.v) THEN Append(@, ctl.v) ELSE @])
  /\ ctl' = Continue(ctl.ctx)
  /\ UNCHANGED <<query, reused>>

PieceDoneReversed ==
  /\ Running("return", "concat")
  /\ SetTop([Top EXCEPT !.acc = IF HasValue(ctl.v) THEN <<ctl.v>> \o @ ELSE @])
  /\ ctl' = Continue(RestrictTo(ctl.ctx, Top.ctx.restrict))
  /\ UNCHANGED <<query, reused>>

PieceDone ==
  /\ Running("return", "concat")
  /\ SetTop([Top EXCEPT !.acc = IF HasValue(ctl.v) THEN Append(@, ctl.v) ELSE @])
  /\ ctl' = Continue(RestrictTo(ctl.ctx, Top.ctx.restrict))
  /\ UNCHANGED <<query, reused>>

ConcatenationDone ==
  /\ Running("continue", "concat")
  /\ Top.at = Len(Top.v.pieces)
  /\ LET joined == Consolidate(Top.acc)
     IN  ctl' = IF joined = <<>> THEN Return(ctl.ctx, NoValue)
                ELSE IF Len(joined) = 1 \/ IsErr(Last(joined))
                THEN ReturnOrThrow(ctl.ctx, Last(joined))
                ELSE IF AllowUnresolved
                THEN ReturnOrThrow(ctl.ctx, Concatenation(joined))
                ELSE Throw("bug")
  /\ stack' = Pop
  /\ UNCHANGED <<query, reused>>

-----------------------------------------------------------------------------
(* config_delayed_merge(_object): layer by layer.  A substitution must not *)
(* see its own layer or the ones above it: it is looked up in a root where *)
(* the merge is replaced by the layers below ("looking back").             *)

SubstMerge ==
  /\ ctl.op = "subst"
  /\ IsDelayed(ctl.v)
  /\ Push(Frame("merge", ctl.v, ctl.src, ctl.ctx, 0, {}, NoValue))
  /\ ctl' = Continue(ctl.ctx)
  /\ UNCHANGED <<query, reused>>

\* Mutant: off by one, the layer sees itself.
ReplacementWithSelf(v, skipping) == MergedStack(SubSeq(v.stack, skipping, Len(v.stack)))

\* make_replacement(skipping).
MakeReplacement(v, skipping) == MergedStack(SubSeq(v.stack, skipping + 1, Len(v.stack)))

LayerSource(v, i, src) ==
  IF IsDelayed(v.stack[i]) THEN Err("bug")
  ELSE IF ~Unmergeable(v.stack[i]) THEN PushParent(src, v)
  ELSE IF IsErr(MakeReplacement(v, i)) THEN MakeReplacement(v, i)
  ELSE LET seen == ReplaceWithinCurrentParent(src, v, MakeReplacement(v, i))
       IN  IF IsErr(seen) THEN seen ELSE ResetParents(seen)

Layer ==
  /\ Running("continue", "merge")
  /\ Top.at < Len(Top.v.stack)
  /\ LET src == LayerSource(Top.v, Top.at + 1, Top.src)
     IN  ctl' = IF IsErr(src) THEN Throw(src.kind)
                ELSE Call(Top.v.stack[Top.at + 1], src, ctl.ctx)
  /\ SetTop([Top EXCEPT !.at = @ + 1])
  /\ UNCHANGED <<query, reused>>

\* Mutant: the layer below wins.
MergedUnder(merged, layer) ==
  IF ~HasValue(layer) THEN merged
  ELSE IF ~HasValue(merged) THEN layer
  ELSE WithFallback(layer, merged)

MergedOver(merged, layer) ==
  IF ~HasValue(layer) THEN merged
  ELSE IF ~HasValue(merged) THEN layer
  ELSE WithFallback(merged, layer)

LayerDone ==
  /\ Running("return", "merge")
  /\ LET merged == MergedOver(Top.acc, ctl.v)
     IN  /\ SetTop([Top EXCEPT !.acc = merged])
         /\ ctl' = IF IsErr(merged) THEN Throw(merged.kind) ELSE Continue(ctl.ctx)
  /\ UNCHANGED <<query, reused>>

MergeDone ==
  /\ Running("continue", "merge")
  /\ Top.at = Len(Top.v.stack)
  /\ ctl' = Return(ctl.ctx, Top.acc)
  /\ stack' = Pop
  /\ UNCHANGED <<query, reused>>

-----------------------------------------------------------------------------
(* config_reference: mark, look the path up in the root resolved just far  *)
(* enough, resolve what is there, unmark.  (prefix_length is always 0: no  *)
(* reference is ever relativized.)                                         *)

SubstReference ==
  /\ ctl.op = "subst"
  /\ ctl.v.t = "ref"
  /\ LET marked == AddMarker(ctl.ctx, ctl.v)
         root   == ctl.src.root
     IN  IF ctl.v \in ctl.ctx.markers
         THEN ctl' = Throw("bug") /\ UNCHANGED stack
         ELSE IF ~HasValue(root)
         THEN ctl' = Throw("undefined") /\ UNCHANGED stack
         ELSE /\ Push(Frame("ref", ctl.v, ctl.src, marked, "lookup", {}, NoValue))
              /\ ctl' = Call(root, Source(root, <<>>), RestrictTo(marked, ctl.v.path))
  /\ UNCHANGED <<query, reused>>

\* The tail of resolve_substitutions, once v is known.
ReferenceResult(ref, ctx, v) ==
  IF HasValue(v) \/ ref.optional THEN Return(RemoveMarker(ctx, ref), v)
  ELSE IF AllowUnresolved THEN Return(RemoveMarker(ctx, ref), ref)
  ELSE Throw("unresolved_substitution")

\* Resolve the value found, from the path of parents it was found under.
ResolveFound(found, ctx) ==
  /\ SetTop([Top EXCEPT !.at = "value", !.ctx = ctx])
  /\ ctl' = Call(found.v, Source(Last(found.parents), found.parents), ctx)

Found      == FindInObject(ctl.v, Top.v.path)
FoundInEnv == FindInObject(Env, Top.v.path)

LookupFailed ==
  /\ Running("return", "ref") /\ Top.at = "lookup"
  /\ ~IsObject(ctl.v) \/ IsErr(Found.v)
  /\ ctl' = Throw(IF IsObject(ctl.v) THEN Found.v.kind ELSE "bug")
  /\ stack' = Pop
  /\ UNCHANGED <<query, reused>>

LookupFound ==
  /\ Running("return", "ref") /\ Top.at = "lookup"
  /\ IsObject(ctl.v) /\ HasValue(Found.v) /\ ~IsErr(Found.v)
  /\ ResolveFound(Found, RestrictTo(ctl.ctx, Top.ctx.restrict))
  /\ UNCHANGED <<query, reused>>

\* lookup_subst has moved its context into the first search when it passes
\* it to the search of the environment.
LookupEnvironment ==
  /\ Running("return", "ref") /\ Top.at = "lookup"
  /\ IsObject(ctl.v) /\ ~HasValue(Found.v)
  /\ UseEnv
  /\ IF HasValue(FoundInEnv.v) THEN ResolveFound(FoundInEnv, MovedFrom)
     ELSE /\ ctl' = ReferenceResult(Top.v, MovedFrom, NoValue)
          /\ stack' = Pop
  /\ reused' = TRUE
  /\ UNCHANGED query

LookupMissing ==
  /\ Running("return", "ref") /\ Top.at = "lookup"
  /\ IsObject(ctl.v) /\ ~HasValue(Found.v)
  /\ ~UseEnv
  /\ ctl' = ReferenceResult(Top.v, RestrictTo(ctl.ctx, Top.ctx.restrict), NoValue)
  /\ stack' = Pop
  /\ UNCHANGED <<query, reused>>

ReferenceDone ==
  /\ Running("return", "ref") /\ Top.at = "value"
  /\ ctl' = ReferenceResult(Top.v, ctl.ctx, ctl.v)
  /\ stack' = Pop
  /\ UNCHANGED <<query, reused>>

-----------------------------------------------------------------------------
(* Exceptions.  Only a reference catches one: not_possible_to_resolve makes *)
(* an optional one vanish.  When it comes out of lookup_subst, the context  *)
(* the reference goes on with has been moved from.                          *)

Catches == Top.fn = "ref" /\ ctl.kind = "not_possible_to_resolve"

Unwind ==
  /\ ctl.op = "throw" /\ stack # <<>>
  /\ ~Catches
  /\ stack' = Pop
  /\ UNCHANGED <<query, ctl, reused>>

\* Mutant: every substitution in a cycle vanishes, optional or not.
CycleForgiven ==
  /\ ctl.op = "throw" /\ stack # <<>>
  /\ Catches
  /\ stack' = Pop
  /\ ctl' = Return(RemoveMarker(IF Top.at = "lookup" THEN MovedFrom ELSE Top.ctx, Top.v), NoValue)
  /\ reused' = (reused \/ Top.at = "lookup")
  /\ UNCHANGED query

CycleCaught ==
  /\ ctl.op = "throw" /\ stack # <<>>
  /\ Catches
  /\ stack' = Pop
  /\ IF Top.v.optional
     THEN /\ ctl' = Return(RemoveMarker(IF Top.at = "lookup" THEN MovedFrom ELSE Top.ctx,
                                        Top.v), NoValue)
          /\ reused' = (reused \/ Top.at = "lookup")
     ELSE ctl' = Throw("cycle") /\ UNCHANGED reused
  /\ UNCHANGED query

-----------------------------------------------------------------------------
Next ==
  \/ MemoHit \/ CycleDetected \/ EnterResolve \/ LeaveResolve
  \/ SubstUnchanged
  \/ SubstObject \/ ObjectChild \/ ObjectChildDone \/ ObjectDone
  \/ SubstList \/ ListItem \/ ListItemDone \/ ListDone
  \/ SubstConcatenation \/ Piece \/ PieceDone \/ ConcatenationDone
  \/ SubstMerge \/ Layer \/ LayerDone \/ MergeDone
  \/ SubstReference \/ LookupFailed \/ LookupFound \/ LookupEnvironment
  \/ LookupMissing \/ ReferenceDone
  \/ Unwind \/ CycleCaught

\* The library is single-threaded: the call in progress always goes on.
Spec == Init /\ [][Next]_vars /\ WF_vars(Next)

Finished == stack = <<>> /\ ctl.op \in {"return", "throw"}

-----------------------------------------------------------------------------
(* Properties *)

Functions == {"resolve", "object", "list", "concat", "merge", "ref"}

IsContext(ctx) ==
  /\ DOMAIN ctx = {"restrict", "markers", "memos"}
  /\ \A m \in ctx.markers : m.t = "ref"

IsFrame(f) ==
  /\ DOMAIN f = {"fn", "v", "src", "ctx", "at", "todo", "acc"}
  /\ f.fn \in Functions
  /\ IsContext(f.ctx)
  /\ f.fn = "ref"    => f.v.t = "ref" /\ f.at \in {"lookup", "value"}
  /\ f.fn = "object" => f.v.t = "obj"
  /\ f.fn = "list"   => f.v.t = "list"
  /\ f.fn = "concat" => f.v.t = "concat"
  /\ f.fn = "merge"  => IsDelayed(f.v)

\* Type correctness: calls and returns carry a context, exceptions none, and
\* every frame runs a function on a value of the class that has the function.
TypeOK ==
  /\ reused \in BOOLEAN
  /\ ctl.op \in {"resolve", "subst", "continue", "return", "throw"}
  /\ ctl.op # "throw" => IsContext(ctl.ctx)
  /\ IsSequence(stack)
  /\ \A i \in DOMAIN stack : IsFrame(stack[i])

RefFrames == {i \in DOMAIN stack : stack[i].fn = "ref"}

\* The substitutions being resolved.
Active == {stack[i].v : i \in RefFrames}

\* The cycle markers a call carries are the substitutions being resolved, no
\* fewer (a cycle would be missed) and no more (a value used twice would be
\* taken for a cycle), however the contexts were copied, restricted and
\* returned; until a context that had been moved from is used again.
MarkersAreActive == ~reused /\ ctl.op # "throw" => ctl.ctx.markers = Active

\* No substitution is being resolved twice at once (the exception "Added cycle
\* marker twice" of add_cycle_marker says so), until such a context is used.
NoReentry ==
  ~reused => \A i, j \in RefFrames : stack[i].v = stack[j].v => i = j

\* The same without the exception: what add_cycle_marker means to enforce.
NeverMarkedTwice == \A i, j \in RefFrames : stack[i].v = stack[j].v => i = j

\* A call returns a context with the restriction it was given: an object can
\* go on with its other children, a concatenation with its other pieces.
RestrictionRestored ==
  Running("return", "resolve") /\ ~reused => ctl.ctx.restrict = Top.ctx.restrict

\* Resolution implements SubstitutionCycles: a substitution that is already
\* being resolved is never entered.
Cycles == INSTANCE SubstitutionCycles
            WITH active <- Active, depth <- Cardinality(RefFrames), forgotten <- reused

EntersOnce == Cycles!Spec

\* Every resolution ends, with a value or an exception.
Terminates == <>Finished
=============================================================================
