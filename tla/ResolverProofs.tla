---------------------------- MODULE ResolverProofs ----------------------------
(***************************************************************************)
(* What is proved of the resolver for every document, environment, option  *)
(* and value algebra: type correctness, the discipline of the cycle        *)
(* markers, that resolution implements SubstitutionCycles, and that a call *)
(* gives back the restriction it was given.                                *)
(***************************************************************************)
EXTENDS Resolver, StackProofs, FiniteSetTheorems

\* The ways a context is copied keep it a context; none but AddMarker and
\* RemoveMarker changes the markers.
LEMMA ContextCopies ==
  ASSUME NEW ctx, IsContext(ctx)
  PROVE  /\ \A p : /\ IsContext(RestrictTo(ctx, p))
                   /\ RestrictTo(ctx, p).markers = ctx.markers
         /\ \A k, v : /\ IsContext(Memoize(ctx, k, v))
                      /\ Memoize(ctx, k, v).markers = ctx.markers
         /\ \A r : /\ IsContext(RemoveMarker(ctx, r))
                   /\ RemoveMarker(ctx, r).markers = ctx.markers \ {r}
         /\ \A r : /\ r.t = "ref" => IsContext(AddMarker(ctx, r))
                   /\ AddMarker(ctx, r).markers = ctx.markers \cup {r}
<1>1. \A p : IsContext(RestrictTo(ctx, p)) /\ RestrictTo(ctx, p).markers = ctx.markers
  BY DEF IsContext, RestrictTo, Context
<1>2. \A k, v : IsContext(Memoize(ctx, k, v)) /\ Memoize(ctx, k, v).markers = ctx.markers
  BY DEF IsContext, Memoize
<1>3. \A r : /\ IsContext(RemoveMarker(ctx, r))
             /\ RemoveMarker(ctx, r).markers = ctx.markers \ {r}
  BY DEF IsContext, RemoveMarker, Context
<1>4. \A r : /\ r.t = "ref" => IsContext(AddMarker(ctx, r))
             /\ AddMarker(ctx, r).markers = ctx.markers \cup {r}
  BY DEF IsContext, AddMarker, Context
<1> QED
  BY <1>1, <1>2, <1>3, <1>4

LEMMA MovedFromIsContext == IsContext(MovedFrom)
BY DEF IsContext, MovedFrom, Context

\* A step that pushes a frame keeps the stack a stack of frames.
LEMMA PushedTyped ==
  ASSUME TypeOK, NEW f, IsFrame(f), Push(f)
  PROVE  IsSequence(stack') /\ \A i \in DOMAIN stack' : IsFrame(stack'[i])
<1>1. /\ DOMAIN stack' = 1 .. Len(stack) + 1 /\ IsSequence(stack')
      /\ \A i \in 1 .. Len(stack) : stack'[i] = stack[i]
      /\ stack'[Len(stack) + 1] = f
  BY Pushing DEF TypeOK, Push
<1>2. DOMAIN stack = 1 .. Len(stack) /\ Len(stack) \in Nat
  BY DEF TypeOK, IsSequence
<1>3. ASSUME NEW i \in 1 .. Len(stack) + 1
      PROVE  i \in 1 .. Len(stack) \/ i = Len(stack) + 1
  BY <1>2
<1> QED
  BY <1>1, <1>2, <1>3 DEF TypeOK

LEMMA PoppedTyped ==
  ASSUME TypeOK, stack # <<>>, stack' = Pop
  PROVE  IsSequence(stack') /\ \A i \in DOMAIN stack' : IsFrame(stack'[i])
<1>1. /\ DOMAIN stack' = 1 .. Len(stack) - 1 /\ IsSequence(stack')
      /\ \A i \in 1 .. Len(stack) - 1 : stack'[i] = stack[i]
      /\ DOMAIN stack = 1 .. Len(stack) /\ Len(stack) \in Nat
  BY Popping DEF TypeOK, Pop
<1> QED
  BY <1>1 DEF TypeOK

LEMMA ChangedTyped ==
  ASSUME TypeOK, stack # <<>>, NEW f, IsFrame(f), SetTop(f)
  PROVE  IsSequence(stack') /\ \A i \in DOMAIN stack' : IsFrame(stack'[i])
<1>1. /\ DOMAIN stack' = DOMAIN stack /\ IsSequence(stack')
      /\ \A i \in 1 .. Len(stack) - 1 : stack'[i] = stack[i]
      /\ stack'[Len(stack)] = f
  <2>1. IsSequence(stack) /\ stack' = Retopped(stack, f)
    BY DEF TypeOK, SetTop
  <2> QED
    BY <2>1, ChangingTop
<1>2. DOMAIN stack = 1 .. Len(stack) /\ Len(stack) \in Nat
  BY DEF TypeOK, IsSequence
<1>3. ASSUME NEW i \in DOMAIN stack
      PROVE  i \in 1 .. Len(stack) - 1 \/ i = Len(stack)
  BY <1>2
<1> QED
  BY <1>1, <1>3 DEF TypeOK

LEMMA TopIsFrame ==
  ASSUME TypeOK, stack # <<>>
  PROVE  IsFrame(Top) /\ Len(stack) \in DOMAIN stack
<1>1. Len(stack) \in DOMAIN stack
  BY Popping DEF TypeOK
<1> QED
  BY <1>1 DEF TypeOK, Top

-----------------------------------------------------------------------------
(***************************************************************************)
(* Type correctness.  One step per group of actions that change the stack  *)
(* in the same way.                                                        *)
(***************************************************************************)
\* The initial call is well typed.
LEMMA TypeInit == Init => TypeOK
<1> SUFFICES ASSUME Init PROVE TypeOK
  OBVIOUS
<1>1. stack = <<>> /\ IsSequence(stack) /\ DOMAIN stack = {}
  BY EmptyIsSequence DEF Init
<1>2. reused \in BOOLEAN /\ ctl.op = "resolve" /\ IsContext(ctl.ctx)
  BY DEF Init, Call, IsContext, Context
<1> QED
  BY <1>1, <1>2 DEF TypeOK

\* Every step keeps the types.
LEMMA TypeNext == TypeOK /\ [Next]_vars => TypeOK'
<1> SUFFICES ASSUME TypeOK, [Next]_vars PROVE TypeOK'
  OBVIOUS
<1> USE DEF Call, Subst, Continue, Return, Throw
<1>1. CASE UNCHANGED vars
  BY <1>1 DEF vars, TypeOK, IsSequence
<1>2. CASE MemoHit \/ CycleDetected \/ SubstUnchanged
  <2>1. stack' = stack /\ reused' = reused
    BY <1>2 DEF MemoHit, CycleDetected, SubstUnchanged
  <2>2. /\ ctl'.op \in {"return", "throw"}
        /\ ctl'.op # "throw" => IsContext(ctl'.ctx)
    BY <1>2 DEF MemoHit, CycleDetected, SubstUnchanged, TypeOK
  <2> QED
    BY <2>1, <2>2 DEF TypeOK, IsSequence
<1>3. CASE EnterResolve
  <2> DEFINE f == Frame("resolve", ctl.v, ctl.src, ctl.ctx, 0, {}, NoValue)
  <2>1. IsContext(ctl.ctx)
    BY <1>3 DEF EnterResolve, TypeOK
  <2>2. IsFrame(f) /\ Push(f)
    BY <1>3, <2>1 DEF EnterResolve, IsFrame, Frame, Functions
  <2> QED
    BY <1>3, <2>1, <2>2, PushedTyped DEF EnterResolve, TypeOK
<1>4. CASE LeaveResolve
  BY <1>4, PoppedTyped, ContextCopies DEF LeaveResolve, Running, TypeOK
<1>5. CASE SubstObject
  <2> DEFINE f == Frame("object", ctl.v, PushParent(ctl.src, ctl.v), ctl.ctx, "",
                        ChildrenToResolve(ctl.v, ctl.ctx.restrict), [k \in {} |-> NoValue])
  <2>1. IsContext(ctl.ctx)
    BY <1>5 DEF SubstObject, TypeOK
  <2>2. IsFrame(f) /\ Push(f)
    BY <1>5, <2>1 DEF SubstObject, IsFrame, Frame, Functions
  <2> QED
    BY <1>5, <2>1, <2>2, PushedTyped DEF SubstObject, TypeOK
<1>6. CASE SubstList
  <2> DEFINE f == Frame("list", ctl.v, PushParent(ctl.src, ctl.v), ctl.ctx, 0, {},
                        [started |-> FALSE, items |-> <<>>])
  <2>1. IsContext(ctl.ctx)
    BY <1>6 DEF SubstList, TypeOK
  <2>2. IsFrame(f) /\ Push(f)
    BY <1>6, <2>1 DEF SubstList, IsFrame, Frame, Functions
  <2> QED
    BY <1>6, <2>1, <2>2, PushedTyped DEF SubstList, TypeOK
<1>7. CASE SubstConcatenation
  <2> DEFINE f == Frame("concat", ctl.v, ctl.src, ctl.ctx, 0, {}, <<>>)
  <2>1. IsContext(ctl.ctx)
    BY <1>7 DEF SubstConcatenation, TypeOK
  <2>2. IsFrame(f) /\ Push(f)
    BY <1>7, <2>1 DEF SubstConcatenation, IsFrame, Frame, Functions
  <2> QED
    BY <1>7, <2>1, <2>2, PushedTyped DEF SubstConcatenation, TypeOK
<1>8. CASE SubstMerge
  <2> DEFINE f == Frame("merge", ctl.v, ctl.src, ctl.ctx, 0, {}, NoValue)
  <2>1. IsContext(ctl.ctx)
    BY <1>8 DEF SubstMerge, TypeOK
  <2>2. IsFrame(f) /\ Push(f)
    BY <1>8, <2>1 DEF SubstMerge, IsFrame, Frame, Functions
  <2> QED
    BY <1>8, <2>1, <2>2, PushedTyped DEF SubstMerge, TypeOK
<1>9. CASE ObjectChildDone
  <2> DEFINE f == [Top EXCEPT !.acc = IF ctl.v = Top.v.kv[Top.at] THEN @
                                        ELSE [k \in DOMAIN @ \cup {Top.at} |->
                                                IF k = Top.at THEN ctl.v ELSE @[k]]]
  <2>1. stack # <<>> /\ IsContext(ctl.ctx) /\ IsFrame(Top)
    BY <1>9, TopIsFrame DEF ObjectChildDone, Running, TypeOK
  <2>2. IsFrame(f) /\ SetTop(f)
    BY <1>9, <2>1 DEF ObjectChildDone, IsFrame, Running
  <2>3. IsSequence(stack') /\ \A i \in DOMAIN stack' : IsFrame(stack'[i])
    BY <2>1, <2>2, ChangedTyped
  <2> QED
    BY <1>9, <2>1, <2>3, ContextCopies DEF ObjectChildDone, TypeOK
<1>10. CASE ListItem
  <2> DEFINE f == [Top EXCEPT !.at = @ + 1]
  <2>1. stack # <<>> /\ IsContext(ctl.ctx) /\ IsFrame(Top)
    BY <1>10, TopIsFrame DEF ListItem, Running, TypeOK
  <2>2. IsFrame(f) /\ SetTop(f)
    BY <1>10, <2>1 DEF ListItem, IsFrame, Running
  <2>3. IsSequence(stack') /\ \A i \in DOMAIN stack' : IsFrame(stack'[i])
    BY <2>1, <2>2, ChangedTyped
  <2> QED
    BY <1>10, <2>1, <2>3, ContextCopies DEF ListItem, TypeOK
<1>12. CASE Piece
  <2> DEFINE f == [Top EXCEPT !.at = @ + 1, !.ctx = ctl.ctx]
  <2>1. stack # <<>> /\ IsContext(ctl.ctx) /\ IsFrame(Top)
    BY <1>12, TopIsFrame DEF Piece, Running, TypeOK
  <2>2. IsFrame(f) /\ SetTop(f)
    BY <1>12, <2>1 DEF Piece, IsFrame, Running
  <2>3. IsSequence(stack') /\ \A i \in DOMAIN stack' : IsFrame(stack'[i])
    BY <2>1, <2>2, ChangedTyped
  <2> QED
    BY <1>12, <2>1, <2>3, ContextCopies DEF Piece, TypeOK
<1>13. CASE PieceDone
  <2> DEFINE f == [Top EXCEPT !.acc = IF HasValue(ctl.v) THEN Append(@, ctl.v) ELSE @]
  <2>1. stack # <<>> /\ IsContext(ctl.ctx) /\ IsFrame(Top)
    BY <1>13, TopIsFrame DEF PieceDone, Running, TypeOK
  <2>2. IsFrame(f) /\ SetTop(f)
    BY <1>13, <2>1 DEF PieceDone, IsFrame, Running
  <2>3. IsSequence(stack') /\ \A i \in DOMAIN stack' : IsFrame(stack'[i])
    BY <2>1, <2>2, ChangedTyped
  <2> QED
    BY <1>13, <2>1, <2>3, ContextCopies DEF PieceDone, TypeOK
<1>14. CASE Layer
  <2> DEFINE f == [Top EXCEPT !.at = @ + 1]
  <2>1. stack # <<>> /\ IsContext(ctl.ctx) /\ IsFrame(Top)
    BY <1>14, TopIsFrame DEF Layer, Running, TypeOK
  <2>2. IsFrame(f) /\ SetTop(f)
    BY <1>14, <2>1 DEF Layer, IsFrame, Running
  <2>3. IsSequence(stack') /\ \A i \in DOMAIN stack' : IsFrame(stack'[i])
    BY <2>1, <2>2, ChangedTyped
  <2> QED
    BY <1>14, <2>1, <2>3, ContextCopies DEF Layer, TypeOK
<1>15. CASE LayerDone
  <2> DEFINE f == [Top EXCEPT !.acc = MergedOver(Top.acc, ctl.v)]
  <2>1. stack # <<>> /\ IsContext(ctl.ctx) /\ IsFrame(Top)
    BY <1>15, TopIsFrame DEF LayerDone, Running, TypeOK
  <2>2. IsFrame(f) /\ SetTop(f)
    BY <1>15, <2>1 DEF LayerDone, IsFrame, Running
  <2>3. IsSequence(stack') /\ \A i \in DOMAIN stack' : IsFrame(stack'[i])
    BY <2>1, <2>2, ChangedTyped
  <2> QED
    BY <1>15, <2>1, <2>3, ContextCopies DEF LayerDone, TypeOK
<1>16. CASE ObjectChild
  <2>1. stack # <<>> /\ IsContext(ctl.ctx) /\ IsFrame(Top)
    BY <1>16, TopIsFrame DEF ObjectChild, Running, TypeOK
  <2>2. PICK key \in Top.todo : SetTop([Top EXCEPT !.at = key, !.todo = @ \ {key}])
    BY <1>16 DEF ObjectChild
  <2>3. IsFrame([Top EXCEPT !.at = key, !.todo = @ \ {key}])
    BY <1>16, <2>1 DEF ObjectChild, IsFrame, Running
  <2>4. IsSequence(stack') /\ \A i \in DOMAIN stack' : IsFrame(stack'[i])
    BY <2>1, <2>2, <2>3, ChangedTyped
  <2> QED
    BY <1>16, <2>1, <2>4, ContextCopies DEF ObjectChild, TypeOK
<1>17. CASE ObjectDone
  <2>1. stack # <<>> /\ IsContext(ctl.ctx)
    BY <1>17 DEF ObjectDone, Running, TypeOK
  <2> QED
    BY <1>17, <2>1, PoppedTyped DEF ObjectDone, TypeOK
<1>18. CASE ListItemDone
  <2>1. stack # <<>> /\ IsContext(ctl.ctx) /\ IsFrame(Top)
    BY <1>18, TopIsFrame DEF ListItemDone, Running, TypeOK
  <2>2. PICK acc : SetTop([Top EXCEPT !.acc = acc])
    BY <1>18 DEF ListItemDone
  <2>3. IsFrame([Top EXCEPT !.acc = acc])
    BY <1>18, <2>1 DEF ListItemDone, IsFrame, Running
  <2>4. IsSequence(stack') /\ \A i \in DOMAIN stack' : IsFrame(stack'[i])
    BY <2>1, <2>2, <2>3, ChangedTyped
  <2> QED
    BY <1>18, <2>1, <2>4 DEF ListItemDone, TypeOK
<1>19. CASE ListDone
  <2>1. stack # <<>> /\ IsContext(ctl.ctx)
    BY <1>19 DEF ListDone, Running, TypeOK
  <2> QED
    BY <1>19, <2>1, PoppedTyped DEF ListDone, TypeOK
<1>20. CASE ConcatenationDone
  <2>1. stack # <<>> /\ IsContext(ctl.ctx)
    BY <1>20 DEF ConcatenationDone, Running, TypeOK
  <2> QED
    BY <1>20, <2>1, PoppedTyped DEF ConcatenationDone, ReturnOrThrow, TypeOK
<1>21. CASE MergeDone
  <2>1. stack # <<>> /\ IsContext(ctl.ctx)
    BY <1>21 DEF MergeDone, Running, TypeOK
  <2> QED
    BY <1>21, <2>1, PoppedTyped DEF MergeDone, TypeOK
<1>22. CASE SubstReference
  <2>1. IsContext(ctl.ctx) /\ ctl.v.t = "ref" /\ reused' = reused
    BY <1>22 DEF SubstReference, TypeOK
  <2>2. CASE ctl' = Throw("bug") /\ UNCHANGED stack
    BY <2>1, <2>2 DEF TypeOK, IsSequence
  <2>3. CASE ctl' = Throw("undefined") /\ UNCHANGED stack
    BY <2>1, <2>3 DEF TypeOK, IsSequence
  <2>4. CASE /\ Push(Frame("ref", ctl.v, ctl.src, AddMarker(ctl.ctx, ctl.v), "lookup", {}, NoValue))
             /\ ctl' = Call(ctl.src.root, Source(ctl.src.root, <<>>),
                            RestrictTo(AddMarker(ctl.ctx, ctl.v), ctl.v.path))
    <3> DEFINE f == Frame("ref", ctl.v, ctl.src, AddMarker(ctl.ctx, ctl.v), "lookup", {}, NoValue)
    <3>1. IsContext(AddMarker(ctl.ctx, ctl.v))
      BY <2>1, ContextCopies
    <3>2. IsFrame(f)
      BY <2>1, <3>1 DEF IsFrame, Frame, Functions
    <3>3. IsSequence(stack') /\ \A i \in DOMAIN stack' : IsFrame(stack'[i])
      BY <2>4, <3>2, PushedTyped
    <3>4. IsContext(RestrictTo(AddMarker(ctl.ctx, ctl.v), ctl.v.path))
      BY <3>1, ContextCopies
    <3> QED
      BY <2>1, <2>4, <3>3, <3>4 DEF TypeOK
  <2> QED
    BY <1>22, <2>2, <2>3, <2>4 DEF SubstReference
<1>23. CASE LookupFailed
  BY <1>23, PoppedTyped DEF LookupFailed, Running, TypeOK
<1>24. ASSUME stack # <<>>, Top.fn = "ref", NEW found, NEW ctx, IsContext(ctx),
              ResolveFound(found, ctx), reused' \in BOOLEAN
       PROVE  TypeOK'
  <2>1. IsFrame([Top EXCEPT !.at = "value", !.ctx = ctx])
    BY <1>24, TopIsFrame DEF IsFrame
  <2>2. IsSequence(stack') /\ \A i \in DOMAIN stack' : IsFrame(stack'[i])
    BY <1>24, <2>1, ChangedTyped DEF ResolveFound
  <2> QED
    BY <1>24, <2>2 DEF ResolveFound, TypeOK
<1>25. ASSUME stack # <<>>, NEW ref, NEW ctx, IsContext(ctx), NEW v,
              ctl' = ReferenceResult(ref, ctx, v), stack' = Pop, reused' \in BOOLEAN
       PROVE  TypeOK'
  BY <1>25, PoppedTyped, ContextCopies DEF ReferenceResult, TypeOK
<1>26. CASE LookupFound
  <2>1. stack # <<>> /\ Top.fn = "ref" /\ IsContext(ctl.ctx)
    BY <1>26 DEF LookupFound, Running, TypeOK
  <2>2. IsContext(RestrictTo(ctl.ctx, Top.ctx.restrict)) /\ reused' \in BOOLEAN
    BY <1>26, <2>1, ContextCopies DEF LookupFound, TypeOK
  <2> QED
    BY <1>24, <1>26, <2>1, <2>2 DEF LookupFound
<1>27. CASE LookupEnvironment
  <2>1. stack # <<>> /\ Top.fn = "ref" /\ reused' \in BOOLEAN
    BY <1>27 DEF LookupEnvironment, Running
  <2> QED
    BY <1>24, <1>25, <1>27, <2>1, MovedFromIsContext DEF LookupEnvironment
<1>28. CASE LookupMissing
  <2>1. stack # <<>> /\ IsContext(ctl.ctx)
    BY <1>28 DEF LookupMissing, Running, TypeOK
  <2>2. IsContext(RestrictTo(ctl.ctx, Top.ctx.restrict)) /\ reused' \in BOOLEAN
    BY <1>28, <2>1, ContextCopies DEF LookupMissing, TypeOK
  <2> QED
    BY <1>25, <1>28, <2>1, <2>2 DEF LookupMissing
<1>29. CASE ReferenceDone
  <2>1. stack # <<>> /\ IsContext(ctl.ctx) /\ reused' \in BOOLEAN
    BY <1>29 DEF ReferenceDone, Running, TypeOK
  <2> QED
    BY <1>25, <1>29, <2>1 DEF ReferenceDone
<1>30. CASE Unwind
  BY <1>30, PoppedTyped DEF Unwind, TypeOK
<1>31. CASE CycleCaught
  <2>1. stack # <<>> /\ IsFrame(Top)
    BY <1>31, TopIsFrame DEF CycleCaught
  <2>2. IsContext(MovedFrom) /\ IsContext(Top.ctx)
    BY <2>1, MovedFromIsContext DEF IsFrame
  <2>3. IsSequence(stack') /\ \A i \in DOMAIN stack' : IsFrame(stack'[i])
    BY <1>31, <2>1, PoppedTyped DEF CycleCaught
  <2>4. reused' \in BOOLEAN
    BY <1>31, Zenon DEF CycleCaught, TypeOK
  <2>5. \/ ctl' = Throw("cycle")
        \/ \E ctx : IsContext(ctx) /\ ctl' = Return(RemoveMarker(ctx, Top.v), NoValue)
    BY <1>31, <2>2 DEF CycleCaught
  <2>6. /\ ctl'.op \in {"return", "throw"}
        /\ ctl'.op # "throw" => IsContext(ctl'.ctx)
    BY <2>5, ContextCopies
  <2> QED
    BY <2>3, <2>4, <2>6 DEF TypeOK
<1> QED
  BY <1>1, <1>2, <1>3, <1>4, <1>5, <1>6, <1>7, <1>8, <1>9, <1>10, <1>12, <1>13, <1>14,
     <1>15, <1>16, <1>17, <1>18, <1>19, <1>20, <1>21, <1>22, <1>23, <1>26, <1>27, <1>28,
     <1>29, <1>30, <1>31 DEF Next

\* Calls and returns carry a well-formed context, exceptions none, and every
\* frame runs a function of the class of its value.
THEOREM TypeCorrect == Spec => []TypeOK
BY TypeInit, TypeNext, PTL DEF Spec

-----------------------------------------------------------------------------
(***************************************************************************)
(* The discipline of the cycle markers.  MarkersAreActive and NoReentry    *)
(* are not inductive: a reference that catches an exception goes on with   *)
(* the context it kept in its frame, so the invariant also says what that  *)
(* context holds while the value found is being resolved.                  *)
(***************************************************************************)
ActiveUpTo(n) == {stack[i].v : i \in {j \in RefFrames : j <= n}}

KeptMarkers ==
  \A i \in RefFrames : stack[i].at = "value" => stack[i].ctx.markers = ActiveUpTo(i)

MarkerInv ==
  ~reused => /\ ctl.op # "throw" => ctl.ctx.markers = Active
             /\ \A i, j \in RefFrames : stack[i].v = stack[j].v => i = j
             /\ KeptMarkers

SameRefs    == RefFrames' = RefFrames /\ \A i \in RefFrames : stack'[i] = stack[i]
SameMarkers == ctl'.op # "throw" => ctl.op # "throw" /\ ctl'.ctx.markers = ctl.ctx.markers

\* A step that touches no reference frame and passes the markers on.
LEMMA QuietStep ==
  ASSUME MarkerInv, SameRefs, SameMarkers, reused' = reused
  PROVE  MarkerInv'
<1>1. Active' = Active
  BY DEF Active, SameRefs
<1>2. \A i \in RefFrames : ActiveUpTo(i)' = ActiveUpTo(i)
  BY DEF ActiveUpTo, SameRefs
<1>3. KeptMarkers => KeptMarkers'
  BY <1>2 DEF KeptMarkers, SameRefs
<1> QED
  BY <1>1, <1>3 DEF MarkerInv, SameRefs, SameMarkers

\* Frames of other functions come, go and change without touching references.
LEMMA PushOther ==
  ASSUME TypeOK, NEW f, Push(f), f.fn # "ref"
  PROVE  SameRefs
<1>1. /\ DOMAIN stack' = 1 .. Len(stack) + 1
      /\ \A i \in 1 .. Len(stack) : stack'[i] = stack[i]
      /\ stack'[Len(stack) + 1] = f
  BY Pushing DEF TypeOK, Push
<1>2. DOMAIN stack = 1 .. Len(stack) /\ Len(stack) \in Nat
  BY DEF TypeOK, IsSequence
<1>3. ASSUME NEW i \in 1 .. Len(stack) + 1
      PROVE  i \in 1 .. Len(stack) \/ i = Len(stack) + 1
  BY <1>2
<1> QED
  BY <1>1, <1>2, <1>3 DEF SameRefs, RefFrames

LEMMA RetopOther ==
  ASSUME TypeOK, stack # <<>>, NEW f, SetTop(f), Top.fn # "ref", f.fn # "ref"
  PROVE  SameRefs
<1>1. /\ DOMAIN stack' = DOMAIN stack
      /\ \A i \in 1 .. Len(stack) - 1 : stack'[i] = stack[i]
      /\ stack'[Len(stack)] = f
  <2>1. IsSequence(stack) /\ stack' = Retopped(stack, f)
    BY DEF TypeOK, SetTop
  <2> QED
    BY <2>1, ChangingTop
<1>2. DOMAIN stack = 1 .. Len(stack) /\ Len(stack) \in Nat
  BY DEF TypeOK, IsSequence
<1>3. ASSUME NEW i \in DOMAIN stack
      PROVE  i \in 1 .. Len(stack) - 1 \/ i = Len(stack)
  BY <1>2
<1> QED
  BY <1>1, <1>3 DEF SameRefs, RefFrames, Top

\* Popping any frame removes at most the innermost reference.
LEMMA PopAny ==
  ASSUME TypeOK, stack # <<>>, stack' = Pop
  PROVE  /\ RefFrames' = RefFrames \ {Len(stack)}
         /\ \A i \in RefFrames' : stack'[i] = stack[i] /\ i < Len(stack)
         /\ RefFrames \subseteq Nat /\ Len(stack) \in Nat
<1>1. /\ DOMAIN stack' = 1 .. Len(stack) - 1
      /\ \A i \in 1 .. Len(stack) - 1 : stack'[i] = stack[i]
      /\ DOMAIN stack = 1 .. Len(stack) /\ Len(stack) \in Nat
  BY Popping DEF TypeOK, Pop
<1>2. \A i : i \in 1 .. Len(stack) - 1 <=> i \in 1 .. Len(stack) /\ i # Len(stack)
  BY <1>1
<1> QED
  BY <1>1, <1>2 DEF RefFrames

LEMMA PopOther ==
  ASSUME TypeOK, stack # <<>>, stack' = Pop, Top.fn # "ref"
  PROVE  SameRefs
<1>1. Len(stack) \notin RefFrames
  BY DEF RefFrames, Top
<1> QED
  BY <1>1, PopAny DEF SameRefs

\* What popping does to the sets of active substitutions.
LEMMA PopSets ==
  ASSUME TypeOK, MarkerInv, ~reused, stack # <<>>, stack' = Pop
  PROVE  /\ KeptMarkers'
         /\ \A i, j \in RefFrames' : stack'[i].v = stack'[j].v => i = j
         /\ Top.fn = "ref" => Active' = Active \ {Top.v}
<1>1. KeptMarkers /\ \A i, j \in RefFrames : stack[i].v = stack[j].v => i = j
  BY DEF MarkerInv
<1>2. \A i \in RefFrames' : ActiveUpTo(i)' = ActiveUpTo(i)
  <2> SUFFICES ASSUME NEW i \in RefFrames' PROVE ActiveUpTo(i)' = ActiveUpTo(i)
    OBVIOUS
  <2>1. {j \in RefFrames' : j <= i} = {j \in RefFrames : j <= i}
    BY PopAny
  <2>2. \A j \in {k \in RefFrames' : k <= i} : stack'[j] = stack[j]
    BY PopAny
  <2> QED
    BY <2>1, <2>2 DEF ActiveUpTo
<1>3. KeptMarkers'
  BY <1>1, <1>2, PopAny DEF KeptMarkers
<1>4. \A i, j \in RefFrames' : stack'[i].v = stack'[j].v => i = j
  BY <1>1, PopAny
<1>5. ASSUME Top.fn = "ref" PROVE Active' = Active \ {Top.v}
  <2>1. Len(stack) \in RefFrames
    BY <1>5, TopIsFrame DEF RefFrames, Top
  <2>2. \A i \in RefFrames : i # Len(stack) => stack[i].v # Top.v
    BY <1>1, <2>1 DEF Top
  <2>3. Active' = {stack[i].v : i \in RefFrames \ {Len(stack)}}
    BY PopAny DEF Active
  <2> QED
    BY <2>1, <2>2, <2>3 DEF Active, Top
<1> QED
  BY <1>3, <1>4, <1>5

LEMMA PopThrowing ==
  ASSUME TypeOK, MarkerInv, stack # <<>>, stack' = Pop, ctl'.op = "throw", reused' = reused
  PROVE  MarkerInv'
BY PopSets DEF MarkerInv

LEMMA PopReference ==
  ASSUME TypeOK, MarkerInv, stack # <<>>, stack' = Pop, Top.fn = "ref", reused' = reused,
         NEW ctx, IsContext(ctx), ~reused => ctx.markers = Active,
         NEW v, ctl' = ReferenceResult(Top.v, ctx, v)
  PROVE  MarkerInv'
<1>1. ASSUME ~reused, ctl'.op # "throw" PROVE ctl'.ctx.markers = Active \ {Top.v}
  BY <1>1, ContextCopies DEF ReferenceResult, Return, Throw
<1> QED
  BY <1>1, PopSets DEF MarkerInv

\* Entering a substitution that carries no marker adds a frame and its marker.
LEMMA PushReference ==
  ASSUME TypeOK, MarkerInv, NEW f, Push(f), f.fn = "ref", f.at = "lookup",
         reused' = reused, ctl.op = "subst", f.v = ctl.v, ctl.v \notin ctl.ctx.markers,
         ctl'.op # "throw" => ctl'.ctx.markers = ctl.ctx.markers \cup {ctl.v}
  PROVE  /\ MarkerInv'
         /\ ~reused => Active' = Active \cup {ctl.v} /\ ctl.v \notin Active
         /\ RefFrames' = RefFrames \cup {Len(stack) + 1}
         /\ Len(stack) + 1 \notin RefFrames
<1> DEFINE n == Len(stack) + 1
<1>1. /\ DOMAIN stack' = 1 .. n
      /\ \A i \in 1 .. Len(stack) : stack'[i] = stack[i]
      /\ stack'[n] = f
  BY Pushing DEF TypeOK, Push
<1>2. DOMAIN stack = 1 .. Len(stack) /\ Len(stack) \in Nat
  BY DEF TypeOK, IsSequence
<1>3. \A i \in 1 .. n : i \in 1 .. Len(stack) \/ i = n
  BY <1>2
<1>4. n \in 1 .. n /\ n \notin 1 .. Len(stack) /\ \A i \in 1 .. Len(stack) : i \in 1 .. n
  BY <1>2
<1> HIDE DEF n
<1>5. /\ RefFrames' = RefFrames \cup {n} /\ n \notin RefFrames
      /\ \A i \in RefFrames : stack'[i] = stack[i]
  BY <1>1, <1>2, <1>3, <1>4 DEF RefFrames
<1>6. ASSUME ~reused
      PROVE  Active' = Active \cup {ctl.v} /\ ctl.v \notin Active
  <2>1. Active = ctl.ctx.markers
    BY <1>6 DEF MarkerInv
  <2> QED
    BY <1>1, <1>5, <2>1 DEF Active
<1>7. ASSUME ~reused
      PROVE  \A i, j \in RefFrames' : stack'[i].v = stack'[j].v => i = j
  <2>1. \A i, j \in RefFrames : stack[i].v = stack[j].v => i = j
    BY <1>7 DEF MarkerInv
  <2>2. \A i \in RefFrames : stack[i].v # ctl.v
    BY <1>6, <1>7 DEF Active
  <2> QED
    BY <1>1, <1>5, <2>1, <2>2
<1>8. ASSUME ~reused
      PROVE  KeptMarkers'
  <2>1. \A i \in RefFrames : {j \in RefFrames' : j <= i} = {j \in RefFrames : j <= i}
    <3>1. \A i \in RefFrames : i \in 1 .. Len(stack)
      BY <1>2 DEF RefFrames
    <3>2. \A i \in RefFrames : ~(n <= i)
      BY <1>2, <3>1 DEF n
    <3> QED
      BY <1>5, <3>2
  <2>2. \A i \in RefFrames : ActiveUpTo(i)' = ActiveUpTo(i)
    <3> SUFFICES ASSUME NEW i \in RefFrames PROVE ActiveUpTo(i)' = ActiveUpTo(i)
      OBVIOUS
    <3>1. {j \in RefFrames' : j <= i} = {j \in RefFrames : j <= i}
      BY <2>1
    <3> QED
      BY <1>5, <3>1 DEF ActiveUpTo
  <2>3. stack'[n].at # "value"
    BY <1>1
  <2> QED
    BY <1>5, <1>8, <2>2, <2>3 DEF KeptMarkers, MarkerInv
<1>9. MarkerInv'
  BY <1>6, <1>7, <1>8 DEF MarkerInv
<1> QED
  BY <1>5, <1>6, <1>9 DEF n

\* A reference that found its value keeps a context with the markers of the
\* moment: those of the substitutions up to itself, since it is the innermost.
LEMMA RetopReference ==
  ASSUME TypeOK, MarkerInv, stack # <<>>, Top.fn = "ref", reused' = reused,
         NEW found, NEW ctx, ResolveFound(found, ctx), ~reused => ctx.markers = Active
  PROVE  /\ MarkerInv'
         /\ Active' = Active /\ RefFrames' = RefFrames
<1> DEFINE f == [Top EXCEPT !.at = "value", !.ctx = ctx]
           n == Len(stack)
<1>1. n \in DOMAIN stack /\ DOMAIN stack = 1 .. n /\ n \in Nat
  BY TopIsFrame DEF TypeOK, IsSequence
<1>2. f.fn = "ref" /\ f.v = Top.v /\ f.ctx = ctx
  BY TopIsFrame DEF IsFrame
<1>3. SetTop(f) /\ ctl' = Call(found.v, Source(Last(found.parents), found.parents), ctx)
  BY DEF ResolveFound
<1> HIDE DEF f
<1>4. /\ DOMAIN stack' = DOMAIN stack
      /\ \A i \in 1 .. n - 1 : stack'[i] = stack[i]
      /\ stack'[n] = f
  <2>1. IsSequence(stack) /\ stack' = Retopped(stack, f)
    BY <1>3 DEF TypeOK, SetTop
  <2> QED
    BY <2>1, ChangingTop
<1>5. \A i \in 1 .. n : i \in 1 .. n - 1 \/ i = n
  <2>1. n \in Nat
    BY <1>1
  <2> HIDE DEF n
  <2> QED
    BY <2>1
<1>6. /\ RefFrames' = RefFrames
      /\ \A i \in RefFrames : stack'[i].v = stack[i].v
      /\ \A i \in RefFrames : i # n => stack'[i] = stack[i]
      /\ \A i \in RefFrames : i <= n
  <2>1. stack[n].fn = "ref" /\ f.v = stack[n].v
    BY <1>2 DEF Top
  <2>2. \A i \in DOMAIN stack : i # n => stack'[i] = stack[i]
    BY <1>1, <1>4, <1>5
  <2>3. \A i \in DOMAIN stack : i <= n
    BY <1>1
  <2> HIDE DEF n
  <2>4. RefFrames' = RefFrames
    BY <1>1, <1>2, <1>4, <2>1, <2>2 DEF RefFrames
  <2> QED
    BY <1>2, <1>4, <2>1, <2>2, <2>3, <2>4 DEF RefFrames
<1>7. Active' = Active /\ \A i \in RefFrames : ActiveUpTo(i)' = ActiveUpTo(i)
  BY <1>6 DEF Active, ActiveUpTo
<1>8. ActiveUpTo(n) = Active
  BY <1>6 DEF ActiveUpTo, Active
<1>9. ctl'.op # "throw" /\ ctl'.ctx = ctx
  BY <1>3 DEF Call
<1>10. ASSUME ~reused PROVE KeptMarkers'
  <2>1. stack'[n].ctx.markers = ActiveUpTo(n)
    BY <1>2, <1>4, <1>8, <1>10
  <2> QED
    BY <1>6, <1>7, <1>10, <2>1 DEF KeptMarkers, MarkerInv
<1> QED
  BY <1>6, <1>7, <1>9, <1>10 DEF MarkerInv
\* The context kept in the innermost reference has every active marker.
LEMMA InnermostKeeps ==
  ASSUME TypeOK, MarkerInv, ~reused, stack # <<>>, Top.fn = "ref", Top.at = "value"
  PROVE  Top.ctx.markers = Active
<1>1. Len(stack) \in RefFrames
  BY TopIsFrame DEF RefFrames, Top
<1>2. Top.ctx.markers = ActiveUpTo(Len(stack))
  BY <1>1 DEF MarkerInv, KeptMarkers, Top
<1>3. \A i \in RefFrames : i <= Len(stack)
  BY DEF RefFrames, TypeOK, IsSequence
<1> QED
  BY <1>2, <1>3 DEF ActiveUpTo, Active

-----------------------------------------------------------------------------
\* No substitution is being resolved at the start.
LEMMA MarkerInit == Init => MarkerInv
<1> SUFFICES ASSUME Init PROVE MarkerInv
  OBVIOUS
<1>1. RefFrames = {}
  BY EmptyIsSequence DEF Init, RefFrames
<1>2. Active = {} /\ KeptMarkers
  BY <1>1 DEF Active, KeptMarkers
<1>3. ctl.ctx.markers = {}
  BY DEF Init, Call, Context
<1> QED
  BY <1>1, <1>2, <1>3 DEF MarkerInv

\* The steps of every function but config_reference leave the references as
\* they are and pass the markers on.
Elsewhere ==
  \/ MemoHit \/ CycleDetected \/ EnterResolve \/ LeaveResolve
  \/ SubstUnchanged
  \/ SubstObject \/ ObjectChild \/ ObjectChildDone \/ ObjectDone
  \/ SubstList \/ ListItem \/ ListItemDone \/ ListDone
  \/ SubstConcatenation \/ Piece \/ PieceDone \/ ConcatenationDone
  \/ SubstMerge \/ Layer \/ LayerDone \/ MergeDone

LEMMA OtherFunctions ==
  ASSUME TypeOK, Elsewhere
  PROVE  SameRefs /\ SameMarkers /\ reused' = reused
<1> USE DEF Call, Subst, Continue, Return, Throw
<1>1. CASE MemoHit \/ CycleDetected \/ SubstUnchanged
  <2>1. stack' = stack /\ reused' = reused
    BY <1>1 DEF MemoHit, CycleDetected, SubstUnchanged
  <2>2. SameRefs
    BY <2>1 DEF SameRefs, RefFrames
  <2>3. SameMarkers
    BY <1>1 DEF MemoHit, CycleDetected, SubstUnchanged, SameMarkers
  <2> QED
    BY <2>1, <2>2, <2>3
<1>2. CASE EnterResolve
  BY <1>2, PushOther DEF EnterResolve, Frame, SameMarkers
<1>3. CASE SubstObject
  BY <1>3, PushOther DEF SubstObject, Frame, SameMarkers
<1>4. CASE SubstList
  BY <1>4, PushOther DEF SubstList, Frame, SameMarkers
<1>5. CASE SubstConcatenation
  BY <1>5, PushOther DEF SubstConcatenation, Frame, SameMarkers
<1>6. CASE SubstMerge
  BY <1>6, PushOther DEF SubstMerge, Frame, SameMarkers
<1>7. CASE LeaveResolve
  <2>1. stack # <<>> /\ Top.fn # "ref" /\ stack' = Pop /\ reused' = reused /\ IsContext(ctl.ctx)
    BY <1>7 DEF LeaveResolve, Running, TypeOK
  <2>2. SameMarkers
    BY <1>7, <2>1, ContextCopies DEF LeaveResolve, Running, SameMarkers
  <2> QED
    BY <2>1, <2>2, PopOther
<1>8. CASE ObjectDone
  <2>1. stack # <<>> /\ Top.fn # "ref" /\ stack' = Pop /\ reused' = reused
    BY <1>8 DEF ObjectDone, Running
  <2>2. SameMarkers
    BY <1>8 DEF ObjectDone, Running, SameMarkers
  <2> QED
    BY <2>1, <2>2, PopOther
<1>9. CASE ListDone
  <2>1. stack # <<>> /\ Top.fn # "ref" /\ stack' = Pop /\ reused' = reused
    BY <1>9 DEF ListDone, Running
  <2>2. SameMarkers
    BY <1>9 DEF ListDone, Running, SameMarkers
  <2> QED
    BY <2>1, <2>2, PopOther
<1>10. CASE ConcatenationDone
  <2>1. stack # <<>> /\ Top.fn # "ref" /\ stack' = Pop /\ reused' = reused
    BY <1>10 DEF ConcatenationDone, Running
  <2>2. SameMarkers
    BY <1>10 DEF ConcatenationDone, ReturnOrThrow, Running, SameMarkers
  <2> QED
    BY <2>1, <2>2, PopOther
<1>11. CASE MergeDone
  <2>1. stack # <<>> /\ Top.fn # "ref" /\ stack' = Pop /\ reused' = reused
    BY <1>11 DEF MergeDone, Running
  <2>2. SameMarkers
    BY <1>11 DEF MergeDone, Running, SameMarkers
  <2> QED
    BY <2>1, <2>2, PopOther
<1>12. CASE ObjectChild
  <2>1. stack # <<>> /\ Top.fn # "ref" /\ reused' = reused /\ IsContext(ctl.ctx)
    BY <1>12 DEF ObjectChild, Running, TypeOK
  <2>2. PICK f : SetTop(f) /\ f.fn # "ref"
    <3>1. PICK key \in Top.todo : SetTop([Top EXCEPT !.at = key, !.todo = @ \ {key}])
      BY <1>12 DEF ObjectChild
    <3>2. [Top EXCEPT !.at = key, !.todo = @ \ {key}].fn = Top.fn
      BY <2>1, TopIsFrame DEF IsFrame
    <3> QED
      BY <2>1, <3>1, <3>2
  <2>3. SameMarkers
    BY <1>12, <2>1, ContextCopies DEF ObjectChild, Running, SameMarkers
  <2> QED
    BY <2>1, <2>2, <2>3, RetopOther
<1>13. CASE ObjectChildDone
  <2>1. stack # <<>> /\ Top.fn # "ref" /\ reused' = reused /\ IsContext(ctl.ctx)
    BY <1>13 DEF ObjectChildDone, Running, TypeOK
  <2>2. PICK f : SetTop(f) /\ f.fn # "ref"
    <3>1. IsFrame(Top)
      BY <2>1, TopIsFrame
    <3> QED
      BY <1>13, <2>1, <3>1 DEF ObjectChildDone, IsFrame
  <2>3. SameMarkers
    BY <1>13, <2>1, ContextCopies DEF ObjectChildDone, Running, SameMarkers
  <2> QED
    BY <2>1, <2>2, <2>3, RetopOther
<1>14. CASE ListItem
  <2>1. stack # <<>> /\ Top.fn # "ref" /\ reused' = reused /\ IsContext(ctl.ctx)
    BY <1>14 DEF ListItem, Running, TypeOK
  <2>2. PICK f : SetTop(f) /\ f.fn # "ref"
    <3>1. IsFrame(Top)
      BY <2>1, TopIsFrame
    <3> QED
      BY <1>14, <2>1, <3>1 DEF ListItem, IsFrame
  <2>3. SameMarkers
    BY <1>14, <2>1, ContextCopies DEF ListItem, Running, SameMarkers
  <2> QED
    BY <2>1, <2>2, <2>3, RetopOther
<1>15. CASE ListItemDone
  <2>1. stack # <<>> /\ Top.fn # "ref" /\ reused' = reused /\ IsContext(ctl.ctx)
    BY <1>15 DEF ListItemDone, Running, TypeOK
  <2>2. PICK f : SetTop(f) /\ f.fn # "ref"
    <3>1. IsFrame(Top)
      BY <2>1, TopIsFrame
    <3> QED
      BY <1>15, <2>1, <3>1 DEF ListItemDone, IsFrame
  <2>3. SameMarkers
    BY <1>15, <2>1, ContextCopies DEF ListItemDone, Running, SameMarkers
  <2> QED
    BY <2>1, <2>2, <2>3, RetopOther
<1>16. CASE Piece
  <2>1. stack # <<>> /\ Top.fn # "ref" /\ reused' = reused /\ IsContext(ctl.ctx)
    BY <1>16 DEF Piece, Running, TypeOK
  <2>2. PICK f : SetTop(f) /\ f.fn # "ref"
    <3>1. SetTop([Top EXCEPT !.at = @ + 1, !.ctx = ctl.ctx])
      BY <1>16 DEF Piece
    <3>2. [Top EXCEPT !.at = @ + 1, !.ctx = ctl.ctx].fn = Top.fn
      BY <2>1, TopIsFrame DEF IsFrame
    <3> QED
      BY <2>1, <3>1, <3>2
  <2>3. SameMarkers
    BY <1>16, <2>1, ContextCopies DEF Piece, Running, SameMarkers
  <2> QED
    BY <2>1, <2>2, <2>3, RetopOther
<1>17. CASE PieceDone
  <2>1. stack # <<>> /\ Top.fn # "ref" /\ reused' = reused /\ IsContext(ctl.ctx)
    BY <1>17 DEF PieceDone, Running, TypeOK
  <2>2. PICK f : SetTop(f) /\ f.fn # "ref"
    <3>1. IsFrame(Top)
      BY <2>1, TopIsFrame
    <3> QED
      BY <1>17, <2>1, <3>1 DEF PieceDone, IsFrame
  <2>3. SameMarkers
    BY <1>17, <2>1, ContextCopies DEF PieceDone, Running, SameMarkers
  <2> QED
    BY <2>1, <2>2, <2>3, RetopOther
<1>18. CASE Layer
  <2>1. stack # <<>> /\ Top.fn # "ref" /\ reused' = reused /\ IsContext(ctl.ctx)
    BY <1>18 DEF Layer, Running, TypeOK
  <2>2. PICK f : SetTop(f) /\ f.fn # "ref"
    <3>1. IsFrame(Top)
      BY <2>1, TopIsFrame
    <3> QED
      BY <1>18, <2>1, <3>1 DEF Layer, IsFrame
  <2>3. SameMarkers
    BY <1>18, <2>1, ContextCopies DEF Layer, Running, SameMarkers
  <2> QED
    BY <2>1, <2>2, <2>3, RetopOther
<1>19. CASE LayerDone
  <2>1. stack # <<>> /\ Top.fn # "ref" /\ reused' = reused /\ IsContext(ctl.ctx)
    BY <1>19 DEF LayerDone, Running, TypeOK
  <2>2. PICK f : SetTop(f) /\ f.fn # "ref"
    <3>1. IsFrame(Top)
      BY <2>1, TopIsFrame
    <3> QED
      BY <1>19, <2>1, <3>1 DEF LayerDone, IsFrame
  <2>3. SameMarkers
    BY <1>19, <2>1, ContextCopies DEF LayerDone, Running, SameMarkers
  <2> QED
    BY <2>1, <2>2, <2>3, RetopOther
<1> QED
  BY <1>1, <1>2, <1>3, <1>4, <1>5, <1>6, <1>7, <1>8, <1>9, <1>10, <1>11, <1>12, <1>13,
     <1>14, <1>15, <1>16, <1>17, <1>18, <1>19 DEF Elsewhere
\* Every step keeps the discipline of the markers.
LEMMA MarkerNext == TypeOK /\ MarkerInv /\ [Next]_vars => MarkerInv'
<1> SUFFICES ASSUME TypeOK, MarkerInv, [Next]_vars PROVE MarkerInv'
  OBVIOUS
<1>1. CASE UNCHANGED vars
  BY <1>1 DEF vars, MarkerInv, Active, RefFrames, KeptMarkers, ActiveUpTo
<1>2. CASE Elsewhere
  BY <1>2, OtherFunctions, QuietStep
<1>3. CASE SubstReference
  <2> DEFINE f == Frame("ref", ctl.v, ctl.src, AddMarker(ctl.ctx, ctl.v), "lookup", {}, NoValue)
  <2>1. IsContext(ctl.ctx) /\ ctl.op = "subst" /\ ctl.v.t = "ref" /\ reused' = reused
    BY <1>3 DEF SubstReference, TypeOK
  <2>2. CASE (ctl' = Throw("bug") \/ ctl' = Throw("undefined")) /\ UNCHANGED stack
    BY <2>1, <2>2, QuietStep DEF SameRefs, RefFrames, SameMarkers, Throw
  <2>3. CASE /\ ctl.v \notin ctl.ctx.markers /\ Push(f)
             /\ ctl' = Call(ctl.src.root, Source(ctl.src.root, <<>>),
                            RestrictTo(AddMarker(ctl.ctx, ctl.v), ctl.v.path))
    <3>1. f.fn = "ref" /\ f.at = "lookup" /\ f.v = ctl.v
      BY DEF Frame
    <3>2. /\ IsContext(AddMarker(ctl.ctx, ctl.v))
          /\ AddMarker(ctl.ctx, ctl.v).markers = ctl.ctx.markers \cup {ctl.v}
      BY <2>1, ContextCopies
    <3>3. ctl'.ctx.markers = ctl.ctx.markers \cup {ctl.v}
      BY <2>3, <3>2, ContextCopies DEF Call
    <3> HIDE DEF f
    <3> QED
      BY <2>1, <2>3, <3>1, <3>3, PushReference
  <2> QED
    BY <1>3, <2>2, <2>3 DEF SubstReference
<1>4. CASE LookupFailed
  <2>1. stack # <<>> /\ stack' = Pop /\ ctl'.op = "throw" /\ reused' = reused
    BY <1>4 DEF LookupFailed, Running, Throw
  <2> QED
    BY <2>1, PopThrowing
<1>5. CASE LookupFound
  <2>1. /\ stack # <<>> /\ Top.fn = "ref" /\ reused' = reused /\ IsContext(ctl.ctx)
        /\ ctl.op # "throw" /\ ResolveFound(Found, RestrictTo(ctl.ctx, Top.ctx.restrict))
    BY <1>5 DEF LookupFound, Running, TypeOK
  <2>2. ~reused => RestrictTo(ctl.ctx, Top.ctx.restrict).markers = Active
    BY <2>1, ContextCopies DEF MarkerInv
  <2> QED
    BY <2>1, <2>2, RetopReference
<1>6. CASE LookupEnvironment
  BY <1>6 DEF LookupEnvironment, MarkerInv
<1>7. CASE LookupMissing
  <2> DEFINE ctx == RestrictTo(ctl.ctx, Top.ctx.restrict)
  <2>1. /\ stack # <<>> /\ Top.fn = "ref" /\ reused' = reused /\ IsContext(ctl.ctx)
        /\ ctl.op # "throw" /\ stack' = Pop
        /\ ctl' = ReferenceResult(Top.v, ctx, NoValue)
    BY <1>7 DEF LookupMissing, Running, TypeOK
  <2>2. IsContext(ctx) /\ (~reused => ctx.markers = Active)
    BY <2>1, ContextCopies DEF MarkerInv
  <2> QED
    BY <2>1, <2>2, PopReference
<1>8. CASE ReferenceDone
  <2>1. /\ stack # <<>> /\ Top.fn = "ref" /\ reused' = reused /\ IsContext(ctl.ctx)
        /\ ctl.op # "throw" /\ stack' = Pop
        /\ ctl' = ReferenceResult(Top.v, ctl.ctx, ctl.v)
    BY <1>8 DEF ReferenceDone, Running, TypeOK
  <2>2. ~reused => ctl.ctx.markers = Active
    BY <2>1 DEF MarkerInv
  <2> QED
    BY <2>1, <2>2, PopReference
<1>9. CASE Unwind
  <2>1. stack # <<>> /\ stack' = Pop /\ ctl'.op = "throw" /\ reused' = reused
    BY <1>9 DEF Unwind
  <2> QED
    BY <2>1, PopThrowing
<1>10. CASE CycleCaught
  <2>1. stack # <<>> /\ stack' = Pop /\ Top.fn = "ref"
    BY <1>10 DEF CycleCaught, Catches
  <2>2. CASE Top.v.optional /\ Top.at = "lookup"
    BY <1>10, <2>2 DEF CycleCaught, MarkerInv
  <2>3. CASE Top.v.optional /\ Top.at # "lookup"
    <3>1. /\ ctl' = Return(RemoveMarker(Top.ctx, Top.v), NoValue)
          /\ reused' = (reused \/ Top.at = "lookup")
      BY <1>10, <2>3 DEF CycleCaught
    <3>2. IsFrame(Top) /\ IsContext(Top.ctx) /\ Top.at = "value"
      BY <2>1, <2>3, TopIsFrame DEF IsFrame
    <3>3. ~reused' => ~reused
      BY <3>1, Zenon
    <3>4. ASSUME ~reused PROVE Top.ctx.markers = Active
      BY <2>1, <3>2, <3>4, InnermostKeeps
    <3>5. ctl'.ctx.markers = Top.ctx.markers \ {Top.v} /\ ctl'.op # "throw"
      BY <3>1, <3>2, ContextCopies DEF Return
    <3> QED
      BY <2>1, <3>3, <3>4, <3>5, PopSets DEF MarkerInv
  <2>4. CASE ~Top.v.optional
    <3>1. ctl' = Throw("cycle") /\ reused' = reused
      BY <1>10, <2>4 DEF CycleCaught
    <3> QED
      BY <2>1, <3>1, PopThrowing DEF Throw
  <2> QED
    BY <2>2, <2>3, <2>4
<1> QED
  BY <1>1, <1>2, <1>3, <1>4, <1>5, <1>6, <1>7, <1>8, <1>9, <1>10 DEF Next, Elsewhere
\* The cycle markers of a call are exactly the substitutions being resolved.
THEOREM Markers == Spec => []MarkersAreActive
<1>1. MarkerInv => MarkersAreActive
  BY DEF MarkerInv, MarkersAreActive
<1> QED
  BY <1>1, TypeInit, TypeNext, MarkerInit, MarkerNext, PTL DEF Spec

\* No substitution is resolved while it is being resolved, so a document of n
\* substitutions never nests more than n of them: no cycle overflows the stack.
THEOREM NeverReentered == Spec => []NoReentry
<1>1. MarkerInv => NoReentry
  BY DEF MarkerInv, NoReentry
<1> QED
  BY <1>1, TypeInit, TypeNext, MarkerInit, MarkerNext, PTL DEF Spec

-----------------------------------------------------------------------------
(***************************************************************************)
(* Resolution implements SubstitutionCycles: SubstReference enters, what   *)
(* pops a reference leaves, and everything else is a stuttering step.      *)
(***************************************************************************)
LEMMA RefFramesFinite ==
  ASSUME TypeOK
  PROVE  IsFiniteSet(RefFrames) /\ Cardinality(RefFrames) \in Nat
<1>1. IsFiniteSet(DOMAIN stack)
  BY FS_Interval DEF TypeOK, IsSequence
<1> QED
  BY <1>1, FS_Subset, FS_CardinalityType DEF RefFrames

LEMMA EnterStep ==
  ASSUME TypeOK, ~reused, reused' = reused, NEW v, Active' = Active \cup {v}, v \notin Active,
         NEW i, RefFrames' = RefFrames \cup {i}, i \notin RefFrames
  PROVE  Cycles!Enter
<1>1. Cardinality(RefFrames)' = Cardinality(RefFrames) + 1
  BY RefFramesFinite, FS_AddElement
<1> QED
  BY <1>1 DEF Cycles!Enter

LEMMA LeaveStep ==
  ASSUME TypeOK, MarkerInv, ~reused, stack # <<>>, Top.fn = "ref", stack' = Pop,
         reused' = reused
  PROVE  Cycles!Leave
<1>1. Len(stack) \in RefFrames
  BY TopIsFrame DEF RefFrames, Top
<1>2. RefFrames' = RefFrames \ {Len(stack)}
  BY PopAny
<1>3. Cardinality(RefFrames)' = Cardinality(RefFrames) - 1
  BY <1>1, <1>2, RefFramesFinite, FS_RemoveElement
<1>4. Active' = Active \ {Top.v} /\ Top.v \in Active
  BY <1>1, PopSets DEF Active, Top
<1> QED
  BY <1>3, <1>4 DEF Cycles!Leave

LEMMA CyclesInit == Init => Cycles!Init
<1> SUFFICES ASSUME Init PROVE Cycles!Init
  OBVIOUS
<1>1. RefFrames = {}
  BY EmptyIsSequence DEF Init, RefFrames
<1>2. Active = {} /\ Cardinality(RefFrames) = 0
  BY <1>1, FS_EmptySet DEF Active
<1> QED
  BY <1>2 DEF Init, Cycles!Init

LEMMA CyclesNext == TypeOK /\ MarkerInv /\ [Next]_vars => [Cycles!Next]_Cycles!vars
<1> SUFFICES ASSUME TypeOK, MarkerInv, [Next]_vars PROVE [Cycles!Next]_Cycles!vars
  OBVIOUS
<1>1. CASE UNCHANGED vars
  BY <1>1 DEF vars, Cycles!vars, Active, RefFrames
<1>2. ASSUME SameRefs, reused' = reused PROVE UNCHANGED Cycles!vars
  BY <1>2 DEF SameRefs, Active, Cycles!vars
<1>3. ASSUME stack # <<>>, stack' = Pop, reused' = reused, ~reused PROVE [Cycles!Next]_Cycles!vars
  <2>1. CASE Top.fn = "ref"
    BY <1>3, <2>1, LeaveStep DEF Cycles!Next
  <2>2. CASE Top.fn # "ref"
    BY <1>2, <1>3, <2>2, PopOther
  <2> QED
    BY <2>1, <2>2
<1>4. CASE Elsewhere
  BY <1>2, <1>4, OtherFunctions
<1>5. CASE reused /\ ~Elsewhere /\ ~(UNCHANGED vars)
  <2>1. CycleCaught => reused'
    BY <1>5, Zenon DEF CycleCaught
  <2>2. reused' \in BOOLEAN
    BY TypeNext DEF TypeOK
  <2>3. reused' = reused
    BY <1>5, <2>1, <2>2 DEF TypeOK, Next, Elsewhere, SubstReference, LookupFailed, LookupFound,
       LookupEnvironment, LookupMissing, ReferenceDone, Unwind
  <2> QED
    BY <1>5, <2>3 DEF Cycles!Next, Cycles!Forgotten
<1>6. CASE SubstReference /\ ~reused
  <2> DEFINE f == Frame("ref", ctl.v, ctl.src, AddMarker(ctl.ctx, ctl.v), "lookup", {}, NoValue)
  <2>1. IsContext(ctl.ctx) /\ ctl.op = "subst" /\ reused' = reused
    BY <1>6 DEF SubstReference, TypeOK
  <2>2. CASE UNCHANGED stack
    BY <1>2, <2>1, <2>2 DEF SameRefs, RefFrames
  <2>3. CASE /\ ctl.v \notin ctl.ctx.markers /\ Push(f)
             /\ ctl' = Call(ctl.src.root, Source(ctl.src.root, <<>>),
                            RestrictTo(AddMarker(ctl.ctx, ctl.v), ctl.v.path))
    <3>1. f.fn = "ref" /\ f.at = "lookup" /\ f.v = ctl.v
      BY DEF Frame
    <3>2. /\ IsContext(AddMarker(ctl.ctx, ctl.v)) \/ ctl.v.t # "ref"
          /\ AddMarker(ctl.ctx, ctl.v).markers = ctl.ctx.markers \cup {ctl.v}
      BY <2>1, ContextCopies
    <3>3. ctl'.ctx.markers = ctl.ctx.markers \cup {ctl.v}
      BY <1>6, <2>3, <3>2, ContextCopies DEF Call, SubstReference
    <3> HIDE DEF f
    <3>4. /\ Active' = Active \cup {ctl.v} /\ ctl.v \notin Active
          /\ RefFrames' = RefFrames \cup {Len(stack) + 1} /\ Len(stack) + 1 \notin RefFrames
      BY <1>6, <2>1, <2>3, <3>1, <3>3, PushReference
    <3> QED
      BY <1>6, <2>1, <3>4, EnterStep DEF Cycles!Next
  <2> QED
    BY <1>6, <2>2, <2>3 DEF SubstReference
<1>7. CASE LookupFailed /\ ~reused
  BY <1>3, <1>7 DEF LookupFailed, Running
<1>8. CASE LookupFound /\ ~reused
  <2>1. /\ stack # <<>> /\ Top.fn = "ref" /\ reused' = reused /\ IsContext(ctl.ctx)
        /\ ctl.op # "throw" /\ ResolveFound(Found, RestrictTo(ctl.ctx, Top.ctx.restrict))
    BY <1>8 DEF LookupFound, Running, TypeOK
  <2>2. RestrictTo(ctl.ctx, Top.ctx.restrict).markers = Active
    BY <1>8, <2>1, ContextCopies DEF MarkerInv
  <2> QED
    BY <2>1, <2>2, RetopReference DEF Cycles!vars
<1>9. CASE LookupEnvironment /\ ~reused
  BY <1>9 DEF LookupEnvironment, Cycles!Next, Cycles!Forget
<1>10. CASE (LookupMissing \/ ReferenceDone \/ Unwind) /\ ~reused
  BY <1>3, <1>10 DEF LookupMissing, ReferenceDone, Unwind, Running
<1>11. CASE CycleCaught /\ ~reused
  <2>1. stack # <<>> /\ stack' = Pop
    BY <1>11 DEF CycleCaught
  <2>2. CASE reused' = TRUE
    BY <1>11, <2>2 DEF Cycles!Next, Cycles!Forget
  <2>3. CASE reused' = FALSE
    BY <1>3, <1>11, <2>1, <2>3 DEF TypeOK
  <2>4. reused' \in BOOLEAN
    BY TypeNext DEF TypeOK
  <2> QED
    BY <2>2, <2>3, <2>4
<1> QED
  BY <1>1, <1>4, <1>5, <1>6, <1>7, <1>8, <1>9, <1>10, <1>11 DEF Next, Elsewhere

\* Resolution implements the abstract specification of cycle detection.
THEOREM Refinement == Spec => EntersOnce
BY TypeInit, TypeNext, MarkerInit, MarkerNext, CyclesInit, CyclesNext, PTL
   DEF Spec, EntersOnce, Cycles!Spec

-----------------------------------------------------------------------------
(***************************************************************************)
(* The inductive invariant.  While a frame waits for a call, the context   *)
(* it keeps has the restriction it was called with, and that decides the   *)
(* one it has called with.                                                 *)
(***************************************************************************)
Expected(f) ==
  CASE f.fn = "object" -> IF f.ctx.restrict # <<>> THEN Tail(f.ctx.restrict) ELSE <<>>
    [] f.fn = "concat" -> <<>>
    [] f.fn = "ref" /\ f.at = "lookup" -> f.v.path
    [] OTHER -> f.ctx.restrict

Linked(s) == \A i \in 2 .. Len(s) : s[i].ctx.restrict = Expected(s[i - 1])

AtHand(s, c) ==
  s # <<>> =>
    /\ c.op \in {"resolve", "subst", "return"} => c.ctx.restrict = Expected(s[Len(s)])
    /\ c.op = "continue" => c.ctx.restrict = s[Len(s)].ctx.restrict

RestrictInv == ~reused => Linked(stack) /\ AtHand(stack, ctl)

\* A function is called, or calls at once.
LEMMA PushLinks ==
  ASSUME TypeOK, RestrictInv, ctl.op \in {"resolve", "subst"}, NEW f, Push(f), reused' = reused,
         f.ctx.restrict = ctl.ctx.restrict,
         \/ ctl'.op = "continue" /\ ctl'.ctx.restrict = f.ctx.restrict
         \/ ctl'.op \in {"resolve", "subst"} /\ ctl'.ctx.restrict = Expected(f)
  PROVE  RestrictInv'
<1> SUFFICES ASSUME ~reused
             PROVE  Linked(stack') /\ AtHand(stack', ctl')
  BY DEF RestrictInv
<1>1. IsSequence(stack) /\ stack' = Append(stack, f) /\ Linked(stack) /\ AtHand(stack, ctl)
  BY DEF TypeOK, RestrictInv, Push
<1> DEFINE n == Len(stack)
<1>2. /\ n \in Nat /\ Len(stack') = n + 1 /\ stack'[n + 1] = f
      /\ \A i \in 1 .. n : stack'[i] = stack[i]
  BY <1>1, Pushing DEF IsSequence
<1>3. ASSUME NEW i \in 2 .. Len(stack')
      PROVE  stack'[i].ctx.restrict = Expected(stack'[i - 1])
  <2>1. i - 1 \in 1 .. n /\ (i = n + 1 \/ i \in 2 .. n) /\ (i = n + 1 => n # 0 /\ i - 1 = n)
    BY <1>2
  <2>2. CASE i = n + 1
    <3>1. stack # <<>>
      BY <2>1, <2>2, EmptyIsSequence
    <3>2. f.ctx.restrict = Expected(stack[n])
      BY <1>1, <3>1 DEF AtHand
    <3> HIDE DEF n
    <3> QED
      BY <1>2, <2>1, <2>2, <3>2
  <2>3. CASE i \in 2 .. n
    <3>1. i \in 1 .. n
      BY <2>3
    <3>2. stack[i].ctx.restrict = Expected(stack[i - 1])
      BY <1>1, <2>3 DEF Linked
    <3> HIDE DEF n
    <3> QED
      BY <1>2, <2>1, <3>1, <3>2
  <2> QED
    BY <2>1, <2>2, <2>3
<1>4. stack'[Len(stack')] = f
  BY <1>2
<1> QED
  BY <1>3, <1>4 DEF Linked, AtHand

\* A function returns, or is left by an exception.
LEMMA PopLinks ==
  ASSUME TypeOK, RestrictInv, stack # <<>>, stack' = Pop, reused => reused',
         \/ reused'
         \/ ctl'.op = "throw"
         \/ ctl'.op = "return" /\ ctl'.ctx.restrict = Top.ctx.restrict
  PROVE  RestrictInv'
<1> SUFFICES ASSUME ~reused'
             PROVE  Linked(stack') /\ AtHand(stack', ctl')
  BY DEF RestrictInv
<1>1. IsSequence(stack) /\ stack' = Popped(stack) /\ Linked(stack)
  BY DEF TypeOK, RestrictInv, Pop
<1> DEFINE n == Len(stack)
<1>2. /\ n \in Nat \ {0} /\ Len(stack') = n - 1
      /\ \A i \in 1 .. n - 1 : stack'[i] = stack[i]
      /\ IsSequence(stack')
  BY <1>1, Popping
<1>3. ASSUME NEW i \in 2 .. Len(stack')
      PROVE  stack'[i].ctx.restrict = Expected(stack'[i - 1])
  <2>1. i \in 2 .. n /\ i \in 1 .. n - 1 /\ i - 1 \in 1 .. n - 1
    BY <1>2
  <2>2. stack[i].ctx.restrict = Expected(stack[i - 1])
    BY <1>1, <2>1 DEF Linked
  <2> HIDE DEF n
  <2> QED
    BY <1>2, <2>1, <2>2
<1>4. ASSUME stack' # <<>>
      PROVE  Top.ctx.restrict = Expected(stack'[Len(stack')])
  <2>1. Len(stack') \in Nat \ {0}
    BY <1>2, <1>4, Popping
  <2>2. n \in 2 .. n /\ n - 1 \in 1 .. n - 1
    BY <1>2, <2>1
  <2>3. stack[n].ctx.restrict = Expected(stack[n - 1])
    BY <1>1, <2>2 DEF Linked
  <2>4. stack'[Len(stack')] = stack[n - 1]
    BY <1>2, <2>2
  <2> QED
    BY <2>3, <2>4 DEF Top
<1> QED
  BY <1>3, <1>4 DEF Linked, AtHand

\* A function goes on, and keeps the restriction it was called with.
LEMMA RetopLinks ==
  ASSUME TypeOK, RestrictInv, stack # <<>>, NEW f, SetTop(f), reused' = reused,
         ~reused =>
           /\ f.ctx.restrict = Top.ctx.restrict
           /\ \/ ctl'.op = "throw"
              \/ ctl'.op = "continue" /\ ctl'.ctx.restrict = f.ctx.restrict
              \/ ctl'.op = "resolve" /\ ctl'.ctx.restrict = Expected(f)
  PROVE  RestrictInv'
<1> SUFFICES ASSUME ~reused
             PROVE  Linked(stack') /\ AtHand(stack', ctl')
  BY DEF RestrictInv
<1>1. IsSequence(stack) /\ stack' = Retopped(stack, f) /\ Linked(stack)
  BY DEF TypeOK, RestrictInv, SetTop
<1> DEFINE n == Len(stack)
<1>2. /\ n \in Nat \ {0} /\ Len(stack') = n /\ stack'[n] = f
      /\ \A i \in 1 .. n - 1 : stack'[i] = stack[i]
  BY <1>1, ChangingTop, Popping
<1>3. ASSUME NEW i \in 2 .. Len(stack')
      PROVE  stack'[i].ctx.restrict = Expected(stack'[i - 1])
  <2>1. i \in 2 .. n /\ i - 1 \in 1 .. n - 1 /\ (i = n \/ i \in 1 .. n - 1)
    BY <1>2
  <2>2. stack[i].ctx.restrict = Expected(stack[i - 1])
    BY <1>1, <2>1 DEF Linked
  <2>3. stack'[i].ctx.restrict = stack[i].ctx.restrict
    <3>1. Top = stack[n]
      BY DEF Top
    <3> HIDE DEF n
    <3> QED
      BY <1>2, <2>1, <3>1
  <2> HIDE DEF n
  <2> QED
    BY <1>2, <2>1, <2>2, <2>3
<1>4. stack'[Len(stack')] = f
  BY <1>2
<1> QED
  BY <1>3, <1>4 DEF Linked, AtHand

\* A call that does nothing returns at once.
LEMMA StaysLinked ==
  ASSUME TypeOK, RestrictInv, stack' = stack, reused' = reused,
         \/ ctl'.op = "throw"
         \/ /\ ctl.op \in {"resolve", "subst"} /\ ctl'.op = "return"
            /\ ctl'.ctx.restrict = ctl.ctx.restrict
  PROVE  RestrictInv'
BY DEF RestrictInv, AtHand

\* The copies of a context.
LEMMA RestrictionOfCopies ==
  /\ \A ctx, path : RestrictTo(ctx, path).restrict = path
  /\ \A ctx, ref : AddMarker(ctx, ref).restrict = ctx.restrict /\ RemoveMarker(ctx, ref).restrict = ctx.restrict
  /\ \A ctx, key, v : IsContext(ctx) => Memoize(ctx, key, v).restrict = ctx.restrict
BY DEF RestrictTo, AddMarker, RemoveMarker, Memoize, Context, IsContext

-----------------------------------------------------------------------------
(***************************************************************************)
(* The steps, grouped by what they do to the stack.                        *)
(***************************************************************************)
Calls ==
  \/ EnterResolve \/ SubstObject \/ SubstList \/ SubstConcatenation \/ SubstMerge
  \/ SubstReference

LEMMA CallsKeep == TypeOK /\ RestrictInv /\ Calls => RestrictInv'
<1> SUFFICES ASSUME TypeOK, RestrictInv, Calls PROVE RestrictInv'
  OBVIOUS
<1> USE DEF Call, Subst, Continue, Throw
<1>1. CASE EnterResolve
  <2> DEFINE f == Frame("resolve", ctl.v, ctl.src, ctl.ctx, 0, {}, NoValue)
  <2>1. f.ctx.restrict = ctl.ctx.restrict /\ Expected(f) = ctl.ctx.restrict
    BY DEF Frame, Expected
  <2>2. /\ Push(f) /\ reused' = reused /\ ctl.op = "resolve"
        /\ ctl'.op = "subst" /\ ctl'.ctx.restrict = ctl.ctx.restrict
    BY <1>1 DEF EnterResolve
  <2> HIDE DEF f
  <2> QED
    BY <2>1, <2>2, PushLinks
<1>2. CASE SubstObject
  <2> DEFINE f == Frame("object", ctl.v, PushParent(ctl.src, ctl.v), ctl.ctx, "",
                        ChildrenToResolve(ctl.v, ctl.ctx.restrict), [k \in {} |-> NoValue])
  <2>1. f.ctx.restrict = ctl.ctx.restrict
    BY DEF Frame
  <2>2. /\ Push(f) /\ reused' = reused /\ ctl.op = "subst"
        /\ ctl'.op = "continue" /\ ctl'.ctx.restrict = ctl.ctx.restrict
    BY <1>2 DEF SubstObject
  <2> HIDE DEF f
  <2> QED
    BY <2>1, <2>2, PushLinks
<1>3. CASE SubstList
  <2> DEFINE f == Frame("list", ctl.v, PushParent(ctl.src, ctl.v), ctl.ctx, 0, {},
                        [started |-> FALSE, items |-> <<>>])
  <2>1. f.ctx.restrict = ctl.ctx.restrict
    BY DEF Frame
  <2>2. /\ Push(f) /\ reused' = reused /\ ctl.op = "subst"
        /\ ctl'.op = "continue" /\ ctl'.ctx.restrict = ctl.ctx.restrict
    BY <1>3 DEF SubstList
  <2> HIDE DEF f
  <2> QED
    BY <2>1, <2>2, PushLinks
<1>4. CASE SubstConcatenation
  <2> DEFINE f == Frame("concat", ctl.v, ctl.src, ctl.ctx, 0, {}, <<>>)
  <2>1. f.ctx.restrict = ctl.ctx.restrict
    BY DEF Frame
  <2>2. /\ Push(f) /\ reused' = reused /\ ctl.op = "subst"
        /\ ctl'.op = "continue" /\ ctl'.ctx.restrict = ctl.ctx.restrict
    BY <1>4 DEF SubstConcatenation
  <2> HIDE DEF f
  <2> QED
    BY <2>1, <2>2, PushLinks
<1>5. CASE SubstMerge
  <2> DEFINE f == Frame("merge", ctl.v, ctl.src, ctl.ctx, 0, {}, NoValue)
  <2>1. f.ctx.restrict = ctl.ctx.restrict
    BY DEF Frame
  <2>2. /\ Push(f) /\ reused' = reused /\ ctl.op = "subst"
        /\ ctl'.op = "continue" /\ ctl'.ctx.restrict = ctl.ctx.restrict
    BY <1>5 DEF SubstMerge
  <2> HIDE DEF f
  <2> QED
    BY <2>1, <2>2, PushLinks
<1>6. CASE SubstReference
  <2> DEFINE marked == AddMarker(ctl.ctx, ctl.v)
             f == Frame("ref", ctl.v, ctl.src, marked, "lookup", {}, NoValue)
  <2>1. CASE ctl'.op = "throw" /\ stack' = stack /\ reused' = reused
    BY <2>1, StaysLinked
  <2>2. CASE /\ Push(f) /\ reused' = reused /\ ctl.op = "subst"
             /\ ctl' = Call(ctl.src.root, Source(ctl.src.root, <<>>), RestrictTo(marked, ctl.v.path))
    <3>1. f.ctx.restrict = ctl.ctx.restrict /\ Expected(f) = ctl.v.path
      BY RestrictionOfCopies DEF Frame, Expected
    <3>2. ctl'.op = "resolve" /\ ctl'.ctx.restrict = ctl.v.path
      BY <2>2, RestrictionOfCopies
    <3> HIDE DEF f
    <3> QED
      BY <2>2, <3>1, <3>2, PushLinks
  <2> QED
    BY <1>6, <2>1, <2>2 DEF SubstReference
<1> QED
  BY <1>1, <1>2, <1>3, <1>4, <1>5, <1>6 DEF Calls

Leaves ==
  \/ LeaveResolve \/ ObjectDone \/ ListDone \/ ConcatenationDone \/ MergeDone
  \/ LookupFailed \/ LookupMissing \/ ReferenceDone \/ Unwind \/ CycleCaught

LEMMA LeavesKeep == TypeOK /\ RestrictInv /\ Leaves => RestrictInv'
<1> SUFFICES ASSUME TypeOK, RestrictInv, Leaves PROVE RestrictInv'
  OBVIOUS
<1> USE DEF Return, Throw
<1>1. /\ stack # <<>> /\ stack' = Pop /\ (reused => reused')
      /\ ctl.op # "throw" => IsContext(ctl.ctx)
  BY DEF Leaves, Running, TypeOK, LeaveResolve, ObjectDone, ListDone, ConcatenationDone, MergeDone,
         LookupFailed, LookupMissing, ReferenceDone, Unwind, CycleCaught
<1>2. ~reused => /\ ctl.op = "return" => ctl.ctx.restrict = Expected(Top)
                 /\ ctl.op = "continue" => ctl.ctx.restrict = Top.ctx.restrict
  BY <1>1 DEF RestrictInv, AtHand, Top
<1> DEFINE Kept(c) == c.op = "throw" \/ (c.op = "return" /\ c.ctx.restrict = Top.ctx.restrict)
<1>3. SUFFICES ASSUME ~reused'
               PROVE  Kept(ctl')
  BY <1>1, PopLinks
<1>4. ~reused
  BY <1>1, <1>3
<1>5. CASE LeaveResolve
  <2>1. ctl.op = "return" /\ Top.fn = "resolve" /\ ctl.ctx.restrict = Top.ctx.restrict
    BY <1>2, <1>4, <1>5 DEF LeaveResolve, Running, Expected
  <2> QED
    BY <1>1, <1>5, <2>1, RestrictionOfCopies DEF LeaveResolve
<1>6. CASE ObjectDone
  BY <1>2, <1>4, <1>6 DEF ObjectDone, Running
<1>7. CASE ListDone
  BY <1>2, <1>4, <1>7 DEF ListDone, Running
<1>8. CASE ConcatenationDone
  BY <1>2, <1>4, <1>8 DEF ConcatenationDone, Running, ReturnOrThrow
<1>9. CASE MergeDone
  BY <1>2, <1>4, <1>9 DEF MergeDone, Running
<1>10. CASE LookupFailed
  BY <1>10 DEF LookupFailed
<1>11. ASSUME NEW c, NEW v, c.restrict = Top.ctx.restrict, ctl' = ReferenceResult(Top.v, c, v)
       PROVE  Kept(ctl')
  BY <1>11, RestrictionOfCopies DEF ReferenceResult
<1>12. CASE LookupMissing
  BY <1>11, <1>12, RestrictionOfCopies DEF LookupMissing
<1>13. CASE ReferenceDone
  <2>1. ctl.ctx.restrict = Top.ctx.restrict
    BY <1>2, <1>4, <1>13 DEF ReferenceDone, Running, Expected
  <2> QED
    BY <1>11, <1>13, <2>1 DEF ReferenceDone
<1>14. CASE Unwind
  BY <1>14 DEF Unwind
<1>15. CASE CycleCaught
  <2>1. \/ ctl' = Throw("cycle")
        \/ /\ ctl' = Return(RemoveMarker(IF Top.at = "lookup" THEN MovedFrom ELSE Top.ctx, Top.v),
                            NoValue)
           /\ ~(Top.at = "lookup")
    BY <1>3, <1>15, Zenon DEF CycleCaught
  <2>2. \/ ctl' = Throw("cycle")
        \/ ctl' = Return(RemoveMarker(Top.ctx, Top.v), NoValue)
    BY <2>1
  <2> QED
    BY <2>2, RestrictionOfCopies
<1> QED
  BY <1>5, <1>6, <1>7, <1>8, <1>9, <1>10, <1>12, <1>13, <1>14, <1>15, Zenon DEF Leaves

GoesOn ==
  \/ ObjectChild \/ ObjectChildDone \/ ListItem \/ ListItemDone \/ Piece \/ PieceDone
  \/ Layer \/ LayerDone \/ LookupFound

LEMMA GoesOnKeep == TypeOK /\ RestrictInv /\ GoesOn => RestrictInv'
<1> SUFFICES ASSUME TypeOK, RestrictInv, GoesOn PROVE RestrictInv'
  OBVIOUS
<1> USE DEF Call, Continue, Throw
<1>1. /\ stack # <<>> /\ reused' = reused /\ ctl.op \in {"continue", "return"}
  BY DEF GoesOn, Running, ObjectChild, ObjectChildDone, ListItem, ListItemDone, Piece, PieceDone,
         Layer, LayerDone, LookupFound
<1>2. ~reused => /\ ctl.op = "return" => ctl.ctx.restrict = Expected(Top)
                 /\ ctl.op = "continue" => ctl.ctx.restrict = Top.ctx.restrict
  BY <1>1 DEF RestrictInv, AtHand, Top
<1>3. DOMAIN Top = {"fn", "v", "src", "ctx", "at", "todo", "acc"}
  BY <1>1, TopIsFrame DEF IsFrame
<1>4. CASE ObjectChild
  <2>1. PICK key \in Top.todo :
          /\ SetTop([Top EXCEPT !.at = key, !.todo = @ \ {key}])
          /\ ctl' = Call(Top.v.kv[key], Top.src,
                         RestrictTo(ctl.ctx, IF Restricted(ctl.ctx) THEN Tail(ctl.ctx.restrict)
                                           ELSE <<>>))
    BY <1>4 DEF ObjectChild
  <2> DEFINE f == [Top EXCEPT !.at = key, !.todo = @ \ {key}]
  <2>2. f.ctx = Top.ctx /\ f.fn = "object"
    BY <1>3, <1>4 DEF ObjectChild, Running
  <2>3. ~reused => ctl.ctx.restrict = Top.ctx.restrict
    BY <1>2, <1>4 DEF ObjectChild, Running
  <2>4. Expected(f) = IF Top.ctx.restrict # <<>> THEN Tail(Top.ctx.restrict) ELSE <<>>
    BY <2>2 DEF Expected
  <2>5. ctl'.op = "resolve" /\ (~reused => ctl'.ctx.restrict = Expected(f))
    <3> DEFINE path == IF Restricted(ctl.ctx) THEN Tail(ctl.ctx.restrict) ELSE <<>>
    <3>1. ctl'.op = "resolve" /\ ctl'.ctx = RestrictTo(ctl.ctx, path)
      BY <2>1
    <3>2. ~reused => path = Expected(f)
      BY <2>3, <2>4, Zenon DEF Restricted
    <3> HIDE DEF path, f
    <3> QED
      BY <3>1, <3>2, RestrictionOfCopies
  <2>6. SetTop(f)
    BY <2>1
  <2> HIDE DEF f
  <2> QED
    BY <1>1, <2>2, <2>5, <2>6, RetopLinks
<1>5. CASE ObjectChildDone
  <2> DEFINE f == [Top EXCEPT !.acc = IF ctl.v = Top.v.kv[Top.at] THEN @
                                        ELSE [k \in DOMAIN @ \cup {Top.at} |->
                                                IF k = Top.at THEN ctl.v ELSE @[k]]]
  <2>1. f.ctx = Top.ctx
    BY <1>3
  <2>2. SetTop(f) /\ ctl'.op = "continue" /\ ctl'.ctx.restrict = Top.ctx.restrict
    BY <1>5, RestrictionOfCopies DEF ObjectChildDone
  <2> HIDE DEF f
  <2> QED
    BY <1>1, <2>1, <2>2, RetopLinks
<1>6. CASE ListItem
  <2> DEFINE f == [Top EXCEPT !.at = @ + 1]
  <2>1. f.ctx = Top.ctx /\ f.fn = "list"
    BY <1>3, <1>6 DEF ListItem, Running
  <2>2. /\ SetTop(f) /\ ctl'.op = "resolve" /\ Expected(f) = Top.ctx.restrict
        /\ ~reused => ctl'.ctx.restrict = Top.ctx.restrict
    BY <1>2, <1>6, <2>1 DEF ListItem, Running, Expected
  <2> HIDE DEF f
  <2> QED
    BY <1>1, <2>1, <2>2, RetopLinks
<1>7. CASE ListItemDone
  <2> DEFINE starts  == Top.acc.items = <<>> /\ ctl.v # Top.v.items[Top.at]
             started == Top.acc.started \/ starts
             before  == IF starts THEN SubSeq(Top.v.items, 1, Top.at - 1) ELSE Top.acc.items
             f == [Top EXCEPT !.acc =
                     [started |-> started,
                      items   |-> IF started /\ HasValue(ctl.v) THEN Append(before, ctl.v)
                                  ELSE before]]
  <2>1. f.ctx = Top.ctx
    BY <1>3
  <2>2. /\ SetTop(f) /\ ctl'.op = "continue"
        /\ ~reused => ctl'.ctx.restrict = Top.ctx.restrict
    BY <1>2, <1>7 DEF ListItemDone, Running, Expected
  <2> HIDE DEF f
  <2> QED
    BY <1>1, <2>1, <2>2, RetopLinks
<1>8. CASE Piece
  <2> DEFINE f == [Top EXCEPT !.at = @ + 1, !.ctx = ctl.ctx]
  <2>1. f.ctx = ctl.ctx /\ f.fn = "concat"
    BY <1>3, <1>8 DEF Piece, Running
  <2>2. /\ SetTop(f) /\ ctl'.op = "resolve" /\ Expected(f) = <<>> /\ ctl'.ctx.restrict = <<>>
        /\ ~reused => ctl.ctx.restrict = Top.ctx.restrict
    BY <1>2, <1>8, <2>1, RestrictionOfCopies DEF Piece, Running, Expected
  <2> HIDE DEF f
  <2> QED
    BY <1>1, <2>1, <2>2, RetopLinks
<1>9. CASE PieceDone
  <2> DEFINE f == [Top EXCEPT !.acc = IF HasValue(ctl.v) THEN Append(@, ctl.v) ELSE @]
  <2>1. f.ctx = Top.ctx
    BY <1>3
  <2>2. SetTop(f) /\ ctl'.op = "continue" /\ ctl'.ctx.restrict = Top.ctx.restrict
    BY <1>9, RestrictionOfCopies DEF PieceDone
  <2> HIDE DEF f
  <2> QED
    BY <1>1, <2>1, <2>2, RetopLinks
<1>10. CASE Layer
  <2> DEFINE f == [Top EXCEPT !.at = @ + 1]
  <2>1. f.ctx = Top.ctx /\ f.fn = "merge"
    BY <1>3, <1>10 DEF Layer, Running
  <2>2. /\ SetTop(f) /\ Expected(f) = Top.ctx.restrict
        /\ ctl'.op = "throw" \/ (ctl'.op = "resolve" /\ ctl'.ctx = ctl.ctx)
    BY <1>10, <2>1 DEF Layer, Expected
  <2>3. ~reused => ctl.ctx.restrict = Top.ctx.restrict
    BY <1>2, <1>10 DEF Layer, Running
  <2> HIDE DEF f
  <2> QED
    BY <1>1, <2>1, <2>2, <2>3, RetopLinks
<1>11. CASE LayerDone
  <2> DEFINE merged == MergedOver(Top.acc, ctl.v)
             f == [Top EXCEPT !.acc = merged]
  <2>1. f.ctx = Top.ctx
    BY <1>3
  <2>2. /\ SetTop(f)
        /\ ctl'.op = "throw" \/ (ctl'.op = "continue" /\ ctl'.ctx = ctl.ctx)
    BY <1>11 DEF LayerDone
  <2>3. ~reused => ctl.ctx.restrict = Top.ctx.restrict
    BY <1>2, <1>11 DEF LayerDone, Running, Expected
  <2> HIDE DEF f
  <2> QED
    BY <1>1, <2>1, <2>2, <2>3, RetopLinks
<1>12. CASE LookupFound
  <2> DEFINE c == RestrictTo(ctl.ctx, Top.ctx.restrict)
             f == [Top EXCEPT !.at = "value", !.ctx = c]
  <2>1. c.restrict = Top.ctx.restrict
    BY RestrictionOfCopies
  <2>2. SetTop(f) /\ ctl'.op = "resolve" /\ ctl'.ctx = c
    BY <1>12 DEF LookupFound, ResolveFound
  <2> HIDE DEF c
  <2>3. f.ctx = c /\ f.fn = "ref" /\ f.at = "value"
    BY <1>3, <1>12 DEF LookupFound, Running
  <2>4. Expected(f) = c.restrict
    BY <2>3 DEF Expected
  <2> HIDE DEF f
  <2> QED
    BY <1>1, <2>1, <2>2, <2>3, <2>4, RetopLinks
<1> QED
  BY <1>4, <1>5, <1>6, <1>7, <1>8, <1>9, <1>10, <1>11, <1>12, Zenon DEF GoesOn

-----------------------------------------------------------------------------
\* Nothing waits in the beginning.
LEMMA RestrictInit == Init => RestrictInv
<1> SUFFICES ASSUME Init PROVE RestrictInv
  OBVIOUS
<1>1. stack = <<>> /\ Len(stack) = 0
  BY DEF Init
<1>2. 2 .. Len(stack) = {}
  BY <1>1
<1> QED
  BY <1>1, <1>2 DEF RestrictInv, Linked, AtHand

\* Every step keeps the restrictions linked.
LEMMA RestrictNext == TypeOK /\ RestrictInv /\ [Next]_vars => RestrictInv'
<1> SUFFICES ASSUME TypeOK, RestrictInv, [Next]_vars PROVE RestrictInv'
  OBVIOUS
<1>1. CASE UNCHANGED vars
  BY <1>1 DEF vars, RestrictInv, Linked, AtHand
<1>2. CASE MemoHit \/ CycleDetected \/ SubstUnchanged
  <2>1. /\ stack' = stack /\ reused' = reused
        /\ \/ ctl'.op = "throw"
           \/ /\ ctl.op \in {"resolve", "subst"} /\ ctl'.op = "return"
              /\ ctl'.ctx.restrict = ctl.ctx.restrict
    BY <1>2 DEF MemoHit, CycleDetected, SubstUnchanged, Return, Throw
  <2> QED
    BY <2>1, StaysLinked
<1>3. CASE LookupEnvironment
  BY <1>3 DEF LookupEnvironment, RestrictInv
<1> QED
  BY <1>1, <1>2, <1>3, CallsKeep, LeavesKeep, GoesOnKeep, Zenon DEF Next, Calls, Leaves, GoesOn

\* A call of resolve_context::resolve gives back the restriction it was
\* given, in every document and for every option, until a context that had
\* been moved from is used again.
THEOREM RestrictionIsRestored == Spec => []RestrictionRestored
<1>1. TypeOK /\ RestrictInv => RestrictionRestored
  <2> SUFFICES ASSUME TypeOK, RestrictInv, Running("return", "resolve"), ~reused
               PROVE  ctl.ctx.restrict = Top.ctx.restrict
    BY Zenon DEF RestrictionRestored
  <2>1. ctl.ctx.restrict = Expected(Top) /\ Top.fn = "resolve"
    BY DEF RestrictInv, AtHand, Running, Top
  <2> QED
    BY <2>1 DEF Expected
<1> QED
  BY <1>1, RestrictInit, RestrictNext, TypeCorrect, PTL DEF Spec
=============================================================================
