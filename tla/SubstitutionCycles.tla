-------------------------- MODULE SubstitutionCycles --------------------------
(***************************************************************************)
(* What the cycle markers promise: substitutions are entered and left one  *)
(* at a time, and none is entered while it is being resolved.  So the      *)
(* recursion is never deeper than there are substitutions in the document. *)
(*                                                                         *)
(* The promise ends when the markers are forgotten.                        *)
(***************************************************************************)
EXTENDS Naturals

VARIABLES
  active,     \* the substitutions being resolved
  depth,      \* how many calls are resolving one
  forgotten   \* a resolve_context that had been moved from was used again

vars == <<active, depth, forgotten>>

Init == active = {} /\ depth = 0 /\ forgotten = FALSE

Enter ==
  /\ ~forgotten
  /\ \E ref \in active' \ active : active' = active \cup {ref}
  /\ depth' = depth + 1
  /\ UNCHANGED forgotten

Leave ==
  /\ ~forgotten
  /\ \E ref \in active : active' = active \ {ref}
  /\ depth' = depth - 1
  /\ UNCHANGED forgotten

Forget == ~forgotten /\ forgotten' = TRUE

Forgotten == forgotten /\ UNCHANGED forgotten

Next == Enter \/ Leave \/ Forget \/ Forgotten

Spec == Init /\ [][Next]_vars
=============================================================================
