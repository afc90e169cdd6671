-------------------------------- MODULE Stacks --------------------------------
(***************************************************************************)
(* Sequences of anything used as stacks, the top at the end.               *)
(***************************************************************************)
EXTENDS Integers, Sequences

\* A sequence, whatever its elements are.
IsSequence(s) == Len(s) \in Nat /\ s = [i \in 1 .. Len(s) |-> s[i]]

Retopped(s, e) == [s EXCEPT ![Len(s)] = e]

Popped(s) == [i \in 1 .. Len(s) - 1 |-> s[i]]
=============================================================================
