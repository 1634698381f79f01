------------------------------ MODULE Replica -------------------------------
(***************************************************************************)
(* What the synchronisation of a property promises a receiver: its copy    *)
(* only ever changes into the whole current value, never into a mixture of *)
(* old and new parts, and while the value rests it gets there.             *)
(***************************************************************************)
VARIABLES value, copy

vars == <<value, copy>>

Init == copy = value

\* The owner changes its property.
Change == value' # value /\ UNCHANGED copy

\* The receiver catches up.
Sync == copy' = value /\ UNCHANGED value

Next == Change \/ Sync

Spec == Init /\ [][Next]_vars

FairSpec == Spec /\ WF_vars(Sync)
=============================================================================
