----------------------------- MODULE PaneStream -----------------------------
(***************************************************************************)
(* What a bridge promises: the terminal shows a prefix of what the pane    *)
(* has printed, and the prefix only grows.                                 *)
(***************************************************************************)
EXTENDS Naturals, Sequences

VARIABLES printed, \* how many items the pane has printed
          shown    \* the items the terminal has received

Item(n) == [pane |-> "own", n |-> n]
Prefix(k) == [n \in 1..k |-> Item(n)]

Init == printed \in Nat /\ shown = <<>>

PaneOutputs == printed' = printed + 1 /\ UNCHANGED shown

Show == /\ \E k \in Len(shown)..printed : shown' = Prefix(k)
        /\ UNCHANGED printed

Spec == Init /\ [][PaneOutputs \/ Show]_<<printed, shown>>
=============================================================================
