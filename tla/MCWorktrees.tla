---------------------------- MODULE MCWorktrees ----------------------------
EXTENDS Worktrees, TLC
Symmetry == Permutations(Calls) \cup Permutations(Trees)
=============================================================================
