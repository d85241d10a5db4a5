---------------------------- MODULE MCOutputPipe ----------------------------
EXTENDS OutputPipe, TLC

\* The calls run the same code: any two of them may be swapped.
CallSymmetry == Permutations(Calls)
=============================================================================
