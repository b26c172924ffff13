-------------------------- MODULE MCDurableCommit --------------------------
EXTENDS DurableCommit, TLC

\* The requests are alike.
RequestSymmetry == Permutations(Tx)

=============================================================================
