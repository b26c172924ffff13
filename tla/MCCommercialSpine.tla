-------------------------- MODULE MCCommercialSpine --------------------------
EXTENDS CommercialSpine, TLC

CallSymmetry == Permutations(Call)

=============================================================================
