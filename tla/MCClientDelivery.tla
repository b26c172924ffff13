-------------------------- MODULE MCClientDelivery --------------------------
EXTENDS ClientDelivery, TLC

CallSymmetry == Permutations(Call)

=============================================================================
