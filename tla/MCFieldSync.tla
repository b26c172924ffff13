---------------------------- MODULE MCFieldSync ----------------------------
EXTENDS FieldSync, TLC

DeviceSymmetry == Permutations(Device)

=============================================================================
