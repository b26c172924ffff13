------------------------------ MODULE MCOutbox ------------------------------
(* Instances of Outbox for TLC.                                            *)
EXTENDS Outbox, TLC

\* Events and requests are interchangeable: no property names one.
Symmetry == Permutations(Event) \cup Permutations(Request)

=============================================================================
