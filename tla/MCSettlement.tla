---------------------------- MODULE MCSettlement ----------------------------
EXTENDS Settlement

\* The checklist and the money meet in the issue of the deposit invoice alone: what
\* is done on the checklist besides is explored without payments.
Focus ==
    \/ payment = <<>> /\ \A t \in Type : direct[t] = 0
    \/ brief = "none" /\ ~Asked /\ byHand = {}

=============================================================================
