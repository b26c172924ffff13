------------------------------ MODULE Delivery ------------------------------
(***************************************************************************)
(* What the outbox promises its callers (ADR-0010: no dual-write loss,     *)
(* at-least-once delivery, dead letters as operational objects), without   *)
(* rows, queries, attempts or restarts: an event is owed from its commit,  *)
(* then delivered, or parked as a dead letter until it is owed again.      *)
(* A commit that was never acknowledged may be forgotten; one that was     *)
(* acknowledged may not, and a delivery is never taken back.               *)
(***************************************************************************)
CONSTANT Event

VARIABLES
    acked,  \* events whose commit was acknowledged to its caller
    state   \* what has become of each event

vars == <<acked, state>>

State == {"none", "owed", "delivered", "parked"}

Init ==
    /\ acked = {}
    /\ state = [e \in Event |-> "none"]

\* One step settles any number of events: a publisher pass handles a batch.
MayBecome(e) ==
    CASE state[e] = "none"      -> {"none", "owed"}
      [] state[e] = "owed"      -> {"owed", "delivered", "parked"}
      [] state[e] = "parked"    -> {"parked", "owed", "delivered"}
      [] state[e] = "delivered" -> {"delivered"}

Forgotten(e) == state'[e] = "none" /\ state[e] # "delivered" /\ e \notin acked

Next ==
    /\ acked \subseteq acked'
    /\ \A e \in acked' \ acked : state'[e] # "none"
    /\ state' \in [Event -> State]
    /\ \A e \in Event : state'[e] \in MayBecome(e) \/ Forgotten(e)

Spec == Init /\ [][Next]_vars

=============================================================================
