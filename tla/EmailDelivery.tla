--------------------------- MODULE EmailDelivery ---------------------------
(***************************************************************************)
(* What the outbox promises for each queued event, with no workers, leases *)
(* or claims in sight: one copy of the mail, plus at most one more for each *)
(* time somebody took the risk of a duplicate; "delivered" is only said of *)
(* an event a copy of which left; a settled event stays settled, except    *)
(* that a failed one may be opened again.                                  *)
(***************************************************************************)
EXTENDS Naturals

CONSTANT Messages

VARIABLES
    phase,   \* none, open, delivered, failed or gone
    copies,  \* mails the relay accepted for the event
    risks    \* times the risk of a duplicate was taken

dvars == <<phase, copies, risks>>

DeliveryInit ==
    /\ phase = [m \in Messages |-> "none"]
    /\ copies = [m \in Messages |-> 0]
    /\ risks = [m \in Messages |-> 0]

\* How the phase of one event may move.
PhaseStep(m) ==
    \/ phase'[m] = phase[m]
    \/ phase[m] = "none" /\ phase'[m] = "open"
    \/ phase[m] = "open" /\ phase'[m] = "delivered" /\ copies[m] > 0
    \/ phase[m] = "open" /\ phase'[m] = "failed"
    \/ phase[m] = "failed" /\ phase'[m] = "open"
    \/ phase[m] # "none" /\ phase'[m] = "gone"

\* A copy leaves only while the ones that left are all accounted for.
CopyStep(m) ==
    \/ copies'[m] = copies[m]
    \/ phase[m] # "none" /\ copies[m] <= risks[m] /\ copies'[m] = copies[m] + 1

RiskStep(m) ==
    \/ risks'[m] = risks[m]
    \/ phase[m] # "none" /\ risks'[m] = risks[m] + 1

\* One pass of recovery may settle several events, so a step moves any of them.
DeliveryNext == \A m \in Messages : PhaseStep(m) /\ CopyStep(m) /\ RiskStep(m)

DeliverySpec == DeliveryInit /\ [][DeliveryNext]_dvars

=============================================================================
