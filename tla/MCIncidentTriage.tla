-------------------------- MODULE MCIncidentTriage --------------------------
(* Instances of IncidentTriage for TLC. *)
EXTENDS IncidentTriage

CONSTANT Plain  \* an alert without a fingerprint, or None

Incident == CHOOSE f \in Fingerprints : TRUE
OneIncident == [a \in Alerts |-> IF a = Plain THEN None ELSE Incident]
=============================================================================
