--------------------------- MODULE MCAlertMonitoring ---------------------------
(* Values of AlertMonitoring's constants for TLC, and a bound on time. *)
EXTENDS AlertMonitoring

CONSTANTS a1, a2, Horizon

MCAlerts == {a1, a2}
MCSeverity == [a \in MCAlerts |-> IF a = a1 THEN 3 ELSE 1]
MCGroupKey == [a \in MCAlerts |-> 1]

\* Time goes up to the horizon.
WithinHorizon == now <= Horizon

=============================================================================
