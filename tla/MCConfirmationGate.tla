------------------------ MODULE MCConfirmationGate ------------------------
(* Instances of ConfirmationGate for TLC: two challenges of any kind, about *)
(* a service and about a host that may be registered twice.                 *)
EXTENDS ConfirmationGate, TLC

CONSTANTS n1, n2, loki

MCHostOf == n1 :> loki @@ n2 :> loki
===========================================================================
