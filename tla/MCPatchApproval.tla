--------------------------- MODULE MCPatchApproval ---------------------------
(* Instances of PatchApproval for TLC: three deliveries, two of one alert.  *)
EXTENDS PatchApproval, TLC

CONSTANTS r1, r2, r3, kernel, openssl

MCAlertOf == r1 :> kernel @@ r2 :> kernel @@ r3 :> openssl
SameAlert == r1 :> kernel @@ r2 :> kernel
=============================================================================
