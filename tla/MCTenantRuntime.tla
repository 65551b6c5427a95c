--------------------------- MODULE MCTenantRuntime ---------------------------
(* Small instances of TenantRuntime for TLC.                               *)
EXTENDS TenantRuntime, TLC

(* suspend, and a PATCH with the status of a binding; what resume writes   *)
(* is written by a provision as well.                                      *)
MCTargets == {"suspended", "upstream_bound_mock"}

=============================================================================
