----------------------------- MODULE CapSelfGrant -----------------------------
(***************************************************************************)
(* How a Linux process comes by CAP_NET_ADMIN before anything else of it   *)
(* runs (cap_self_grant.rs).  /proc, pkexec, setcap and exec are external. *)
(***************************************************************************)
VARIABLE
  boot  \* "launched", "relaunched" with RETRY_ENV set, then "capable" or
        \* "degraded", and "running" once the scanner has made use of it

BootTypeOK == boot \in {"launched", "relaunched", "capable", "degraded", "running"}

BootInit == boot = "launched"

(* The process already has it, by an earlier grant.                        *)
HasCapNetAdmin ==
  /\ boot \in {"launched", "relaunched"}
  /\ boot' = "capable"

(* pkexec setcap succeeds and the process execs itself, once.              *)
GrantAndReexec ==
  /\ boot = "launched"
  /\ boot' = "relaunched"

(* The path of the executable is unknown, pkexec is missing, cancelled or  *)
(* denied, exec fails, or the grant did not help: go on without it.        *)
ContinueDegraded ==
  /\ boot \in {"launched", "relaunched"}
  /\ boot' = "degraded"

EnsureCapNetAdmin == HasCapNetAdmin \/ GrantAndReexec \/ ContinueDegraded

=============================================================================
