--------------------------- MODULE ScannerContract ---------------------------
(***************************************************************************)
(* What a PlatformScanner promises the daemon (platform/mod.rs): it pairs  *)
(* one Wiimote at a time, and tells of each attempt first that it has      *)
(* begun and, if the operating system ever answers, how it ended.          *)
(***************************************************************************)
EXTENDS Naturals, Sequences

CONSTANTS
  None,      \* Rust's None
  Addrs,     \* the u64 addresses of the Wiimotes
  Reasons,   \* what the reason of PairFailed says, as far as the daemon reads it
  MaxQueue   \* bound: events not yet received when the scanner sends more

ASSUME ContractConstants ==
  /\ None \notin Addrs
  /\ Reasons \subseteq {"Page Timeout", "Authentication", "AuthenticateDeviceEx 0x1f", "other"}
  /\ MaxQueue \in Nat \ {0}

VARIABLES
  attempt,     \* the Wiimote being paired
  scanner_rx   \* the events the daemon has not yet received

contractVars == <<attempt, scanner_rx>>

(* Discovered and Error are only logged and are left out.                  *)
ScannerEvent ==
  [type : {"Pairing", "Paired", "HidEnabled", "SdpCacheStale", "AuthStuck"}, addr : Addrs]
    \cup [type : {"PairFailed"}, addr : Addrs, reason : Reasons]

Event(type, a) == [type |-> type, addr |-> a]
PairFailed(a, reason) == [type |-> "PairFailed", addr |-> a, reason |-> reason]

(* The channel is unbounded; MaxQueue caps it.                             *)
Send(evs) ==
  /\ Len(scanner_rx) < MaxQueue
  /\ scanner_rx' = scanner_rx \o evs

(* The answer to a failed attempt: a registry that holds a half-paired     *)
(* entry is reported before the failure itself.                            *)
Failure(a, reason) ==
  IF reason = "AuthenticateDeviceEx 0x1f"
    THEN <<Event("AuthStuck", a), PairFailed(a, reason)>>
    ELSE <<PairFailed(a, reason)>>

ContractInit ==
  /\ attempt = None
  /\ scanner_rx = <<>>

Begin(a) ==
  /\ attempt = None
  /\ attempt' = a
  /\ Send(<<Event("Pairing", a)>>)

Succeed ==
  /\ attempt # None
  /\ attempt' = None
  /\ Send(<<Event("Paired", attempt)>>)

Fail(reason) ==
  /\ attempt # None
  /\ attempt' = None
  /\ Send(Failure(attempt, reason))

(* News of the HID service of a Wiimote that is not being paired.          *)
Report(type, a) ==
  /\ attempt = None
  /\ type \in {"HidEnabled", "SdpCacheStale"}
  /\ Send(<<Event(type, a)>>)
  /\ UNCHANGED attempt

Receive ==
  /\ scanner_rx # <<>>
  /\ scanner_rx' = Tail(scanner_rx)
  /\ UNCHANGED attempt

ScannerNews ==
  \/ \E a \in Addrs :
       \/ Begin(a)
       \/ \E type \in {"HidEnabled", "SdpCacheStale"} : Report(type, a)
  \/ \E reason \in Reasons : Fail(reason)

ContractNext == ScannerNews \/ Succeed \/ Receive

ContractSpec == ContractInit /\ [][ContractNext]_contractVars

=============================================================================
