----------------------------- MODULE Identifiers -----------------------------
(***************************************************************************)
(* The names every component of the daemon shares.                         *)
(***************************************************************************)
EXTENDS Integers

CONSTANTS
  Devices,  \* the physical Wiimotes, each named by its Bluetooth MAC
  Paths,    \* the HID paths the OS may give to a device node
  None      \* Rust's None

ASSUME DistinctNames ==
  /\ Devices \cap Paths = {}
  /\ {None, "ended", "link down"} \cap (Devices \cup Paths) = {}
  /\ None \notin Nat

(* DeviceSnapshot::id: the MAC when hidapi shows a serial number, else the *)
(* HID path.                                                               *)
Ids == Devices \cup Paths

=============================================================================
