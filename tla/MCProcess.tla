------------------------------ MODULE MCProcess ------------------------------
(***************************************************************************)
(* Small instances of the daemon's process for TLC: one Wiimote, known to  *)
(* devices.json or not, that may come back at another HID path.            *)
(***************************************************************************)
EXTENDS DaemonProcess

CONSTANTS d1, p1, p2

(* The file may be new, may know the Wiimote at a path it has left, or may *)
(* be of a version that keyed it on its path.                              *)
Entry(profile) == [path |-> p1, last_extension |-> None, mapping_profile |-> profile]
SomeFiles == {[k \in S |-> Entry("guitar")] : S \in {{}, {d1}, {p1}}}
KnownFile == {[k \in {d1} |-> Entry("auto")]}

AnyPath == [d \in Devices |-> Paths]

=============================================================================
