------------------------------ MODULE Addresses ------------------------------
(***************************************************************************)
(* The representations of a Bluetooth address.  A Wiimote is named here by *)
(* its canonical MAC, the sequence of its bytes as "AA:BB:CC:DD:EE:FF"     *)
(* prints them: most significant first.  A u64 is written [le |-> bytes],  *)
(* with the bytes of to_le_bytes, least significant first, and a bdaddr of *)
(* the kernel's mgmt protocol [wire |-> bytes].                            *)
(***************************************************************************)
EXTENDS SequencesExt

(* BlueZ keeps the bytes of an Address most significant first.             *)
AddressToU64(a) == [le |-> Reverse(a)]
U64ToAddress(u) == Reverse(u.le)

WireFromMsb(a) == [wire |-> Reverse(a)]

(* Win32 keeps rgBytes least significant first, as ullLong does.           *)
BtAddrU64(rgBytes) == [le |-> rgBytes]

(* helpers.rs prints b[5] first and b[0] last.                             *)
FormatAddr(u) == Reverse(u.le)

(* Each part of the MAC becomes the byte of the same index.                *)
MacToU64(mac) == [le |-> [i \in 1..Len(mac) |-> mac[i]]]

=============================================================================
