------------------------------ MODULE MCTransport ------------------------------
(***************************************************************************)
(* A small instance of the HID transport for TLC.                          *)
(***************************************************************************)
EXTENDS HidTransport

CONSTANTS d1, p1

EveryPath == [d \in Devices |-> Paths]

=============================================================================
