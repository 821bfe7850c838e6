------------------------------ MODULE MCScanners ------------------------------
(***************************************************************************)
(* Small instances of the scanners for TLC.  Addresses have two bytes, so  *)
(* that the byte order shows.                                              *)
(***************************************************************************)
EXTENDS Scanners

TwoWiimotes == {<<1, 2>>, <<2, 1>>}

=============================================================================
