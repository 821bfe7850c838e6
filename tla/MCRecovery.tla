------------------------------ MODULE MCRecovery ------------------------------
(***************************************************************************)
(* Small instances of pairing and recovery for TLC.  Addresses have two    *)
(* bytes, so that the byte order shows.                                    *)
(***************************************************************************)
EXTENDS Recovery

OneAddr == {AddressToU64(<<1, 2>>)}

=============================================================================
